------------------------------- MODULE Placement -------------------------------
(* The placement heuristic of FlexFCAPF: class CPFlex of cp_flex_fcfs.py over    *)
(* the network data of crowd_network.py.  Local controllers (CLCs) control       *)
(* nodes and satisfy flows, every CLC is coordinated by a regional controller    *)
(* (CRC); both reserve processing capacity at a node and data rate on links.     *)
(*                                                                               *)
(* The program is single threaded.  An action is one iteration of one loop of    *)
(* the code, pc names the loop, and ret names the loop that control returns to.  *)
(* The driver (csimpfo_fcfs.py) is the environment: it adds a flow, removes a    *)
(* flow, drops CLCs when the load is low, and calls cpgreedy.                    *)
(*                                                                               *)
(* A Python exception nobody catches ends the program: pc holds its name.        *)
(*                                                                               *)
(* Some helpers stand before the one they are a slip of (TooSlowNoRTT before     *)
(* TooSlow): no action uses them, the README lists the property each would break.*)
EXTENDS Integers, FiniteSets, Sequences, FiniteSetsExt

CONSTANTS
    Node,       \* cn.V
    Cand,       \* cn.C as read from the topology: nodes able to host a controller
    Edge,       \* links of cn.G
    Flow,       \* data flow groups that may arrive
    None,       \* Python's None
    PathEdges,  \* PathEdges[v][w]: the links of nx.shortest_path(G, v, w)
    RTT,        \* RTT[v][w]: twice the latency of that path
    Wb,         \* Wb[f]: the nodes flow f enters through
    BCap, PNode,            \* capacity of a link, of a node
    BCRC, PCRC, LCRC,       \* data rate, processing, round trip limit: CRC control
    BCLC, PCLC, LCLC,       \* the same for CLC control
    BFlow, PFlow, LFlow,    \* the same for each flow
    Eps                     \* the 1e-4 of addFlowSat and checkFlowSat

ASSUME SetsAssumption ==
    /\ IsFiniteSet(Node) /\ Node # {}
    /\ Cand \subseteq Node /\ Cand # {}
    /\ IsFiniteSet(Edge) /\ IsFiniteSet(Flow)
    /\ None \notin Node /\ None \notin Flow
    /\ PathEdges \in [Node -> [Node -> SUBSET Edge]]
    /\ \A v \in Node : PathEdges[v][v] = {}
    /\ RTT \in [Node -> [Node -> Nat]]
    /\ Wb \in [Flow -> SUBSET Node] /\ \A f \in Flow : Wb[f] # {}

ASSUME DemandAssumption ==
    /\ BCap \in [Edge -> Nat] /\ PNode \in [Cand -> Nat \ {0}]
    /\ BCRC \in Nat /\ PCRC \in Nat \ {0} /\ LCRC \in Nat
    /\ BCLC \in Nat /\ PCLC \in Nat \ {0} /\ LCLC \in Nat
    /\ BFlow \in [Flow -> Nat] /\ PFlow \in [Flow -> Nat \ {0}]
    /\ LFlow \in [Flow -> Nat] /\ Eps \in Nat

VARIABLES
    cands, flows,                        \* cn.C, cn.F
    clcs,                                \* CLCs, in the order they were added
    control, clcsOf, controlled,         \* CLCcontrol of a CLC, CLCs of a node, Controlled
    crcs, crcControl, crcOf,             \* CRCs, CRCcontrol of a CRC, CRC of a node
    flowCLC,                             \* fdata[f]['CLC'], None unless isSat
    bRem, pRem,                          \* remaining capacity of links and nodes
    state, vcRatio, option, first,       \* state, VCRatio as a fraction, globalOption
    pc, ret,                             \* control
    cur, flow, todo, rest, sat0,         \* locals of the function being run
    paths, pf, nnc                       \* locals of addNewCLC and browseCurrentCLCs

inVars   == <<cands, flows>>
clcVars  == <<clcs, control, clcsOf, controlled>>
crcVars  == <<crcs, crcControl, crcOf>>
netVars  == <<bRem, pRem>>
placeVars == <<clcVars, crcVars, flowCLC, netVars>>
algVars  == <<vcRatio, option, first>>
growVars == <<paths, pf, nnc>>
locVars  == <<cur, flow, todo, rest, sat0>>
vars == <<inVars, placeVars, state, algVars, pc, ret, locVars, growVars>>

CLCSet == {clcs[i] : i \in DOMAIN clcs}
Satisfied == {f \in flows : flowCLC[f] # None}
SatisfiesOfAll(c) == {f \in Flow : flowCLC[f] # None}
Satisfies(c) == {f \in Flow : flowCLC[f] = c}
Wf(v) == {f \in flows : v \in Wb[f]}
Unsatisfied(v) == Cardinality(Wf(v) \ Satisfied)
Hops(v, w) == Cardinality(PathEdges[v][w])
Neighbors(v) == {w \in Node : Hops(v, w) = 1}

Errors == {"ZeroDivisionError", "IndexError"}
Labels == {"idle", "lowload", "enter", "nodes", "nodesAgain", "find", "found", "grow",
           "flows", "judge", "drop", "cleanup", "single", "search", "reach"}

--------------------------------------------------------------------------------
(* Demands: what a control or a flow takes from its controller.                  *)

Demand(p, l, rtt) == p \div (l - rtt)
CRCDemand(v, w) == Demand(PCRC, LCRC, RTT[v][w])
CLCDemand(v, w) == Demand(PCLC, LCLC, RTT[v][w])
MaxRTT(v, f) == CHOOSE r \in {RTT[v][k] : k \in Wb[f]} : \A k \in Wb[f] : RTT[v][k] <= r
FlowTakenNoRTT(v, f) == PFlow[f] \div (LFlow[f] - Eps)
FlowTaken(v, f) == Demand(PFlow[f], LFlow[f] - Eps, MaxRTT(v, f))   \* p_rem -= ...
FlowNoted(v, f) == Demand(PFlow[f], LFlow[f], MaxRTT(v, f))         \* ProcFlow[f] = ...
Streams(v, f, e) == Cardinality({k \in Wb[f] : e \in PathEdges[v][k]})

(* rtt + p / p_rem > l, for a positive p_rem.                                    *)
TooSlowNoRTT(v, p, l, rtt) == p > l * pRem[v]
TooSlow(v, p, l, rtt) == rtt * pRem[v] + p > l * pRem[v]

CheckControl(v, w, b, p, l) ==
    IF \E e \in PathEdges[v][w] : bRem[e] < b THEN "bandwidth"
    ELSE IF pRem[v] = 0 THEN "zerodiv"
    ELSE IF TooSlow(v, p, l, RTT[v][w]) THEN "processing"
    ELSE "ok"
CheckCRC(v, w) == CheckControl(v, w, BCRC, PCRC, LCRC)
CheckCLC(v, w) == CheckControl(v, w, BCLC, PCLC, LCLC)

Eligible(v, f) == flowCLC[f] = None /\ Wb[f] \subseteq control[v]
CheckFlowSat(v, f) ==
    IF ~Eligible(v, f) THEN "no"
    ELSE IF pRem[v] = 0 THEN "zerodiv"
    ELSE IF \E k \in Wb[f] : TooSlow(v, PFlow[f], LFlow[f] - Eps, RTT[v][k]) THEN "no"
    ELSE IF \E e \in Edge : bRem[e] < Streams(v, f, e) * BFlow[f] THEN "no"
    ELSE "ok"

--------------------------------------------------------------------------------
(* The elementary operations on the placement.                                   *)

Charge(v, w, b) == [e \in Edge |-> IF e \in PathEdges[v][w] THEN bRem[e] - b ELSE bRem[e]]
Refund(v, w, b) == [e \in Edge |-> IF e \in PathEdges[v][w] THEN bRem[e] + b ELSE bRem[e]]

AddCRCcontrol(v, w) ==
    /\ bRem' = Charge(v, w, BCRC)
    /\ pRem' = [pRem EXCEPT ![v] = @ - CRCDemand(v, w)]
    /\ crcControl' = [crcControl EXCEPT ![v] = @ \cup {w}]
    /\ crcOf' = [crcOf EXCEPT ![w] = v]
    /\ crcs' = crcs \cup {v}

(* A CRC that coordinates nobody stops being one: remCRCcontrol calls remCRC.    *)
CoordinatesNoneYet(v, w) == crcControl[v] = {}
CoordinatesOnly(v, w) == crcControl[v] = {w}
RemCRCcontrol(v, w) ==
    /\ bRem' = Refund(v, w, BCRC)
    /\ pRem' = [pRem EXCEPT ![v] = @ + CRCDemand(v, w)]
    /\ crcControl' = [crcControl EXCEPT ![v] = @ \ {w}]
    /\ crcOf' = [crcOf EXCEPT ![w] = None]
    /\ crcs' = IF CoordinatesOnly(v, w) THEN crcs \ {v} ELSE crcs

AddCLCcontrol(v, w) ==
    /\ bRem' = Charge(v, w, BCLC)
    /\ pRem' = [pRem EXCEPT ![v] = @ - CLCDemand(v, w)]
    /\ control' = [control EXCEPT ![v] = @ \cup {w}]
    /\ clcsOf' = [clcsOf EXCEPT ![w] = @ \cup {v}]
    /\ clcs' = IF v \in CLCSet THEN clcs ELSE Append(clcs, v)
    /\ controlled' = controlled \cup {w}

HasSomeCLC(v, w) == clcsOf[w] # {}
LosesLastCLC(v, w) == clcsOf[w] = {v}
StateKept(v, w) == state
StateWithout(v, w) == IF LosesLastCLC(v, w) THEN "NOT SOLVED" ELSE state
RemCLCcontrol(v, w) ==
    /\ bRem' = Refund(v, w, BCLC)
    /\ pRem' = [pRem EXCEPT ![v] = @ + CLCDemand(v, w)]
    /\ control' = [control EXCEPT ![v] = @ \ {w}]
    /\ clcsOf' = [clcsOf EXCEPT ![w] = @ \ {v}]
    /\ controlled' = IF LosesLastCLC(v, w) THEN controlled \ {w} ELSE controlled
    /\ state' = StateWithout(v, w)
    /\ UNCHANGED clcs

AddFlowSat(v, f) ==
    /\ bRem' = [e \in Edge |-> bRem[e] - Streams(v, f, e) * BFlow[f]]
    /\ pRem' = [pRem EXCEPT ![v] = @ - FlowTaken(v, f)]
    /\ flowCLC' = [flowCLC EXCEPT ![f] = v]

StreamsOnce(v, f, e) == IF Streams(v, f, e) > 0 THEN 1 ELSE 0
StreamsReleased(v, f, e) == Streams(v, f, e)
RemFlowSat(f) ==
    LET v == flowCLC[f] IN
    /\ bRem' = [e \in Edge |-> bRem[e] + StreamsReleased(v, f, e) * BFlow[f]]
    /\ pRem' = [pRem EXCEPT ![v] = @ + FlowNoted(v, f)]
    /\ flowCLC' = [flowCLC EXCEPT ![f] = None]

--------------------------------------------------------------------------------
(* The state before the first call: no controller, and the flows either cleared  *)
(* (csimpfo_fcfs.py) or all those of the topology file (crun_flexfcpf.py).        *)
NoGrowth ==
    /\ paths = {}
    /\ pf = [v \in Node |-> {}]
    /\ nnc = [v \in Node |-> 0]

Init ==
    /\ cands = Cand
    /\ flows \in {{}, Flow}
    /\ clcs = <<>>
    /\ control = [v \in Node |-> {}]
    /\ clcsOf = [v \in Node |-> {}]
    /\ controlled = {}
    /\ crcs = {}
    /\ crcControl = [v \in Node |-> {}]
    /\ crcOf = [v \in Node |-> None]
    /\ flowCLC = [f \in Flow |-> None]
    /\ bRem = BCap
    /\ pRem = PNode
    /\ state = "NOT SOLVED"
    /\ vcRatio = <<Cardinality(Node), IF Cardinality(Cand) > 1 THEN Cardinality(Cand) - 1 ELSE 1>>
    /\ option = "neighbors"
    /\ first = TRUE
    /\ pc = "idle" /\ ret = "idle"
    /\ cur = None /\ flow = None /\ todo = {} /\ rest = {} /\ sat0 = 0
    /\ NoGrowth

EndGrowth ==
    /\ paths' = {}
    /\ pf' = [v \in Node |-> {}]
    /\ nnc' = [v \in Node |-> 0]

Return(l) == pc' = l /\ ret' = "idle"

--------------------------------------------------------------------------------
(* addNewCLC and browseCurrentCLCs: the CLCs at work take further nodes and      *)
(* satisfy flows.  addNewCLC runs the same loop for one CLC, without the load    *)
(* test.  A pending path keeps the sort keys it was created with.                *)

PathRecord == [src : Cand, dst : Node, ctrl : BOOLEAN, wants : Nat]
PathsFrom(v, targets, done) ==
    {[src |-> v, dst |-> i, ctrl |-> i \in done, wants |-> Unsatisfied(i)] :
        i \in {j \in targets : j \notin done \/ Unsatisfied(j) > 0}}

(* updatePotentialFlows, for the flows entering through the nodes nn.            *)
PotentialFlows(nn, ctrl) ==
    {f \in flows : /\ flowCLC[f] = None
                   /\ Wb[f] \cap nn # {}
                   /\ Wb[f] \subseteq ctrl}

PathRank(p) ==
    IF controlled # Node
    THEN 2 * Hops(p.src, p.dst) + (IF p.ctrl THEN 1 ELSE 0)
    ELSE (Cardinality(Flow) - p.wants) * (Cardinality(Edge) + 1) + Hops(p.src, p.dst)
FirstPaths == {p \in paths : \A q \in paths : PathRank(p) <= PathRank(q)}

Browsing == ret = "enter"
Overloaded(v) == Browsing /\ 100 * pRem[v] < PNode[v]       \* CLCload(v) > 0.99
MayServe(v) == nnc[v] * vcRatio[2] >= vcRatio[1] \/ controlled = Node

Current(v) ==
    IF (\E u \in Node : pf[u] # {}) /\ (paths = {} \/ controlled = Node)
    THEN pf[v] # {}
    ELSE \E p \in FirstPaths : p.src = v
GrowthOver ==
    \/ paths = {} /\ \A v \in Node : pf[v] = {}
    \/ controlled = Node /\ Satisfied = flows
Growing(v) == pc = "grow" /\ ~GrowthOver /\ Current(v)
ServesNext(v) == pf[v] # {} /\ (paths = {} \/ MayServe(v))
MostDemanding(F) == {f \in F : \A g \in F : PFlow[g] <= PFlow[f]}

GrowSkip(v) ==
    /\ Growing(v) /\ Overloaded(v)
    /\ pf' = [pf EXCEPT ![v] = {}]
    /\ paths' = {p \in paths : p.src # v}
    /\ UNCHANGED <<inVars, placeVars, state, algVars, pc, ret, locVars, nnc>>

GrowFlow(v) ==
    /\ Growing(v) /\ ~Overloaded(v) /\ ServesNext(v)
    /\ \E f \in MostDemanding(pf[v]) :
         \/ /\ CheckFlowSat(v, f) = "ok"
            /\ AddFlowSat(v, f)
            /\ pf' = [u \in Node |-> pf[u] \ {f}]
         \/ /\ CheckFlowSat(v, f) = "no"
            /\ pf' = [pf EXCEPT ![v] = @ \ {f}]
            /\ UNCHANGED <<netVars, flowCLC>>
    /\ UNCHANGED <<inVars, clcVars, crcVars, state, algVars, pc, ret, locVars, paths, nnc>>

GrowPath(v) ==
    /\ Growing(v) /\ ~Overloaded(v) /\ ~ServesNext(v)
    /\ \E p \in {q \in FirstPaths : q.src = v} :
         \/ /\ CheckCLC(v, p.dst) = "ok"
            /\ AddCLCcontrol(v, p.dst)
            /\ nnc' = [nnc EXCEPT ![v] = IF p.dst \in controlled THEN @ ELSE @ + 1]
            /\ pf' = [pf EXCEPT ![v] = @ \cup PotentialFlows({p.dst}, control[v] \cup {p.dst})]
            /\ paths' = paths \ {p}
         \/ /\ CheckCLC(v, p.dst) = "bandwidth"
            /\ paths' = paths \ {p}
            /\ UNCHANGED <<clcVars, netVars, nnc, pf>>
         \/ /\ CheckCLC(v, p.dst) = "processing"
            /\ paths' = {q \in paths : q.src # v}
            /\ pf' = [pf EXCEPT ![v] = {}]
            /\ UNCHANGED <<clcVars, netVars, nnc>>
    /\ UNCHANGED <<inVars, crcVars, flowCLC, state, algVars, pc, ret, locVars>>

GrowDone ==
    /\ pc = "grow" /\ GrowthOver
    /\ EndGrowth
    /\ Return(ret)
    /\ UNCHANGED <<inVars, placeVars, state, algVars, locVars>>

--------------------------------------------------------------------------------
(* remCLC(cur): release its flows, then its nodes, then its own coordination.    *)

DropFlow(f) ==
    /\ pc = "drop" /\ f \in Satisfies(cur)
    /\ RemFlowSat(f)
    /\ UNCHANGED <<inVars, clcVars, crcVars, state, algVars, pc, ret, locVars, growVars>>

DropControl(w) ==
    /\ pc = "drop" /\ Satisfies(cur) = {} /\ w \in control[cur]
    /\ RemCLCcontrol(cur, w)
    /\ UNCHANGED <<inVars, crcVars, flowCLC, algVars, pc, ret, locVars, growVars>>

(* isCLC is reset before remCRCcontrol looks at it, so the CLC is not put on     *)
(* uncontrolledCLCs.                                                             *)
DropDone ==
    /\ pc = "drop" /\ Satisfies(cur) = {} /\ control[cur] = {}
    /\ IF crcOf[cur] # None THEN RemCRCcontrol(crcOf[cur], cur)
                            ELSE UNCHANGED <<crcVars, netVars>>
    /\ \E i \in DOMAIN clcs :
         /\ clcs[i] = cur
         /\ clcs' = [j \in 1 .. Len(clcs) - 1 |-> IF j < i THEN clcs[j] ELSE clcs[j + 1]]
    /\ Return(ret)
    /\ cur' = None
    /\ UNCHANGED <<inVars, control, clcsOf, controlled, flowCLC, state, algVars, flow, todo,
                   rest, sat0, growVars>>

--------------------------------------------------------------------------------
(* cleanupCLCcontrols(todo): whatever the shuffled order, a control is removed   *)
(* while its node has another CLC and no flow through the node is served.        *)

UselessServing(c, v) == c \in clcsOf[v] /\ c # v /\ Cardinality(clcsOf[v]) > 1
UselessLast(c, v) == c \in clcsOf[v] /\ c # v /\ Satisfies(c) \cap Wf(v) = {}
Useless(c, v) ==
    /\ c \in clcsOf[v] /\ c # v
    /\ Cardinality(clcsOf[v]) > 1
    /\ Satisfies(c) \cap Wf(v) = {}

CleanupRemove(v) ==
    /\ pc = "cleanup" /\ v \in todo
    /\ \E c \in Cand : Useless(c, v) /\ RemCLCcontrol(c, v)
    /\ UNCHANGED <<inVars, crcVars, flowCLC, algVars, pc, ret, locVars, growVars>>

CleanupDone ==
    /\ pc = "cleanup" /\ \A v \in todo, c \in Cand : ~Useless(c, v)
    /\ Return("idle")
    /\ todo' = {}
    /\ UNCHANGED <<inVars, placeVars, state, algVars, cur, flow, rest, sat0, growVars>>

--------------------------------------------------------------------------------
(* getCLCcandidates: CRCs are left out while there is another candidate; the     *)
(* order is by the nodes or flows a candidate would gain, and by the distance to *)
(* the remaining ones once no candidate gains any.                               *)

FreeCandsOrCLCs == IF cands \ crcs # {} THEN cands \ crcs ELSE cands
FreeCands ==
    LET free == cands \ CLCSet IN IF free \ crcs # {} THEN free \ crcs ELSE free

NewNodes(k) == Cardinality(({k} \cup Neighbors(k)) \ controlled)
Remaining(o) ==
    IF o = "isolated_nodes" THEN Node \ controlled
    ELSE UNION {Wb[f] : f \in flows \ Satisfied}
NearestHop(k, T) == CHOOSE d \in {Hops(k, i) : i \in T} : \A i \in T : d <= Hops(k, i)

(* The option getCLCcandidates ends up with.                                     *)
EffectiveOption(o) ==
    IF o = "neighbors" /\ \A k \in FreeCands : NewNodes(k) = 0 THEN "isolated_nodes"
    ELSE IF o = "flows" /\ \A k \in FreeCands : Unsatisfied(k) = 0 THEN "isolated_flows"
    ELSE o
CandBefore(j, k) ==
    CASE option = "neighbors" -> NewNodes(j) > NewNodes(k)
      [] option = "flows" -> Unsatisfied(j) > Unsatisfied(k)
      [] OTHER -> NearestHop(j, Remaining(option)) < NearestHop(k, Remaining(option))

BeginFind(back) ==
    /\ option' = EffectiveOption(option)
    /\ todo' = FreeCands
    /\ pc' = "find" /\ ret' = back

--------------------------------------------------------------------------------
(* findCRC(v): active CRCs first, then unused candidates, then v, then CLCs.     *)

Centrality(i) == MapThenSumSet(LAMBDA d : Hops(i, d) + 1, cands)

Tier(i, v) ==
    IF i \in crcs THEN 0 ELSE IF i = v THEN 2 ELSE IF i \in CLCSet THEN 3 ELSE 1
Closeness(i, v) == IF Tier(i, v) = 1 /\ crcs = {} THEN Centrality(i) ELSE Hops(i, v)
CRCBefore(i, j, v) ==
    \/ Tier(i, v) < Tier(j, v)
    \/ Tier(i, v) = Tier(j, v) /\ Closeness(i, v) < Closeness(j, v)
Hosts(v) == crcs \cup cands \cup CLCSet \cup {v}

(* i is the first host in that order whose check does not say no.                *)
FirstHost(i, v) ==
    /\ i \in Hosts(v)
    /\ CheckCRC(i, v) \in {"ok", "zerodiv"}
    /\ \A j \in Hosts(v) : CRCBefore(j, i, v) => CheckCRC(j, v) \in {"bandwidth", "processing"}

FirstCand(v) == v \in todo /\ \A k \in todo : ~CandBefore(k, v)

FindCRC(v) ==
    /\ pc = "find" /\ FirstCand(v)
    /\ \/ \E i \in Cand :
            /\ FirstHost(i, v) /\ CheckCRC(i, v) = "ok"
            /\ AddCRCcontrol(i, v)
            /\ pc' = "found" /\ cur' = v /\ todo' = {}
       \/ /\ \A i \in Cand : ~FirstHost(i, v)
          /\ todo' = todo \ {v}
          /\ UNCHANGED <<crcVars, netVars, pc, cur>>
    /\ UNCHANGED <<inVars, clcVars, flowCLC, state, algVars, ret, flow, rest, sat0, growVars>>

FindNone ==
    /\ pc = "find" /\ todo = {}
    /\ Return(ret)
    /\ UNCHANGED <<inVars, placeVars, state, algVars, locVars, growVars>>

(* addNewCLC(cur) up to its loop.  A candidate that cannot control itself leaves *)
(* cn.C, but keeps the coordination findCRC has just set up for it.              *)
AddNewCLC ==
    /\ pc = "found"
    /\ \/ /\ CheckCLC(cur, cur) = "ok"
          /\ AddCLCcontrol(cur, cur)
          /\ nnc' = [nnc EXCEPT ![cur] = IF cur \in controlled THEN 0 ELSE 1]
          /\ pf' = [pf EXCEPT ![cur] = PotentialFlows({cur}, control[cur] \cup {cur})]
          /\ paths' = PathsFrom(cur, Node \ {cur}, controlled \cup {cur})
          /\ UNCHANGED cands
       \/ /\ CheckCLC(cur, cur) = "processing"
          /\ cands' = cands \ {cur}
          /\ paths' = PathsFrom(cur, Node \ {cur}, controlled)
          /\ UNCHANGED <<clcVars, netVars, pf, nnc>>
    /\ pc' = "grow" /\ cur' = None
    /\ UNCHANGED <<flows, crcVars, flowCLC, state, algVars, ret, flow, todo, rest, sat0>>

--------------------------------------------------------------------------------
(* cpgreedy.                                                                     *)

VCRatioOfControls ==
    <<Cardinality(Node) - MapThenSumSet(LAMBDA c : Cardinality(control[c]), Node),
      Cardinality(cands)>>
VCRatio == <<Cardinality(Node) - Cardinality(controlled), Cardinality(cands)>>

CallGreedy ==
    /\ pc \in {"idle", "lowload"}
    /\ first' = FALSE
    /\ \/ /\ first
          /\ pc' = "enter"
          /\ UNCHANGED <<vcRatio, ret, growVars>>
       \/ /\ ~first /\ cands # {}
          /\ vcRatio' = VCRatio
          /\ LET fit == {v \in CLCSet : 100 * pRem[v] > PNode[v]} IN    \* CLCload(v) < 0.99
               /\ pf' = [v \in Node |-> IF v \in fit THEN PotentialFlows(control[v], control[v])
                                                     ELSE {}]
               /\ paths' = UNION {PathsFrom(v, Node \ control[v], controlled) : v \in fit}
          /\ UNCHANGED nnc
          /\ pc' = "grow" /\ ret' = "enter"
    /\ UNCHANGED <<inVars, placeVars, state, option, locVars>>

EnterNodes ==
    /\ pc = "enter"
    /\ state' = IF controlled # Node THEN "NOT SOLVED" ELSE state
    /\ option' = "neighbors"
    /\ pc' = "nodes"
    /\ UNCHANGED <<inVars, placeVars, vcRatio, first, ret, locVars, growVars>>

NodesDone == controlled = Node \/ (pc = "nodesAgain" /\ Len(clcs) = Cardinality(cands))

NoCandidate == FreeCands = {} /\ option = "neighbors"

FindForNodes ==
    /\ pc \in {"nodes", "nodesAgain"} /\ ~NodesDone /\ ~NoCandidate
    /\ BeginFind("nodesAgain")
    /\ UNCHANGED <<inVars, placeVars, state, vcRatio, first, cur, flow, rest, sat0, growVars>>

Verdict == IF controlled = Node THEN "Solved" ELSE state
LeaveNodes ==
    /\ pc \in {"nodes", "nodesAgain"} /\ NodesDone
    /\ state' = Verdict
    /\ \/ /\ Len(clcs) < Cardinality(cands)
          /\ option' = "flows" /\ pc' = "flows"
          /\ UNCHANGED todo
       \/ /\ Len(clcs) >= Cardinality(cands)
          /\ pc' = "cleanup" /\ todo' = Node
          /\ UNCHANGED option
    /\ UNCHANGED <<inVars, placeVars, vcRatio, first, ret, cur, flow, rest, sat0, growVars>>

FindForFlows ==
    /\ pc = "flows"
    /\ \/ /\ Satisfied # flows
          /\ sat0' = Cardinality(Satisfied)
          /\ BeginFind("judge")
       \/ /\ Satisfied = flows
          /\ pc' = "cleanup" /\ todo' = Node
          /\ UNCHANGED <<sat0, option, ret>>
    /\ UNCHANGED <<inVars, placeVars, state, vcRatio, first, cur, flow, rest, growVars>>

(* The last CLC of the list is dropped when the round satisfied no flow, whether *)
(* or not the round added it.                                                    *)
RoundLostFlows == sat0 > Cardinality(Satisfied)
RoundInVain == sat0 = Cardinality(Satisfied)
JudgeRound ==
    /\ pc = "judge"
    /\ \/ /\ RoundInVain /\ clcs # <<>>
          /\ pc' = "drop" /\ ret' = "cleanup"
          /\ cur' = clcs[Len(clcs)] /\ todo' = Node
       \/ /\ ~RoundInVain /\ Len(clcs) = Cardinality(cands)
          /\ pc' = "cleanup" /\ todo' = Node
          /\ UNCHANGED <<ret, cur>>
       \/ /\ ~RoundInVain /\ Len(clcs) # Cardinality(cands)
          /\ pc' = "flows"
          /\ UNCHANGED <<ret, cur, todo>>
    /\ sat0' = 0
    /\ UNCHANGED <<inVars, placeVars, state, algVars, flow, rest, growVars>>

--------------------------------------------------------------------------------
(* addFlow and browseCurrentCLCsforSingleFlow.                                   *)

Ready(f) == {c \in CLCSet : Wb[f] \subseteq control[c]}

AddFlow(f) ==
    /\ pc = "idle" /\ f \notin flows
    /\ flows' = flows \cup {f}
    /\ \/ /\ clcs # <<>>
          /\ pc' = "single" /\ flow' = f
       \/ /\ clcs = <<>>
          /\ UNCHANGED <<pc, flow>>
    /\ UNCHANGED <<cands, clcVars, crcVars, flowCLC, netVars, state, algVars, ret, cur, todo,
                   rest, sat0, growVars>>

(* The CLCs that already control all its nodes are asked in list order.          *)
FirstAnswer(i) ==
    /\ clcs[i] \in Ready(flow)
    /\ CheckFlowSat(clcs[i], flow) # "no"
    /\ \A j \in 1 .. i - 1 : clcs[j] \in Ready(flow) => CheckFlowSat(clcs[j], flow) = "no"

SingleKnown ==
    /\ pc = "single"
    /\ \E i \in DOMAIN clcs :
         /\ FirstAnswer(i)
         /\ CheckFlowSat(clcs[i], flow) = "ok"
         /\ AddFlowSat(clcs[i], flow)
    /\ pc' = "idle" /\ flow' = None
    /\ UNCHANGED <<inVars, clcVars, crcVars, state, algVars, ret, cur, todo, rest, sat0,
                   growVars>>

SingleSearch ==
    /\ pc = "single" /\ \A i \in DOMAIN clcs : ~FirstAnswer(i)
    /\ todo' = CLCSet \ Ready(flow)
    /\ pc' = "search"
    /\ UNCHANGED <<inVars, placeVars, state, algVars, ret, cur, flow, rest, sat0, growVars>>

(* The other CLCs: those that miss the fewest nodes first, then the nearest.     *)
Distance(c, f) == MapThenSumSet(LAMBDA k : Hops(c, k) + 1, Wb[f])
Missing(c, f) == Cardinality(Wb[f] \ control[c])
SearchBefore(c, d) ==
    \/ Missing(c, flow) < Missing(d, flow)
    \/ Missing(c, flow) = Missing(d, flow) /\ Distance(c, flow) < Distance(d, flow)

SearchNext(c) ==
    /\ pc = "search" /\ c \in todo /\ \A d \in todo : ~SearchBefore(d, c)
    /\ cur' = c /\ todo' = todo \ {c} /\ rest' = Wb[flow] \ control[c]
    /\ pc' = "reach"
    /\ UNCHANGED <<inVars, placeVars, state, algVars, ret, flow, sat0, growVars>>

(* cur takes the missing nodes one by one; a refusal ends the attempt, and the   *)
(* controls taken so far stay.                                                   *)
Reach(w) ==
    /\ pc = "reach" /\ w \in rest
    /\ \/ /\ CheckCLC(cur, w) = "ok"
          /\ AddCLCcontrol(cur, w)
          /\ rest' = rest \ {w}
          /\ UNCHANGED <<pc, cur>>
       \/ /\ CheckCLC(cur, w) \in {"bandwidth", "processing"}
          /\ pc' = "search" /\ cur' = None /\ rest' = {}
          /\ UNCHANGED <<clcVars, netVars>>
    /\ UNCHANGED <<inVars, crcVars, flowCLC, state, algVars, ret, flow, todo, sat0, growVars>>

(* A refusal of the flow leaves the new controls too: the loop meant to take     *)
(* them back runs over the generator the first loop has exhausted.               *)
ReachDone ==
    /\ pc = "reach" /\ rest = {}
    /\ \/ /\ CheckFlowSat(cur, flow) = "ok"
          /\ AddFlowSat(cur, flow)
       \/ /\ CheckFlowSat(cur, flow) = "no"
          /\ UNCHANGED <<flowCLC, netVars>>
    /\ pc' = "search" /\ cur' = None
    /\ UNCHANGED <<inVars, clcVars, crcVars, state, algVars, ret, flow, todo, rest, sat0,
                   growVars>>

SearchDone ==
    /\ pc = "search" /\ todo = {}
    /\ pc' = "idle" /\ flow' = None
    /\ UNCHANGED <<inVars, placeVars, state, algVars, ret, cur, todo, rest, sat0, growVars>>

--------------------------------------------------------------------------------
(* The driver's other calls.                                                     *)

RemFlow(f) ==
    /\ pc = "idle" /\ f \in flows
    /\ IF flowCLC[f] # None THEN RemFlowSat(f) ELSE UNCHANGED <<flowCLC, netVars>>
    /\ flows' = flows \ {f}
    /\ todo' = Wb[f] /\ pc' = "cleanup"
    /\ UNCHANGED <<cands, clcVars, crcVars, state, algVars, ret, cur, flow, rest, sat0,
                   growVars>>

(* Low load: the least loaded CLC goes, possibly several, and cpgreedy follows.  *)
LowLoad(c) ==
    /\ pc \in {"idle", "lowload"} /\ Len(clcs) > 1
    /\ c \in CLCSet /\ \A d \in CLCSet : pRem[c] * PNode[d] >= pRem[d] * PNode[c]
    /\ cur' = c /\ pc' = "drop" /\ ret' = "lowload"
    /\ UNCHANGED <<inVars, placeVars, state, algVars, flow, todo, rest, sat0, growVars>>

--------------------------------------------------------------------------------
(* Exceptions.  Each check divides by p_rem, updateVCRatio by the number of      *)
(* candidates.  ctmp[0] and CLCs[-1] fail on an empty list.                      *)

DividesByZero ==
    \/ \E v \in Node :
         /\ Growing(v) /\ ~Overloaded(v)
         /\ IF ServesNext(v)
            THEN \E f \in MostDemanding(pf[v]) : CheckFlowSat(v, f) = "zerodiv"
            ELSE \E p \in FirstPaths : p.src = v /\ CheckCLC(v, p.dst) = "zerodiv"
    \/ /\ pc = "find"
       /\ \E v \in Node, i \in Cand :
            FirstCand(v) /\ FirstHost(i, v) /\ CheckCRC(i, v) = "zerodiv"
    \/ pc = "found" /\ CheckCLC(cur, cur) = "zerodiv"
    \/ /\ pc = "single"
       /\ \E i \in DOMAIN clcs : FirstAnswer(i) /\ CheckFlowSat(clcs[i], flow) = "zerodiv"
    \/ pc = "reach" /\ rest # {} /\ \E w \in rest : CheckCLC(cur, w) = "zerodiv"
    \/ pc = "reach" /\ rest = {} /\ CheckFlowSat(cur, flow) = "zerodiv"
    \/ pc \in {"idle", "lowload"} /\ ~first /\ cands = {}

ReadsEmptyList ==
    \/ pc \in {"nodes", "nodesAgain"} /\ ~NodesDone /\ NoCandidate
    \/ pc = "judge" /\ RoundInVain /\ clcs = <<>>

Crash ==
    /\ \/ DividesByZero /\ pc' = "ZeroDivisionError"
       \/ ReadsEmptyList /\ pc' = "IndexError"
    /\ UNCHANGED <<inVars, placeVars, state, algVars, ret, locVars, growVars>>

--------------------------------------------------------------------------------
Driver == (\E f \in Flow : AddFlow(f) \/ RemFlow(f)) \/ \E c \in Cand : LowLoad(c)

Greedy ==
    \/ CallGreedy \/ EnterNodes \/ FindForNodes \/ LeaveNodes \/ FindForFlows \/ JudgeRound
    \/ FindNone \/ AddNewCLC \/ GrowDone \/ DropDone \/ CleanupDone
    \/ SingleKnown \/ SingleSearch \/ ReachDone \/ SearchDone \/ Crash
    \/ \E v \in Node : \/ FindCRC(v) \/ GrowSkip(v) \/ GrowFlow(v) \/ GrowPath(v)
                       \/ DropControl(v) \/ CleanupRemove(v) \/ SearchNext(v) \/ Reach(v)
    \/ \E f \in Flow : DropFlow(f)

Next == Driver \/ Greedy

Spec == Init /\ [][Next]_vars
(* A function that has been called runs on.                                      *)
FairSpec == Spec /\ WF_vars(Greedy /\ pc # "idle")

--------------------------------------------------------------------------------
(* Every variable has its type (the attributes set in __init__ and cleanup).     *)
TypeOK ==
    /\ cands \subseteq Cand /\ flows \subseteq Flow
    /\ clcs \in Seq(Cand)
    /\ control \in [Node -> SUBSET Node] /\ clcsOf \in [Node -> SUBSET Node]
    /\ controlled \subseteq Node
    /\ crcs \subseteq Cand
    /\ crcControl \in [Node -> SUBSET Node] /\ crcOf \in [Node -> Cand \cup {None}]
    /\ flowCLC \in [Flow -> Cand \cup {None}]
    /\ bRem \in [Edge -> Int] /\ pRem \in [Cand -> Int]
    /\ state \in {"NOT SOLVED", "Solved"}
    /\ vcRatio \in Nat \X Nat
    /\ option \in {"neighbors", "isolated_nodes", "flows", "isolated_flows"}
    /\ first \in BOOLEAN
    /\ pc \in Labels \cup Errors
    /\ ret \in {"idle", "enter", "nodesAgain", "judge", "lowload", "cleanup"}
    /\ cur \in Cand \cup {None} /\ flow \in Flow \cup {None}
    /\ todo \subseteq Node /\ rest \subseteq Node /\ sat0 \in Nat
    /\ paths \subseteq PathRecord
    /\ pf \in [Node -> SUBSET Flow] /\ nnc \in [Node -> Nat]

(* The three records of who controls whom agree: CLCcontrol of the controller,   *)
(* CLCs of the node, and the Controlled list cpgreedy's loops are guarded by;    *)
(* and only a CLC on the list, once, controls anything.                          *)
ControlRecordsAgree ==
    /\ \A c, v \in Node : v \in control[c] <=> c \in clcsOf[v]
    /\ controlled = {v \in Node : clcsOf[v] # {}}
    /\ \A c \in Node : control[c] # {} => c \in CLCSet
    /\ \A i, j \in DOMAIN clcs : clcs[i] = clcs[j] => i = j

(* The CRC a node points to and the CRCcontrol lists agree, the CRCs list holds  *)
(* exactly the CRCs that coordinate somebody, every CLC has its CRC, and         *)
(* findCRC is never asked for a candidate that already has one.                  *)
CoordinationRecordsAgree ==
    /\ \A r, v \in Node : v \in crcControl[r] <=> crcOf[v] = r
    /\ crcs = {r \in Node : crcControl[r] # {}}
    /\ \A c \in CLCSet : crcOf[c] # None
    /\ \A c \in cands \ CLCSet :
         crcOf[c] # None => pc = "ZeroDivisionError" \/ (pc = "found" /\ cur = c)

(* A served flow has its CLC in control of every node it enters through, until   *)
(* it is released: what remFlowSat reads CLCpaths for, and what                  *)
(* cleanupCLCcontrols and remCLC must not take away under it.                    *)
ServedFlowsControlled ==
    \A f \in Flow : flowCLC[f] # None =>
        /\ f \in flows
        /\ flowCLC[f] \in CLCSet
        /\ Wb[f] \subseteq control[flowCLC[f]]

(* No link and no node is ever booked beyond its capacity (checkCLC, checkCRC    *)
(* and checkFlowSat against addCLCcontrol, addCRCcontrol and addFlowSat).        *)
NoOverbooking ==
    /\ \A e \in Edge : bRem[e] >= 0
    /\ \A c \in Cand : pRem[c] >= 0

Carried(record, e) == {p \in Node \X Node : p[2] \in record[p[1]] /\ e \in PathEdges[p[1]][p[2]]}
Served == {f \in Flow : flowCLC[f] # None}
LinkUse(e) ==
    BCLC * Cardinality(Carried(control, e)) + BCRC * Cardinality(Carried(crcControl, e))
      + SumFunctionOnSet([f \in Served |-> Streams(flowCLC[f], f, e) * BFlow[f]], Served)
ControlUse(c) ==
    SumFunctionOnSet([w \in control[c] |-> CLCDemand(c, w)], control[c])
      + SumFunctionOnSet([w \in crcControl[c] |-> CRCDemand(c, w)], crcControl[c])
NodeUse(c) ==
    ControlUse(c) + SumFunctionOnSet([f \in Satisfies(c) |-> FlowNoted(c, f)], Satisfies(c))

(* What is missing from a link's capacity is exactly what the present controls,  *)
(* coordinations and flows occupy: nothing is refunded twice or never, whatever  *)
(* the sequence of placements and removals.                                      *)
LinkAccounting == \A e \in Edge : BCap[e] - bRem[e] = LinkUse(e)

(* A node never gets back more processing capacity than it gave: what it has     *)
(* left and what its controls and flows hold stay within p_node.                 *)
NodeAccounting == \A c \in Cand : pRem[c] + NodeUse(c) <= PNode[c]

(* Over any sequence of calls, finished, refused or broken off half way, the     *)
(* capacities stay what the records of controls and flows account for.           *)
CapacityAccounted == LinkAccounting /\ NodeAccounting

(* The answer the driver acts on: cpgreedy's "Solved" is withdrawn as soon as    *)
(* any removal leaves a node without a CLC.                                      *)
SolvedMeansControlled == state = "Solved" => controlled = Node

(* Only taking a CLC down takes anything away.  A flow leaves its CLC then, or   *)
(* when the flow itself is removed: no later placement round moves it.  A node   *)
(* loses its last CLC only then: the cleanup of useless controls leaves one.     *)
FlowsKeepTheirCLC ==
    \A f \in Flow : flowCLC[f] # None /\ flowCLC'[f] # flowCLC[f] =>
        /\ flowCLC'[f] = None
        /\ f \in flows' => pc = "drop" /\ cur = flowCLC[f]
NodesKeepACLC == pc # "drop" => controlled \subseteq controlled'
OnlyDropsTakeAway == [][FlowsKeepTheirCLC /\ NodesKeepACLC]_vars

(* cpgreedy waits for every node to be controlled, but no candidate left can be  *)
(* given a CRC, and nothing is going to change that.                             *)
Futile ==
    /\ pc = "nodesAgain" \/ (pc = "find" /\ ret = "nodesAgain" /\ todo \subseteq FreeCands)
    /\ controlled # Node /\ Len(clcs) # Cardinality(cands) /\ ~NoCandidate
    /\ \A v \in FreeCands, i \in Cand : ~FirstHost(i, v)

(* Every call the driver makes returns or ends in an uncaught exception, unless  *)
(* it comes to that.                                                             *)
CallsReturn == pc # "idle" ~> pc \in {"idle"} \cup Errors \/ Futile

(* How far a call has got, as a tuple that goes down in lexicographic order: the *)
(* stage of the call; what its rounds use up, the CLCs that low load can drop or *)
(* the candidates without CLC; the place in the round; and the work the loop at  *)
(* pc still has to do.                                                           *)
Pairs(r) == {x \in Node \X (Node \cup Flow) : x[2] \in r[x[1]]}
Stage ==
    CASE pc = "lowload" \/ (pc = "drop" /\ ret = "lowload") -> 6
      [] pc = "grow" /\ ret = "enter" -> 5
      [] pc = "enter" -> 4
      [] pc \in {"flows", "judge"} \/ (pc \in {"find", "found", "grow"} /\ ret = "judge") -> 2
      [] pc = "drop" /\ ret # "lowload" -> 1
      [] pc \in {"single", "search", "reach", "cleanup"} -> 0
      [] OTHER -> 3
Supply ==
    IF Stage = 6 THEN Len(clcs) ELSE IF Stage \in {2, 3} THEN Cardinality(cands \ CLCSet) ELSE 0
(* The round of a candidate that is in vain has no next one.                     *)
Place ==
    CASE pc = "grow" -> 5
      [] pc = "judge" -> IF RoundInVain THEN 0 ELSE 4
      [] pc = "nodesAgain" -> IF NodesDone THEN 0 ELSE 3
      [] pc \in {"nodes", "flows"} -> 3
      [] pc = "find" -> 2
      [] pc \in {"found", "lowload", "single"} -> 1
      [] OTHER -> 0
Work ==
    CASE pc = "grow" -> Cardinality(paths)
      [] pc = "drop" -> Cardinality(Satisfies(cur))
      [] pc = "cleanup" -> Cardinality(Pairs(clcsOf))
      [] pc \in {"find", "search", "reach"} -> Cardinality(todo)
      [] OTHER -> 0
Rest ==
    CASE pc = "grow" -> Cardinality(Pairs(pf))
      [] pc = "drop" -> Cardinality(control[cur])
      [] pc = "reach" -> 1 + Cardinality(rest)
      [] OTHER -> 0
Rank == <<Stage, Supply, Place, Work, Rest>>
Below(r, s) == \E i \in 1 .. 5 : r[i] < s[i] /\ \A j \in 1 .. i - 1 : r[j] = s[j]

(* Every step of a call, whatever it decides, brings the call closer to its end, *)
(* so that no loop of the heuristic goes round for ever; but for the futile one, *)
(* which does: no step leaves it.                                                *)
CallsDescend ==
    [][pc \notin {"idle"} \cup Errors =>
         IF Futile THEN Futile'
         ELSE pc' \in {"idle"} \cup Errors \/ Below(Rank', Rank)]_vars
================================================================================
