-------------------------------- MODULE Routing --------------------------------
(* Routing in the emulated network: the second half of class CPFlex              *)
(* (cp_flex_fcfs.py, modifyRoutingTable and what it calls), the Ryu application  *)
(* that turns its REST requests into OpenFlow messages                           *)
(* (fcapf_ryu_controller.py), and the flow tables of the switches.               *)
(*                                                                               *)
(* A pair <<c, n>> stands for "CLC c controls node n": its path carries the      *)
(* traffic of n's flows.  The paths of a control of a CLC over itself have no    *)
(* link and no entry, and are left out.  Ports are named by what is behind them. *)
(*                                                                               *)
(* The driver and the placement (module Placement) are the environment: between  *)
(* two rounds a single flow may add or end controls, and every round of          *)
(* cpgreedy replaces the controls and then runs modifyRoutingTable.              *)
(*                                                                               *)
(* Helpers no action uses (DelIP, BatchForEnds, ...) are slips of the one that   *)
(* follows them; the README lists the property each would break.                 *)
EXTENDS Integers, FiniteSets, Sequences

CONSTANTS
    Node,      \* nodes of cn.G: one switch and one host each
    Pair,      \* the controls <<CLC, node>> that may be placed
    PathOf,    \* PathOf[p]: nx.shortest_path(G, p[1], p[2])
    HostPort,  \* port 1 of a switch
    NoPort,    \* the in_port of an ARP match, which has none
    Backlog    \* bound: requests each switch may have waiting

ASSUME PairAssumption ==
    /\ IsFiniteSet(Pair) /\ Pair \subseteq Node \X Node
    /\ \A p \in Pair : p[1] # p[2]
    /\ HostPort \notin Node /\ NoPort \notin Node /\ HostPort # NoPort
    /\ Backlog \in [Node -> Nat \ {0}]

ASSUME PathAssumption ==
    /\ PathOf \in [Pair -> Seq(Node)]
    /\ \A p \in Pair :
         /\ Len(PathOf[p]) > 1
         /\ PathOf[p][1] = p[1] /\ PathOf[p][Len(PathOf[p])] = p[2]
         /\ \A i, j \in DOMAIN PathOf[p] : PathOf[p][i] = PathOf[p][j] => i = j

VARIABLES
    want,      \* pathtoCLC of the nodes: the present controls
    traffic,   \* pairs over which iperf clients of a satisfied flow run (isGen)
    links,     \* Links, fetched once by populateNetworkLinks
    recorded,  \* RoutingPaths
    json,      \* JsonEntries: the pairs whose entries the next request holds
    pc,        \* the step of modifyRoutingTable the driver is in
    known,     \* switches the controller has had a features message from
    chan,      \* chan[s]: requests sent to switch s and not yet carried out
    table,     \* table[s]: the flow table of switch s
    missed     \* pairs whose last request did not reach all their switches

roundVars == <<want, traffic>>
pathVars == <<recorded, json>>
netVars == <<known, chan, table, missed>>
vars == <<roundVars, links, pathVars, pc, netVars>>

--------------------------------------------------------------------------------
(* The entries of a path.  At every switch it has two directions, each with an   *)
(* entry for ARP and one for IP packets.                                         *)

OnPath(p) == {PathOf[p][i] : i \in DOMAIN PathOf[p]}
LinksOf(p) == {{PathOf[p][i], PathOf[p][i + 1]} : i \in 1 .. Len(PathOf[p]) - 1}
Index(p, s) == CHOOSE i \in DOMAIN PathOf[p] : PathOf[p][i] = s
PortBack(p, s) == IF s = p[1] THEN HostPort ELSE PathOf[p][Index(p, s) - 1]
PortOn(p, s) == IF s = p[2] THEN HostPort ELSE PathOf[p][Index(p, s) + 1]

Port == Node \cup {HostPort, NoPort}
Rule == [type : {"ip", "arp"}, in : Port, src : Node, dst : Node, out : Port]

Outward(p, s, type, in) ==
    [type |-> type, in |-> in, src |-> p[1], dst |-> p[2], out |-> PortOn(p, s)]
Inward(p, s, type, in) ==
    [type |-> type, in |-> in, src |-> p[2], dst |-> p[1], out |-> PortBack(p, s)]
Rules(p, s) ==
    {Outward(p, s, "ip", PortBack(p, s)), Outward(p, s, "arp", NoPort),
     Inward(p, s, "ip", PortOn(p, s)), Inward(p, s, "arp", NoPort)}

SameSender(r, q) == r.type = q.type /\ r.in = q.in /\ r.src = q.src
SameMatch(r, q) == r.type = q.type /\ r.in = q.in /\ r.src = q.src /\ r.dst = q.dst

(* OFPFC_ADD replaces the entry with the same match, OFPFC_DELETE looks at the   *)
(* match alone.                                                                  *)
DelIP(T, R) == {r \in T : ~ \E q \in R : SameMatch(r, q) /\ q.type = "ip"}
DelFlow(T, R) == {r \in T : ~ \E q \in R : SameMatch(r, q)}
AddFlow(T, R) == DelFlow(T, R) \cup R

--------------------------------------------------------------------------------
(* The requests.  A PUT that does not reach the controller raises an exception   *)
(* requestAddRoutingEntries swallows; the controller passes over a switch it has *)
(* not heard of, and answers 200.                                                *)

Batch == [op : {"add", "del"}, pairs : SUBSET Pair]

BatchForEnds(s) == {p \in json : s = p[1] \/ s = p[2]}
BatchFor(s) == {p \in json : s \in OnPath(p)}
Reached(p) == OnPath(p) \subseteq known

Send(op) ==
    /\ chan' = [s \in Node |->
         IF s \in known /\ BatchFor(s) # {}
         THEN Append(chan[s], [op |-> op, pairs |-> BatchFor(s)])
         ELSE chan[s]]
    /\ missed' = (missed \ json) \cup {p \in json : ~Reached(p)}
Lose ==
    /\ missed' = missed \cup json
    /\ UNCHANGED chan

LeftOver == json
AfterRequest == {}
Request(op, next) ==
    /\ \A s \in Node : Len(chan[s]) < Backlog[s]
    /\ Send(op) \/ Lose
    /\ json' = AfterRequest
    /\ pc' = next
    /\ UNCHANGED <<roundVars, links, recorded, known, table>>

--------------------------------------------------------------------------------
AllLinks == UNION {LinksOf(p) : p \in Pair}

(* The topology discovery may have missed a link when Links was fetched, and a   *)
(* switch may connect late.                                                      *)
Init ==
    /\ want = {} /\ traffic = {}
    /\ links \in {AllLinks} \cup {AllLinks \ {l} : l \in AllLinks}
    /\ recorded = {} /\ json = {}
    /\ pc = "idle"
    /\ known \in {Node} \cup {Node \ {s} : s \in Node}
    /\ chan = [s \in Node |-> <<>>]
    /\ table = [s \in Node |-> {}]
    /\ missed = {}

(* addFlow: a CLC may take the node of the new flow under its control, and the   *)
(* flow's traffic starts if it is satisfied.  The routing is not touched.  (A    *)
(* CLC with no control but over itself is not told from a mere candidate here.)  *)
SingleFlow(p) ==
    /\ pc = "idle" /\ p[1] \in {q[1] : q \in want}
    /\ want' = want \cup {p}
    /\ traffic' \in {traffic, traffic \cup {p}}
    /\ UNCHANGED <<links, pathVars, pc, netVars>>

(* remFlow: the traffic of p is over, and controls of its node that serve no     *)
(* other flow may be cleaned up.                                                 *)
FlowEnds(p) ==
    /\ pc = "idle" /\ p \in traffic
    /\ traffic' = traffic \ {p}
    /\ \E gone \in SUBSET {q \in want \ traffic' : q[2] = p[2]} : want' = want \ gone
    /\ UNCHANGED <<links, pathVars, pc, netVars>>

(* A round of cpgreedy, after CLCs may have been taken down for low load: a CLC  *)
(* taken down has its flows released and their traffic stopped.                  *)
Place(w) ==
    /\ pc = "idle"
    /\ want' = w
    /\ \E down \in SUBSET {p[1] : p \in want} :
         /\ traffic' = {p \in traffic : p[1] \notin down}
         /\ traffic' \subseteq w
    /\ pc' = "modify"
    /\ UNCHANGED <<links, pathVars, netVars>>

(* modifyRoutingTable, the loop over the nodes: paths not recorded yet are       *)
(* recorded and get entries.  A link that Links does not hold has the port None. *)
NewPaths == want \ recorded
Modify ==
    /\ pc = "modify"
    /\ IF \A p \in NewPaths : LinksOf(p) \subseteq links
       THEN /\ json' = json \cup NewPaths /\ recorded' = recorded \cup NewPaths
            /\ pc' = "add"
       ELSE /\ pc' = "TypeError"
            /\ UNCHANGED pathVars
    /\ UNCHANGED <<roundVars, links, netVars>>

PutAdd == pc = "add" /\ Request("add", "clear")

Obsolete == recorded \ want
ClearObsolete ==
    /\ pc = "clear"
    /\ json' = json \cup Obsolete
    /\ recorded' = recorded \ Obsolete
    /\ pc' = "del"
    /\ UNCHANGED <<roundVars, links, netVars>>

PutDel == pc = "del" /\ Request("del", "generate")

(* generateTrafficFlow: the satisfied flows that do not run yet are started.     *)
Generate ==
    /\ pc = "generate"
    /\ \E t \in SUBSET want : traffic \subseteq t /\ traffic' = t
    /\ pc' = "idle"
    /\ UNCHANGED <<want, links, pathVars, netVars>>

--------------------------------------------------------------------------------
(* The switches.                                                                 *)

Connect(s) ==
    /\ s \notin known
    /\ known' = known \cup {s}
    /\ UNCHANGED <<roundVars, links, pathVars, pc, chan, table, missed>>

(* One path of the request at the head of the connection is carried out.         *)
Apply(s, p) ==
    /\ chan[s] # <<>> /\ p \in Head(chan[s]).pairs
    /\ LET b == Head(chan[s]) IN
         /\ table' = [table EXCEPT ![s] =
              IF b.op = "add" THEN AddFlow(@, Rules(p, s)) ELSE DelFlow(@, Rules(p, s))]
         /\ chan' = [chan EXCEPT ![s] =
              IF b.pairs = {p} THEN Tail(@)
              ELSE <<[b EXCEPT !.pairs = @ \ {p}]>> \o Tail(@)]
    /\ UNCHANGED <<roundVars, links, pathVars, pc, known, missed>>

--------------------------------------------------------------------------------
Driver ==
    \/ \E p \in Pair : SingleFlow(p) \/ FlowEnds(p)
    \/ \E w \in SUBSET Pair : Place(w)
Round == Modify \/ PutAdd \/ ClearObsolete \/ PutDel \/ Generate
Switch(s) == \E p \in Pair : Apply(s, p)

Next == Driver \/ Round \/ \E s \in Node : Connect(s) \/ Switch(s)

Spec == Init /\ [][Next]_vars
(* modifyRoutingTable runs to its end once called, and a switch handles what it  *)
(* has been sent.                                                                *)
FairSpec == Spec /\ WF_vars(Round) /\ \A s \in Node : WF_vars(Switch(s))

--------------------------------------------------------------------------------
(* Every variable has its type; entries wait only between the two halves of a    *)
(* step of modifyRoutingTable, and traffic only runs between a node and its CLC. *)
TypeOK ==
    /\ want \subseteq Pair /\ traffic \subseteq want
    /\ links \subseteq SUBSET Node
    /\ recorded \subseteq Pair /\ json \subseteq Pair /\ missed \subseteq Pair
    /\ pc \in {"idle", "modify", "add", "clear", "del", "generate", "TypeError"}
    /\ pc \notin {"add", "del"} => json = {}
    /\ known \subseteq Node
    /\ chan \in [Node -> Seq(Batch)]
    /\ table \in [Node -> SUBSET Rule]

Drained == \A s \in Node : chan[s] = <<>>
Carried(p) == \A s \in OnPath(p) : Rules(p, s) \subseteq table[s]
DeletionPending(p) ==
    \E s \in Node : \E i \in DOMAIN chan[s] : chan[s][i].op = "del" /\ p \in chan[s][i].pairs

(* Once the switches have caught up, the tables hold the entries of exactly the  *)
(* recorded paths; only a path whose last request was lost may differ.           *)
TablesFollowRecord ==
    pc = "idle" /\ Drained =>
        /\ \A p \in recorded \ missed : Carried(p)
        /\ \A s \in Node : \A r \in table[s] :
             \E p \in recorded \cup missed : s \in OnPath(p) /\ r \in Rules(p, s)

(* What runs is not disturbed: entries of a path with traffic stay in place      *)
(* through the additions and deletions of other paths.                           *)
Undisturbed ==
    [][\A p \in Pair :
         p \in traffic /\ p \in traffic' /\ Carried(p) /\ ~DeletionPending(p) => Carried(p)']_vars

(* A control that modifyRoutingTable finds gets its path, unless the request is  *)
(* lost, the path is placed elsewhere meanwhile, or a link is not known.         *)
Established ==
    \A p \in Pair :
        pc = "modify" /\ p \in want
            ~> Carried(p) \/ p \notin want \/ p \in missed \/ pc = "TypeError"
================================================================================
