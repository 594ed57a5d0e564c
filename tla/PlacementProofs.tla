---------------------------- MODULE PlacementProofs ----------------------------
(* Theorems about Placement, for every network, every set of flows and every     *)
(* capacity and demand that its assumptions allow.                               *)
(*                                                                               *)
(* The invariant that carries them says more than the properties it implies:     *)
(* what a node holds was admitted within its latency limit, or else the amount   *)
(* that a removal gives back would not even be a number; and the pc of the       *)
(* machine says which locals are set.                                            *)
(*                                                                               *)
(* The last part proves that every step of a call brings it closer to its end.   *)
EXTENDS Placement, FiniteSetTheorems, SequenceTheorems, TLAPS

(* The placement and the network's remaining capacity are well typed, and no     *)
(* capacity is negative.                                                         *)
PlaceTypes ==
    /\ clcs \in Seq(Cand)
    /\ control \in [Node -> SUBSET Node] /\ clcsOf \in [Node -> SUBSET Node]
    /\ controlled \subseteq Node
    /\ crcs \subseteq Cand
    /\ crcControl \in [Node -> SUBSET Node] /\ crcOf \in [Node -> Cand \cup {None}]
    /\ flowCLC \in [Flow -> Cand \cup {None}]
    /\ bRem \in [Edge -> Nat] /\ pRem \in [Cand -> Nat]

Distinct(s) == \A i, j \in DOMAIN s : s[i] = s[j] => i = j

(* The records of who controls whom agree, and so does the verdict.              *)
RecordLinks ==
    /\ \A c, v \in Node : v \in control[c] <=> c \in clcsOf[v]
    /\ controlled = {v \in Node : clcsOf[v] # {}}
    /\ Distinct(clcs)
    /\ state = "Solved" => controlled = Node

(* Only CLCs control nodes; a CLC controls the nodes its flows enter through;    *)
(* everything that is held was within its latency limit when it was admitted.    *)
PlaceLinks ==
    /\ RecordLinks
    /\ \A c \in Node : control[c] # {} => c \in CLCSet
    /\ \A v, w \in Node : w \in control[v] => RTT[v][w] < LCLC
    /\ \A w \in Node : crcOf[w] # None => RTT[crcOf[w]][w] < LCRC
    /\ \A f \in Flow : flowCLC[f] # None =>
        /\ f \in flows
        /\ flowCLC[f] \in CLCSet
        /\ Wb[f] \subseteq control[flowCLC[f]]
        /\ \A k \in Wb[f] : RTT[flowCLC[f]][k] < LFlow[f] - Eps

(* The inputs, the parameters of the heuristic and the locals are well typed.    *)
AlgTypes ==
    /\ cands \subseteq Cand /\ flows \subseteq Flow
    /\ state \in {"NOT SOLVED", "Solved"}
    /\ vcRatio \in Nat \X Nat
    /\ option \in {"neighbors", "isolated_nodes", "flows", "isolated_flows"}
    /\ first \in BOOLEAN
    /\ pc \in Labels \cup Errors
    /\ ret \in {"idle", "enter", "nodesAgain", "judge", "lowload", "cleanup"}
    /\ cur \in Cand \cup {None} /\ flow \in Flow \cup {None}
    /\ todo \subseteq Node /\ rest \subseteq Node /\ sat0 \in Nat
    /\ paths \subseteq PathRecord
    /\ pf \in [Node -> SUBSET Flow] /\ nnc \in [Node -> Nat]

(* Which locals are set at which pc.                                             *)
AlgLinks ==
    /\ pc \in {"found", "reach", "drop"} => cur \in Cand
    /\ pc \in {"find", "search", "reach"} => todo \subseteq Cand
    /\ pc \in {"single", "search", "reach"} => flow \in flows
    /\ pc \in Labels \ {"grow"} => paths = {} /\ \A v \in Node : pf[v] = {}
    /\ \A v \in Node : pf[v] \subseteq flows /\ (pf[v] # {} => v \in Cand)

Inv == PlaceTypes /\ PlaceLinks /\ AlgTypes /\ AlgLinks

--------------------------------------------------------------------------------
(* Arithmetic and finite sets.                                                   *)

(* A share p / d that fits q is a natural number of at most q.                   *)
LEMMA DivisionBound ==
  ASSUME NEW p \in Nat, NEW d \in Nat \ {0}, NEW q \in Nat, p <= d * q
  PROVE  p \div d \in Nat /\ p \div d <= q
<1>1. p \div d \in Nat /\ p % d \in 0 .. d - 1 /\ p = d * (p \div d) + (p % d)
  OBVIOUS
<1> DEFINE x == p \div d
<1>3. ASSUME x > q PROVE FALSE
  <2>1. x \in Nat /\ x >= q + 1 BY <1>1, <1>3
  <2>2. d * x >= d * (q + 1) BY <2>1
  <2>3. d * (q + 1) = d * q + d OBVIOUS
  <2> QED BY <1>1, <2>2, <2>3
<1> QED BY <1>1, <1>3

(* Every set of naturals with a bound has a largest element.                     *)
LEMMA LargestExists ==
  ASSUME NEW S \in SUBSET Nat, S # {}, NEW b \in Nat, \A s \in S : s <= b
  PROVE  \E m \in S : \A s \in S : s <= m
<1> DEFINE T == {n \in Nat : \E s \in S : n = b - s}
<1>1. T \subseteq Nat /\ T # {}
  <2>1. PICK s \in S : TRUE OBVIOUS
  <2>2. b - s \in T BY <2>1
  <2> QED BY <2>2
<1> DEFINE R == {p \in Nat \X Nat : p[1] < p[2]}
<1>a. IsWellFoundedOn(R, Nat)
  BY NatLessThanWellFounded, Zenon DEF OpToRel
<1>b. \A x, y \in Nat : <<x, y>> \in R <=> x < y
  OBVIOUS
<1> HIDE DEF R, T
<1>2. PICK n \in T : \A k \in T : ~ (<<k, n>> \in R)
  BY <1>1, <1>a, WFMin
<1>3. ASSUME NEW k \in T PROVE n <= k
  <2>1. k \in Nat /\ n \in Nat BY <1>1, <1>2
  <2>2. ~ (<<k, n>> \in R) BY <1>2
  <2>3. ~ (k < n) BY <2>1, <2>2, <1>b, Zenon
  <2> QED BY <2>1, <2>3
<1> USE DEF T
<1>4. PICK m \in S : n = b - m
  OBVIOUS
<1>5. ASSUME NEW s \in S PROVE s <= m
  <2>1. b - s \in T BY <1>5
  <2> QED BY <2>1, <1>3, <1>4
<1> QED BY <1>5

(* The constants, applied.                                                       *)
LEMMA NetworkTypes ==
  /\ \A v, w \in Node : RTT[v][w] \in Nat /\ PathEdges[v][w] \subseteq Edge
  /\ \A f \in Flow : /\ Wb[f] \subseteq Node /\ Wb[f] # {}
                     /\ BFlow[f] \in Nat /\ PFlow[f] \in Nat \ {0} /\ LFlow[f] - Eps \in Int
  /\ \A v \in Cand : v \in Node
<1>1. ASSUME NEW v \in Node, NEW w \in Node
      PROVE  RTT[v][w] \in Nat /\ PathEdges[v][w] \subseteq Edge
  <2>1. RTT[v] \in [Node -> Nat] /\ PathEdges[v] \in [Node -> SUBSET Edge]
    BY SetsAssumption
  <2> QED BY <2>1
<1>2. ASSUME NEW f \in Flow
      PROVE  /\ Wb[f] \subseteq Node /\ Wb[f] # {}
             /\ BFlow[f] \in Nat /\ PFlow[f] \in Nat \ {0} /\ LFlow[f] - Eps \in Int
  BY SetsAssumption, DemandAssumption
<1> QED BY <1>1, <1>2, SetsAssumption

(* The round trip of the farthest node a flow enters through, seen from v, is    *)
(* one of the round trips, and so within any limit that all of them are within.  *)
LEMMA MaxRTTWithin ==
  ASSUME NEW v \in Node, NEW f \in Flow, NEW l \in Int, \A k \in Wb[f] : RTT[v][k] < l
  PROVE  /\ MaxRTT(v, f) \in Nat /\ MaxRTT(v, f) < l
         /\ \E k \in Wb[f] : MaxRTT(v, f) = RTT[v][k]
<1> DEFINE S == {RTT[v][k] : k \in Wb[f]}
<1>1. Wb[f] \subseteq Node /\ Wb[f] # {}
  BY SetsAssumption
<1>2. S \subseteq Nat /\ S # {}
  BY <1>1, NetworkTypes
<1>3. l \in Nat /\ \A s \in S : s <= l
  <2>1. PICK k \in Wb[f] : TRUE BY <1>1
  <2>2. RTT[v][k] \in Nat /\ RTT[v][k] < l BY <1>1, <2>1, NetworkTypes
  <2>3. l \in Nat BY <2>2
  <2>4. ASSUME NEW j \in Wb[f] PROVE RTT[v][j] <= l
    BY <1>1, <2>3, NetworkTypes
  <2> QED BY <2>3, <2>4
<1>4. PICK m \in S : \A s \in S : s <= m
  BY <1>2, <1>3, LargestExists
<1>5. \A k \in Wb[f] : RTT[v][k] <= m
  BY <1>4
<1>6. /\ MaxRTT(v, f) \in S
      /\ \A k \in Wb[f] : RTT[v][k] <= MaxRTT(v, f)
  BY <1>4, <1>5 DEF MaxRTT
<1> QED BY <1>2, <1>6

LEMMA StreamsType == ASSUME NEW v, NEW f \in Flow, NEW e PROVE Streams(v, f, e) \in Nat
<1>1. IsFiniteSet(Wb[f])
  BY SetsAssumption, FS_Subset
<1>2. {k \in Wb[f] : e \in PathEdges[v][k]} \in SUBSET Wb[f]
  OBVIOUS
<1>3. IsFiniteSet({k \in Wb[f] : e \in PathEdges[v][k]})
  BY <1>1, <1>2, FS_Subset
<1> QED BY <1>3, FS_CardinalityType DEF Streams

--------------------------------------------------------------------------------
(* What a check that answers "ok" guarantees.                                    *)

LEMMA CheckControlOK ==
  ASSUME PlaceTypes, NEW v \in Cand, NEW w \in Node,
         NEW b \in Nat, NEW p \in Nat \ {0}, NEW l \in Nat,
         CheckControl(v, w, b, p, l) = "ok"
  PROVE  /\ RTT[v][w] < l
         /\ Demand(p, l, RTT[v][w]) \in Nat /\ Demand(p, l, RTT[v][w]) <= pRem[v]
         /\ \A e \in PathEdges[v][w] : bRem[e] >= b
<1>1. /\ v \in Node /\ RTT[v][w] \in Nat /\ pRem[v] \in Nat
      /\ PathEdges[v][w] \subseteq Edge /\ \A e \in Edge : bRem[e] \in Nat
  BY NetworkTypes DEF PlaceTypes
<1>2. /\ \A e \in PathEdges[v][w] : ~ (bRem[e] < b)
      /\ pRem[v] # 0
      /\ ~ (RTT[v][w] * pRem[v] + p > l * pRem[v])
  BY DEF CheckControl, TooSlow
<1>3. \A e \in PathEdges[v][w] : bRem[e] >= b
  BY <1>1, <1>2
<1> DEFINE q == pRem[v]
           r == RTT[v][w]
<1>4. q \in Nat \ {0} /\ r \in Nat /\ r * q + p <= l * q
  BY <1>1, <1>2
<1> HIDE DEF q, r
<1>5. r < l
  <2>1. SUFFICES ASSUME r >= l PROVE FALSE
    BY <1>4
  <2>2. r * q >= l * q
    BY <2>1, <1>4
  <2> QED BY <1>4, <2>2
<1>6. l - r \in Nat \ {0} /\ p <= (l - r) * q
  BY <1>4, <1>5
<1>7. p \div (l - r) \in Nat /\ p \div (l - r) <= q
  BY <1>4, <1>6, DivisionBound
<1> QED BY <1>3, <1>5, <1>7 DEF q, r, Demand

LEMMA CheckFlowSatOK ==
  ASSUME PlaceTypes, NEW v \in Cand, NEW f \in Flow, CheckFlowSat(v, f) = "ok"
  PROVE  /\ flowCLC[f] = None /\ Wb[f] \subseteq control[v]
         /\ \A k \in Wb[f] : RTT[v][k] < LFlow[f] - Eps
         /\ FlowTaken(v, f) \in Nat /\ FlowTaken(v, f) <= pRem[v]
         /\ \A e \in Edge : bRem[e] >= Streams(v, f, e) * BFlow[f]
<1> DEFINE q == pRem[v]
           p == PFlow[f]
           l == LFlow[f] - Eps
<1>1. /\ v \in Node /\ q \in Nat /\ p \in Nat \ {0} /\ l \in Int
      /\ Wb[f] \subseteq Node /\ Wb[f] # {} /\ BFlow[f] \in Nat
      /\ \A k \in Wb[f] : RTT[v][k] \in Nat
      /\ \A e \in Edge : bRem[e] \in Nat
  BY NetworkTypes DEF PlaceTypes
<1>2. /\ Eligible(v, f)
      /\ q # 0
      /\ \A k \in Wb[f] : ~ TooSlow(v, p, l, RTT[v][k])
      /\ \A e \in Edge : ~ (bRem[e] < Streams(v, f, e) * BFlow[f])
  BY DEF CheckFlowSat
<1>3. \A e \in Edge : bRem[e] >= Streams(v, f, e) * BFlow[f]
  <2> TAKE e \in Edge
  <2>1. Streams(v, f, e) \in Nat BY StreamsType
  <2>2. Streams(v, f, e) * BFlow[f] \in Nat BY <2>1, <1>1
  <2> QED BY <1>1, <1>2, <2>2
<1>4. ASSUME NEW k \in Wb[f] PROVE RTT[v][k] * q + p <= l * q
  BY <1>1, <1>2, <1>4 DEF TooSlow
<1> HIDE DEF q, p, l
<1>5. ASSUME NEW r \in Nat, r * q + p <= l * q
      PROVE  r < l /\ p <= (l - r) * q /\ l - r \in Nat \ {0}
  <2>0. q \in Nat \ {0} BY <1>1, <1>2
  <2>1. ASSUME r >= l PROVE FALSE
    <3>1. r * q >= l * q BY <2>0, <2>1, <1>1
    <3>2. r * q \in Int /\ l * q \in Int BY <1>1, <2>0
    <3> QED BY <3>1, <3>2, <1>1, <1>5
  <2>2. r < l BY <2>1, <1>1
  <2> QED BY <2>2, <1>1, <1>5, <2>0
<1>6. \A k \in Wb[f] : RTT[v][k] < l
  BY <1>1, <1>4, <1>5
<1>7. PICK k \in Wb[f] : MaxRTT(v, f) = RTT[v][k]
  BY <1>1, <1>6, MaxRTTWithin
<1>8. p <= (l - MaxRTT(v, f)) * q /\ l - MaxRTT(v, f) \in Nat \ {0}
  BY <1>1, <1>4, <1>5, <1>7
<1>9. p \div (l - MaxRTT(v, f)) \in Nat /\ p \div (l - MaxRTT(v, f)) <= q
  BY <1>1, <1>8, DivisionBound
<1> QED BY <1>2, <1>3, <1>6, <1>9 DEF Eligible, FlowTaken, Demand, p, q, l

(* What a removal gives back is a natural number, for what is held within limits.*)
LEMMA DemandType ==
  ASSUME NEW p \in Nat, NEW l \in Int, NEW r \in Nat, r < l
  PROVE  Demand(p, l, r) \in Nat
BY DEF Demand

LEMMA FlowNotedType ==
  ASSUME NEW v \in Node, NEW f \in Flow, \A k \in Wb[f] : RTT[v][k] < LFlow[f] - Eps
  PROVE  FlowNoted(v, f) \in Nat
<1>1. LFlow[f] \in Nat /\ Eps \in Nat /\ PFlow[f] \in Nat
  BY DemandAssumption
<1>2. LFlow[f] - Eps \in Int
  BY <1>1
<1>3. MaxRTT(v, f) \in Nat /\ MaxRTT(v, f) < LFlow[f] - Eps
  BY <1>2, MaxRTTWithin
<1>4. MaxRTT(v, f) < LFlow[f]
  BY <1>1, <1>3
<1>5. PFlow[f] \div (LFlow[f] - MaxRTT(v, f)) \in Nat
  BY <1>1, <1>3, <1>4
<1> QED BY <1>5 DEF FlowNoted, Demand

--------------------------------------------------------------------------------
(* The list of CLCs.                                                             *)

Elems(s) == {s[i] : i \in DOMAIN s}

LEMMA AppendElems ==
  ASSUME NEW s \in Seq(Cand), NEW v \in Cand
  PROVE  /\ Append(s, v) \in Seq(Cand) /\ Elems(Append(s, v)) = Elems(s) \cup {v}
         /\ Distinct(s) /\ v \notin Elems(s) => Distinct(Append(s, v))
<1>1. /\ Append(s, v) \in Seq(Cand)
      /\ DOMAIN s = 1 .. Len(s) /\ Len(s) \in Nat
      /\ DOMAIN Append(s, v) = 1 .. Len(s) + 1
      /\ \A i \in 1 .. Len(s) : Append(s, v)[i] = s[i]
      /\ Append(s, v)[Len(s) + 1] = v
  BY AppendProperties, LenProperties
<1>2. Elems(Append(s, v)) \subseteq Elems(s) \cup {v}
  <2>1. ASSUME NEW i \in DOMAIN Append(s, v) PROVE Append(s, v)[i] \in Elems(s) \cup {v}
    <3>1. i \in 1 .. Len(s) \/ i = Len(s) + 1 BY <1>1
    <3> QED BY <3>1, <1>1 DEF Elems
  <2> QED BY <2>1 DEF Elems
<1>3. Elems(s) \cup {v} \subseteq Elems(Append(s, v))
  <2>1. ASSUME NEW i \in DOMAIN s PROVE s[i] \in Elems(Append(s, v))
    <3>1. i \in DOMAIN Append(s, v) /\ Append(s, v)[i] = s[i] BY <1>1
    <3> QED BY <3>1 DEF Elems
  <2>2. v \in Elems(Append(s, v))
    <3>1. Len(s) + 1 \in DOMAIN Append(s, v) BY <1>1
    <3> QED BY <3>1, <1>1 DEF Elems
  <2> QED BY <2>1, <2>2 DEF Elems
<1>4. ASSUME Distinct(s), v \notin Elems(s) PROVE Distinct(Append(s, v))
  <2> SUFFICES ASSUME NEW i \in DOMAIN Append(s, v), NEW j \in DOMAIN Append(s, v),
                      Append(s, v)[i] = Append(s, v)[j]
               PROVE  i = j
    BY DEF Distinct
  <2>1. (i \in 1 .. Len(s) \/ i = Len(s) + 1) /\ (j \in 1 .. Len(s) \/ j = Len(s) + 1)
    BY <1>1
  <2>2. \A k \in 1 .. Len(s) : s[k] # v
    BY <1>1, <1>4 DEF Elems
  <2> QED BY <1>1, <1>4, <2>1, <2>2 DEF Distinct
<1> QED BY <1>1, <1>2, <1>3, <1>4

(* t is s without its element at i.                                              *)
IsWithout(t, s, i) == t = [j \in 1 .. Len(s) - 1 |-> IF j < i THEN s[j] ELSE s[j + 1]]

LEMMA RemoveElems ==
  ASSUME NEW s \in Seq(Cand), NEW i \in DOMAIN s, NEW t, IsWithout(t, s, i)
  PROVE  /\ t \in Seq(Cand) /\ Elems(s) \ {s[i]} \subseteq Elems(t)
         /\ Distinct(s) => Distinct(t)
<1> USE DEF IsWithout
<1>1. DOMAIN s = 1 .. Len(s) /\ Len(s) \in Nat /\ \A j \in 1 .. Len(s) : s[j] \in Cand
  BY LenProperties
<1>2. i \in 1 .. Len(s) /\ Len(s) - 1 \in Nat
  BY <1>1
<1>3. t \in [1 .. Len(s) - 1 -> Cand]
  <2>1. ASSUME NEW j \in 1 .. Len(s) - 1
        PROVE  (IF j < i THEN s[j] ELSE s[j + 1]) \in Cand
    <3>1. j \in 1 .. Len(s) /\ j + 1 \in 1 .. Len(s) BY <1>1
    <3> QED BY <3>1, <1>1
  <2> QED BY <2>1
<1>4. t \in Seq(Cand)
  BY <1>2, <1>3, SeqDef
<1>5. ASSUME NEW j \in DOMAIN s, s[j] # s[i] PROVE s[j] \in Elems(t)
  <2>1. CASE j < i
    <3>1. j \in 1 .. Len(s) - 1 BY <1>1, <1>2, <2>1
    <3>2. j \in DOMAIN t /\ t[j] = s[j] BY <1>3, <2>1, <3>1
    <3> QED BY <3>2 DEF Elems
  <2>2. CASE j > i
    <3>1. j - 1 \in 1 .. Len(s) - 1 /\ ~ (j - 1 < i) /\ (j - 1) + 1 = j BY <1>1, <1>2, <2>2
    <3>2. j - 1 \in DOMAIN t /\ t[j - 1] = s[j] BY <1>3, <3>1
    <3> QED BY <3>2 DEF Elems
  <2>3. j # i
    BY <1>5
  <2> QED BY <2>1, <2>2, <2>3, <1>1, <1>2
<1>6. ASSUME Distinct(s) PROVE Distinct(t)
  <2> SUFFICES ASSUME NEW j \in DOMAIN t, NEW k \in DOMAIN t, t[j] = t[k] PROVE j = k
    BY DEF Distinct
  <2> DEFINE At(x) == IF x < i THEN x ELSE x + 1
  <2>1. j \in 1 .. Len(s) - 1 /\ k \in 1 .. Len(s) - 1
    BY <1>3
  <2>2. At(j) \in DOMAIN s /\ At(k) \in DOMAIN s /\ t[j] = s[At(j)] /\ t[k] = s[At(k)]
    BY <1>1, <1>2, <2>1
  <2>3. At(j) = At(k)
    BY <1>6, <2>2 DEF Distinct
  <2> QED BY <1>2, <2>1, <2>3
<1> QED BY <1>4, <1>5, <1>6 DEF Elems

LEMMA CLCSetType == ASSUME PlaceTypes PROVE CLCSet \subseteq Cand /\ CLCSet = Elems(clcs)
<1>1. clcs \in Seq(Cand)
  BY DEF PlaceTypes
<1>2. \A i \in DOMAIN clcs : clcs[i] \in Cand
  BY <1>1, LenProperties
<1> QED BY <1>2 DEF CLCSet, Elems

--------------------------------------------------------------------------------
(* The elementary operations keep the types and the links of the placement.      *)

(* Taking b from the links of an admitted control, and giving it back.           *)
LEMMA ChargeType ==
  ASSUME PlaceTypes, NEW v \in Node, NEW w \in Node, NEW b \in Nat
  PROVE  /\ (\A e \in PathEdges[v][w] : bRem[e] >= b) => Charge(v, w, b) \in [Edge -> Nat]
         /\ Refund(v, w, b) \in [Edge -> Nat]
<1>1. PathEdges[v][w] \subseteq Edge /\ \A e \in Edge : bRem[e] \in Nat
  BY NetworkTypes DEF PlaceTypes
<1>2. ASSUME \A e \in PathEdges[v][w] : bRem[e] >= b PROVE Charge(v, w, b) \in [Edge -> Nat]
  BY <1>1, <1>2 DEF Charge
<1>3. Refund(v, w, b) \in [Edge -> Nat]
  BY <1>1 DEF Refund
<1> QED BY <1>2, <1>3

LEMMA AddCLCcontrolInv ==
  ASSUME PlaceTypes, PlaceLinks, NEW v \in Cand, NEW w \in Node, CheckCLC(v, w) = "ok",
         AddCLCcontrol(v, w), UNCHANGED <<crcVars, flowCLC, flows, state>>
  PROVE  PlaceTypes' /\ PlaceLinks'
<1>1. BCLC \in Nat /\ PCLC \in Nat \ {0} /\ LCLC \in Nat /\ v \in Node
  BY NetworkTypes, DemandAssumption
<1>2. /\ RTT[v][w] < LCLC
      /\ CLCDemand(v, w) \in Nat /\ CLCDemand(v, w) <= pRem[v]
      /\ \A e \in PathEdges[v][w] : bRem[e] >= BCLC
  BY <1>1, CheckControlOK DEF CheckCLC, CLCDemand
<1>3. bRem' \in [Edge -> Nat]
  BY <1>1, <1>2, ChargeType DEF AddCLCcontrol
<1>4. pRem' \in [Cand -> Nat]
  <2>1. pRem[v] - CLCDemand(v, w) \in Nat BY <1>2 DEF PlaceTypes
  <2> QED BY <2>1 DEF PlaceTypes, AddCLCcontrol
<1>5. clcs' \in Seq(Cand) /\ CLCSet' = CLCSet \cup {v} /\ Distinct(clcs')
  <2>1. clcs' = clcs \/ clcs' = Append(clcs, v)
    BY DEF AddCLCcontrol
  <2>2. CASE v \in CLCSet
    <3>1. clcs' = clcs BY <2>2 DEF AddCLCcontrol
    <3> QED BY <2>2, <3>1 DEF CLCSet, PlaceTypes, PlaceLinks, RecordLinks
  <2>3. CASE v \notin CLCSet
    <3>1. clcs' = Append(clcs, v) BY <2>3 DEF AddCLCcontrol
    <3>3. CLCSet = Elems(clcs) /\ CLCSet' = Elems(clcs')
      BY DEF CLCSet, Elems
    <3>2. /\ Append(clcs, v) \in Seq(Cand) /\ Elems(Append(clcs, v)) = Elems(clcs) \cup {v}
          /\ Distinct(Append(clcs, v))
      BY <2>3, <3>3, AppendElems DEF PlaceTypes, PlaceLinks, RecordLinks
    <3> QED BY <3>1, <3>2, <3>3
  <2> QED BY <2>2, <2>3
<1>6. /\ control' = [control EXCEPT ![v] = @ \cup {w}]
      /\ clcsOf' = [clcsOf EXCEPT ![w] = @ \cup {v}]
      /\ controlled' = controlled \cup {w}
      /\ UNCHANGED <<crcs, crcControl, crcOf, flowCLC, flows, state>>
  BY DEF AddCLCcontrol, crcVars
<1>7. PlaceTypes'
  BY <1>1, <1>3, <1>4, <1>5, <1>6 DEF PlaceTypes
<1>8. \A c \in Node : control[c] \subseteq control'[c]
  BY <1>6 DEF PlaceTypes
<1>9. PlaceLinks'
  <2>1. \A c \in Node : control'[c] # {} => c \in CLCSet'
    BY <1>5, <1>6 DEF PlaceTypes, PlaceLinks
  <2>2. \A c, x \in Node : x \in control'[c] => RTT[c][x] < LCLC
    BY <1>2, <1>6 DEF PlaceTypes, PlaceLinks
  <2>3. \A x \in Node : crcOf'[x] # None => RTT[crcOf'[x]][x] < LCRC
    BY <1>6 DEF PlaceLinks
  <2>4. ASSUME NEW f \in Flow, flowCLC'[f] # None
        PROVE  /\ f \in flows' /\ flowCLC'[f] \in CLCSet' /\ Wb[f] \subseteq control'[flowCLC'[f]]
               /\ \A k \in Wb[f] : RTT[flowCLC'[f]][k] < LFlow[f] - Eps
    <3>1. flowCLC[f] \in Node BY <1>6, <2>4, NetworkTypes DEF PlaceTypes
    <3> QED BY <1>5, <1>6, <1>8, <2>4, <3>1 DEF PlaceLinks
  <2>5. RecordLinks'
    <3>1. /\ \A c \in Node : control'[c] = IF c = v THEN control[c] \cup {w} ELSE control[c]
          /\ \A x \in Node : clcsOf'[x] = IF x = w THEN clcsOf[x] \cup {v} ELSE clcsOf[x]
          /\ v \in Node
      BY <1>1, <1>2, <1>6 DEF PlaceTypes
    <3>2. \A c, x \in Node : x \in control'[c] <=> c \in clcsOf'[x]
      <4>1. \A c, x \in Node : x \in control[c] <=> c \in clcsOf[x]
        BY DEF PlaceLinks, RecordLinks
      <4>2. ASSUME NEW c \in Node, NEW x \in Node PROVE x \in control'[c] <=> c \in clcsOf'[x]
        <5>1. x \in control'[c] <=> (x \in control[c] \/ (c = v /\ x = w))
          BY <3>1
        <5>2. c \in clcsOf'[x] <=> (c \in clcsOf[x] \/ (c = v /\ x = w))
          BY <3>1
        <5> QED BY <5>1, <5>2, <4>1
      <4> QED BY <4>2
    <3>3. controlled' = {x \in Node : clcsOf'[x] # {}}
      BY <1>6 DEF PlaceTypes, PlaceLinks, RecordLinks
    <3>4. state' = "Solved" => controlled' = Node
      BY <1>6 DEF PlaceTypes, PlaceLinks, RecordLinks
    <3> QED BY <1>5, <3>2, <3>3, <3>4 DEF RecordLinks
  <2> QED BY <2>1, <2>2, <2>3, <2>4, <2>5 DEF PlaceLinks
<1> QED BY <1>7, <1>9

LEMMA RemCLCcontrolInv ==
  ASSUME PlaceTypes, PlaceLinks, NEW v \in Node, NEW w \in control[v],
         \A f \in Flow : flowCLC[f] = v => w \notin Wb[f],
         RemCLCcontrol(v, w), UNCHANGED <<crcVars, flowCLC, flows>>
  PROVE  PlaceTypes' /\ PlaceLinks'
<1>1. BCLC \in Nat /\ PCLC \in Nat /\ LCLC \in Int /\ w \in Node /\ RTT[v][w] \in Nat
  BY NetworkTypes, DemandAssumption DEF PlaceTypes
<1>2. v \in Cand /\ RTT[v][w] < LCLC
  BY <1>1, CLCSetType DEF PlaceLinks
<1>3. CLCDemand(v, w) \in Nat
  BY <1>1, <1>2, DemandType DEF CLCDemand
<1>4. /\ bRem' = Refund(v, w, BCLC)
      /\ pRem' = [pRem EXCEPT ![v] = @ + CLCDemand(v, w)]
      /\ control' = [control EXCEPT ![v] = @ \ {w}]
      /\ clcsOf' = [clcsOf EXCEPT ![w] = @ \ {v}]
      /\ controlled' \subseteq controlled
      /\ UNCHANGED <<clcs, crcs, crcControl, crcOf, flowCLC, flows>>
  BY DEF RemCLCcontrol, crcVars
<1>5. bRem' \in [Edge -> Nat] /\ pRem' \in [Cand -> Nat]
  BY <1>1, <1>2, <1>3, <1>4, ChargeType DEF PlaceTypes
<1>6. CLCSet' = CLCSet
  BY <1>4 DEF CLCSet
<1>7. PlaceTypes'
  BY <1>4, <1>5 DEF PlaceTypes
<1>8. \A c \in Node : /\ control'[c] \subseteq control[c]
                      /\ control'[c] = IF c = v THEN control[v] \ {w} ELSE control[c]
  BY <1>4 DEF PlaceTypes
<1>9. PlaceLinks'
  <2>1. \A c \in Node : control'[c] # {} => c \in CLCSet'
    BY <1>6, <1>8 DEF PlaceLinks
  <2>2. \A c, x \in Node : x \in control'[c] => RTT[c][x] < LCLC
    BY <1>8 DEF PlaceLinks
  <2>3. \A x \in Node : crcOf'[x] # None => RTT[crcOf'[x]][x] < LCRC
    BY <1>4 DEF PlaceLinks
  <2>4. ASSUME NEW f \in Flow, flowCLC'[f] # None
        PROVE  /\ f \in flows' /\ flowCLC'[f] \in CLCSet' /\ Wb[f] \subseteq control'[flowCLC'[f]]
               /\ \A k \in Wb[f] : RTT[flowCLC'[f]][k] < LFlow[f] - Eps
    <3>1. flowCLC[f] \in Node BY <1>4, <2>4, NetworkTypes DEF PlaceTypes
    <3>2. Wb[f] \subseteq control'[flowCLC[f]] BY <1>4, <1>8, <2>4, <3>1 DEF PlaceLinks
    <3> QED BY <1>4, <1>6, <2>4, <3>2 DEF PlaceLinks
  <2>5. RecordLinks'
    <3>1. /\ \A c \in Node : control'[c] = IF c = v THEN control[c] \ {w} ELSE control[c]
          /\ \A x \in Node : clcsOf'[x] = IF x = w THEN clcsOf[x] \ {v} ELSE clcsOf[x]
          /\ v \in Node
      BY <1>1, <1>2, <1>4, NetworkTypes DEF PlaceTypes
    <3>2. \A c, x \in Node : x \in control'[c] <=> c \in clcsOf'[x]
      <4>1. \A c, x \in Node : x \in control[c] <=> c \in clcsOf[x]
        BY DEF PlaceLinks, RecordLinks
      <4>2. ASSUME NEW c \in Node, NEW x \in Node PROVE x \in control'[c] <=> c \in clcsOf'[x]
        <5>1. x \in control'[c] <=> (x \in control[c] /\ ~ (c = v /\ x = w))
          BY <3>1
        <5>2. c \in clcsOf'[x] <=> (c \in clcsOf[x] /\ ~ (c = v /\ x = w))
          BY <3>1
        <5> QED BY <5>1, <5>2, <4>1
      <4> QED BY <4>2
    <3>3. /\ controlled' = IF clcsOf[w] = {v} THEN controlled \ {w} ELSE controlled
          /\ state' = IF clcsOf[w] = {v} THEN "NOT SOLVED" ELSE state
          /\ v \in clcsOf[w] /\ w \in controlled
      BY <1>1, <1>2, NetworkTypes DEF RemCLCcontrol, LosesLastCLC, StateWithout, PlaceLinks, RecordLinks
    <3>4. controlled' = {x \in Node : clcsOf'[x] # {}}
      <4>1. /\ clcsOf \in [Node -> SUBSET Node]
            /\ controlled = {x \in Node : clcsOf[x] # {}}
        BY DEF PlaceTypes, PlaceLinks, RecordLinks
      <4>2. \A x \in Node : clcsOf'[x] = IF x = w THEN clcsOf[w] \ {v} ELSE clcsOf[x]
        BY <1>4, <4>1
      <4>3. clcsOf'[w] # {} <=> clcsOf[w] # {v}
        BY <1>1, <3>3, <4>2
      <4>4. CASE clcsOf[w] = {v}
        BY <1>1, <3>3, <4>1, <4>2, <4>3, <4>4
      <4>5. CASE clcsOf[w] # {v}
        BY <1>1, <3>3, <4>1, <4>2, <4>3, <4>5
      <4> QED BY <4>4, <4>5
    <3>5. state' = "Solved" => controlled' = Node
      BY <3>3 DEF PlaceLinks, RecordLinks
    <3> QED BY <1>4, <3>2, <3>4, <3>5 DEF PlaceLinks, RecordLinks
  <2> QED BY <2>1, <2>2, <2>3, <2>4, <2>5 DEF PlaceLinks
<1> QED BY <1>7, <1>9

LEMMA AddCRCcontrolInv ==
  ASSUME PlaceTypes, PlaceLinks, NEW v \in Cand, NEW w \in Node, CheckCRC(v, w) = "ok",
         AddCRCcontrol(v, w), UNCHANGED <<clcVars, flowCLC, flows, state>>
  PROVE  PlaceTypes' /\ PlaceLinks'
<1>1. BCRC \in Nat /\ PCRC \in Nat \ {0} /\ LCRC \in Nat /\ v \in Node
  BY NetworkTypes, DemandAssumption
<1>2. /\ RTT[v][w] < LCRC
      /\ CRCDemand(v, w) \in Nat /\ CRCDemand(v, w) <= pRem[v]
      /\ \A e \in PathEdges[v][w] : bRem[e] >= BCRC
  BY <1>1, CheckControlOK DEF CheckCRC, CRCDemand
<1>3. /\ crcControl' = [crcControl EXCEPT ![v] = @ \cup {w}]
      /\ crcOf' = [crcOf EXCEPT ![w] = v]
      /\ crcs' = crcs \cup {v}
      /\ UNCHANGED <<clcs, control, clcsOf, controlled, flowCLC, flows, state>>
      /\ CLCSet' = CLCSet
  BY DEF AddCRCcontrol, clcVars, CLCSet
<1>4. bRem' \in [Edge -> Nat]
  BY <1>1, <1>2, ChargeType DEF AddCRCcontrol
<1>5. pRem' \in [Cand -> Nat]
  <2>1. pRem[v] - CRCDemand(v, w) \in Nat BY <1>2 DEF PlaceTypes
  <2> QED BY <2>1 DEF PlaceTypes, AddCRCcontrol
<1>6. PlaceTypes'
  BY <1>1, <1>3, <1>4, <1>5 DEF PlaceTypes
<1>7. PlaceLinks'
  <2>1. \A x \in Node : crcOf'[x] # None => RTT[crcOf'[x]][x] < LCRC
    BY <1>2, <1>3 DEF PlaceTypes, PlaceLinks
  <2> QED BY <1>3, <2>1 DEF PlaceLinks, RecordLinks
<1> QED BY <1>6, <1>7

(* remCRCcontrol, in a step that may also change the list of CLCs.               *)
LEMMA RemCRCcontrolTypes ==
  ASSUME PlaceTypes, PlaceLinks, NEW w \in Node, crcOf[w] # None, RemCRCcontrol(crcOf[w], w)
  PROVE  /\ bRem' \in [Edge -> Nat] /\ pRem' \in [Cand -> Nat]
         /\ crcs' \subseteq Cand /\ crcControl' \in [Node -> SUBSET Node]
         /\ crcOf' \in [Node -> Cand \cup {None}]
         /\ \A x \in Node : crcOf'[x] # None => crcOf'[x] = crcOf[x]
<1> DEFINE v == crcOf[w]
<1>1. /\ BCRC \in Nat /\ PCRC \in Nat /\ LCRC \in Int
      /\ v \in Cand /\ v \in Node /\ RTT[v][w] \in Nat /\ RTT[v][w] < LCRC
  BY NetworkTypes, DemandAssumption DEF PlaceTypes, PlaceLinks
<1> HIDE DEF v
<1>2. CRCDemand(v, w) \in Nat
  BY <1>1, DemandType DEF CRCDemand
<1>3. /\ bRem' = Refund(v, w, BCRC)
      /\ pRem' = [pRem EXCEPT ![v] = @ + CRCDemand(v, w)]
      /\ crcControl' = [crcControl EXCEPT ![v] = @ \ {w}]
      /\ crcOf' = [crcOf EXCEPT ![w] = None]
      /\ crcs' \subseteq crcs
  BY DEF RemCRCcontrol, v
<1>4. bRem' \in [Edge -> Nat] /\ pRem' \in [Cand -> Nat]
  BY <1>1, <1>2, <1>3, ChargeType DEF PlaceTypes
<1> QED BY <1>3, <1>4 DEF PlaceTypes

LEMMA AddFlowSatInv ==
  ASSUME PlaceTypes, PlaceLinks, NEW v \in Cand, NEW f \in Flow, f \in flows,
         CheckFlowSat(v, f) = "ok",
         AddFlowSat(v, f), UNCHANGED <<clcVars, crcVars, flows, state>>
  PROVE  PlaceTypes' /\ PlaceLinks'
<1>1. /\ flowCLC[f] = None /\ Wb[f] \subseteq control[v]
      /\ \A k \in Wb[f] : RTT[v][k] < LFlow[f] - Eps
      /\ FlowTaken(v, f) \in Nat /\ FlowTaken(v, f) <= pRem[v]
      /\ \A e \in Edge : bRem[e] >= Streams(v, f, e) * BFlow[f]
  BY CheckFlowSatOK
<1>2. /\ UNCHANGED <<clcs, control, clcsOf, controlled, crcs, crcControl, crcOf, flows, state>>
      /\ CLCSet' = CLCSet
      /\ flowCLC' = [flowCLC EXCEPT ![f] = v]
  BY DEF AddFlowSat, clcVars, crcVars, CLCSet
<1>3. bRem' \in [Edge -> Nat]
  <2>1. ASSUME NEW e \in Edge PROVE bRem[e] - Streams(v, f, e) * BFlow[f] \in Nat
    <3>1. /\ Streams(v, f, e) \in Nat /\ BFlow[f] \in Nat /\ bRem[e] \in Nat
          /\ bRem[e] >= Streams(v, f, e) * BFlow[f]
      BY <1>1, <2>1, StreamsType, NetworkTypes DEF PlaceTypes
    <3>2. Streams(v, f, e) * BFlow[f] \in Nat BY <3>1
    <3> QED BY <3>1, <3>2
  <2> QED BY <2>1 DEF AddFlowSat
<1>4. pRem' \in [Cand -> Nat]
  <2>1. pRem[v] - FlowTaken(v, f) \in Nat BY <1>1 DEF PlaceTypes
  <2> QED BY <2>1 DEF PlaceTypes, AddFlowSat
<1>5. PlaceTypes'
  BY <1>2, <1>3, <1>4 DEF PlaceTypes
<1>6. v \in Node /\ v \in CLCSet
  BY <1>1, NetworkTypes DEF PlaceLinks
<1>7. PlaceLinks'
  <2>1. ASSUME NEW g \in Flow, flowCLC'[g] # None
        PROVE  /\ g \in flows' /\ flowCLC'[g] \in CLCSet' /\ Wb[g] \subseteq control'[flowCLC'[g]]
               /\ \A k \in Wb[g] : RTT[flowCLC'[g]][k] < LFlow[g] - Eps
    <3>1. CASE g = f
      <4>1. flowCLC'[g] = v BY <1>2, <3>1 DEF PlaceTypes
      <4> QED BY <1>1, <1>2, <1>6, <3>1, <4>1
    <3>2. CASE g # f
      <4>1. flowCLC'[g] = flowCLC[g] BY <1>2, <3>2 DEF PlaceTypes
      <4> QED BY <1>2, <2>1, <4>1 DEF PlaceLinks
    <3> QED BY <3>1, <3>2
  <2> QED BY <1>2, <2>1 DEF PlaceLinks, RecordLinks
<1> QED BY <1>5, <1>7

(* remFlowSat, alone or as a part of removing the flow.                          *)
LEMMA RemFlowSatInv ==
  ASSUME PlaceTypes, PlaceLinks, NEW f \in Flow, flowCLC[f] # None,
         RemFlowSat(f), UNCHANGED <<clcVars, crcVars, state>>, flows \ {f} \subseteq flows'
  PROVE  PlaceTypes' /\ PlaceLinks'
<1> DEFINE v == flowCLC[f]
<1>1. /\ v \in Cand /\ v \in Node
      /\ \A k \in Wb[f] : RTT[v][k] < LFlow[f] - Eps
  BY NetworkTypes DEF PlaceTypes, PlaceLinks
<1>2. FlowNoted(v, f) \in Nat
  BY <1>1, FlowNotedType
<1>3. /\ UNCHANGED <<clcs, control, clcsOf, controlled, crcs, crcControl, crcOf, state>>
      /\ CLCSet' = CLCSet
      /\ flowCLC' = [flowCLC EXCEPT ![f] = None]
      /\ bRem' = [e \in Edge |-> bRem[e] + Streams(v, f, e) * BFlow[f]]
      /\ pRem' = [pRem EXCEPT ![v] = @ + FlowNoted(v, f)]
  BY DEF RemFlowSat, StreamsReleased, clcVars, crcVars, CLCSet
<1> HIDE DEF v
<1>4. bRem' \in [Edge -> Nat]
  <2>1. ASSUME NEW e \in Edge PROVE bRem[e] + Streams(v, f, e) * BFlow[f] \in Nat
    <3>1. Streams(v, f, e) \in Nat /\ BFlow[f] \in Nat /\ bRem[e] \in Nat
      BY <2>1, StreamsType, NetworkTypes DEF PlaceTypes
    <3> QED BY <3>1
  <2> QED BY <1>3, <2>1
<1>5. pRem' \in [Cand -> Nat]
  BY <1>1, <1>2, <1>3 DEF PlaceTypes
<1>6. PlaceTypes'
  BY <1>3, <1>4, <1>5 DEF PlaceTypes
<1>7. PlaceLinks'
  <2>1. ASSUME NEW g \in Flow, flowCLC'[g] # None
        PROVE  /\ g \in flows' /\ flowCLC'[g] \in CLCSet' /\ Wb[g] \subseteq control'[flowCLC'[g]]
               /\ \A k \in Wb[g] : RTT[flowCLC'[g]][k] < LFlow[g] - Eps
    <3>1. g # f /\ flowCLC'[g] = flowCLC[g] BY <1>3, <2>1 DEF PlaceTypes
    <3>2. g \in flows' BY <2>1, <3>1 DEF PlaceLinks
    <3> QED BY <1>3, <2>1, <3>1, <3>2 DEF PlaceLinks
  <2> QED BY <1>3, <2>1 DEF PlaceLinks, RecordLinks
<1> QED BY <1>6, <1>7

LEMMA PlacementUnchanged ==
  ASSUME PlaceTypes, PlaceLinks, UNCHANGED placeVars,
         state' = "Solved" => state = "Solved" \/ controlled = Node,
         \A f \in Flow : flowCLC[f] # None => f \in flows'
  PROVE  PlaceTypes' /\ PlaceLinks'
<1>1. /\ UNCHANGED <<clcs, control, clcsOf, controlled, crcs, crcControl, crcOf, flowCLC>>
      /\ UNCHANGED <<bRem, pRem>>
      /\ CLCSet' = CLCSet
  BY DEF placeVars, clcVars, crcVars, netVars, CLCSet
<1>2. PlaceTypes'
  BY <1>1 DEF PlaceTypes
<1>3. PlaceLinks'
  BY <1>1 DEF PlaceLinks, RecordLinks
<1> QED BY <1>2, <1>3

--------------------------------------------------------------------------------
(* Counts, pending paths and pending flows.                                      *)

LEMMA CountTypes ==
  ASSUME flows \subseteq Flow, controlled \subseteq Node, cands \subseteq Cand
  PROVE  /\ Cardinality(Satisfied) \in Nat
         /\ \A v \in Node : Unsatisfied(v) \in Nat
         /\ VCRatio \in Nat \X Nat
<1>1. IsFiniteSet(Flow) /\ IsFiniteSet(Node) /\ Cand \subseteq Node
  BY SetsAssumption
<1>2. Cardinality(Satisfied) \in Nat
  <2>1. Satisfied \in SUBSET Flow BY DEF Satisfied
  <2> QED BY <1>1, <2>1, FS_Subset, FS_CardinalityType
<1>3. ASSUME NEW v \in Node PROVE Unsatisfied(v) \in Nat
  <2>1. Wf(v) \ Satisfied \in SUBSET Flow BY DEF Wf
  <2> QED BY <1>1, <2>1, FS_Subset, FS_CardinalityType DEF Unsatisfied
<1>4. VCRatio \in Nat \X Nat
  <2>1. controlled \in SUBSET Node /\ cands \in SUBSET Node BY <1>1
  <2>2. /\ Cardinality(Node) \in Nat /\ Cardinality(controlled) \in Nat
        /\ Cardinality(cands) \in Nat /\ Cardinality(controlled) <= Cardinality(Node)
    BY <1>1, <2>1, FS_Subset, FS_CardinalityType
  <2> QED BY <2>2 DEF VCRatio
<1> QED BY <1>2, <1>3, <1>4

LEMMA PathsFromType ==
  ASSUME PlaceTypes, AlgTypes, NEW v \in Cand, NEW targets \in SUBSET Node, NEW done
  PROVE  PathsFrom(v, targets, done) \subseteq PathRecord
<1>1. \A j \in Node : Unsatisfied(j) \in Nat
  BY CountTypes DEF PlaceTypes, AlgTypes
<1>2. ASSUME NEW i \in targets
      PROVE  [src |-> v, dst |-> i, ctrl |-> i \in done, wants |-> Unsatisfied(i)] \in PathRecord
  <2>1. i \in Node /\ Unsatisfied(i) \in Nat /\ (i \in done) \in BOOLEAN
    BY <1>1, <1>2
  <2> QED BY <2>1 DEF PathRecord
<1> QED BY <1>2 DEF PathsFrom

LEMMA PotentialFlowsType ==
  ASSUME NEW nn, NEW c PROVE PotentialFlows(nn, c) \subseteq flows
BY DEF PotentialFlows

--------------------------------------------------------------------------------
(* The steps.                                                                    *)

USE DEF inVars, placeVars, clcVars, crcVars, netVars, algVars, growVars, locVars

(* A step that only moves control and sets locals keeps the placement.           *)
LEMMA GrowSkipInv == ASSUME Inv, NEW v \in Node, GrowSkip(v) PROVE Inv'
<1>1. PlaceTypes' /\ PlaceLinks'
  BY PlacementUnchanged DEF Inv, PlaceLinks, GrowSkip
<1>2. AlgTypes'
  BY DEF Inv, AlgTypes, GrowSkip
<1>3. AlgLinks'
  BY DEF Inv, AlgTypes, AlgLinks, GrowSkip, Growing, Labels
<1> QED BY <1>1, <1>2, <1>3 DEF Inv

LEMMA GrowFlowInv == ASSUME Inv, NEW v \in Node, GrowFlow(v) PROVE Inv'
<1>1. pf[v] # {} /\ v \in Cand /\ pc = "grow"
  BY DEF Inv, AlgLinks, GrowFlow, ServesNext, Growing
<1>2. PICK f \in pf[v] :
        \/ /\ CheckFlowSat(v, f) = "ok"
           /\ AddFlowSat(v, f)
           /\ pf' = [u \in Node |-> pf[u] \ {f}]
        \/ /\ CheckFlowSat(v, f) = "no"
           /\ pf' = [pf EXCEPT ![v] = @ \ {f}]
           /\ UNCHANGED <<netVars, flowCLC>>
  BY DEF GrowFlow, MostDemanding
<1>3. /\ UNCHANGED <<inVars, clcVars, crcVars>>
      /\ UNCHANGED <<state, algVars, pc, ret, locVars, paths, nnc>>
      /\ f \in flows /\ f \in Flow
  BY <1>2 DEF GrowFlow, Inv, AlgTypes, AlgLinks
<1>4. PlaceTypes' /\ PlaceLinks'
  <2>1. CASE CheckFlowSat(v, f) = "ok" /\ AddFlowSat(v, f)
    BY <1>1, <1>3, <2>1, AddFlowSatInv DEF Inv
  <2>2. CASE UNCHANGED <<netVars, flowCLC>>
    BY <1>3, <2>2, PlacementUnchanged DEF Inv, PlaceLinks
  <2> QED BY <1>2, <2>1, <2>2
<1>5. pf' \in [Node -> SUBSET Flow] /\ \A u \in Node : pf'[u] \subseteq pf[u]
  BY <1>2 DEF Inv, AlgTypes
<1>6. AlgTypes'
  BY <1>3, <1>5 DEF Inv, AlgTypes
<1>7. AlgLinks'
  BY <1>1, <1>3, <1>5 DEF Inv, AlgLinks, Labels
<1> QED BY <1>4, <1>6, <1>7 DEF Inv

LEMMA GrowPathInv == ASSUME Inv, NEW v \in Node, GrowPath(v) PROVE Inv'
<1>1. PICK p \in paths :
        /\ p.src = v
        /\ \/ /\ CheckCLC(v, p.dst) = "ok"
              /\ AddCLCcontrol(v, p.dst)
              /\ nnc' = [nnc EXCEPT ![v] = IF p.dst \in controlled THEN @ ELSE @ + 1]
              /\ pf' = [pf EXCEPT ![v] = @ \cup PotentialFlows({p.dst}, control[v] \cup {p.dst})]
              /\ paths' = paths \ {p}
           \/ /\ CheckCLC(v, p.dst) = "bandwidth"
              /\ paths' = paths \ {p}
              /\ UNCHANGED <<clcVars, netVars, nnc, pf>>
           \/ /\ CheckCLC(v, p.dst) = "processing"
              /\ paths' = {q \in paths : q.src # v}
              /\ pf' = [pf EXCEPT ![v] = {}]
              /\ UNCHANGED <<clcVars, netVars, nnc>>
  BY DEF GrowPath, FirstPaths
<1>2. /\ v \in Cand /\ p.dst \in Node /\ pc = "grow"
      /\ UNCHANGED <<inVars, crcVars, flowCLC, state, algVars, pc, ret, locVars>>
  BY <1>1 DEF GrowPath, Growing, Inv, AlgTypes, PathRecord
<1>3. PlaceTypes' /\ PlaceLinks'
  <2>1. CASE CheckCLC(v, p.dst) = "ok" /\ AddCLCcontrol(v, p.dst)
    BY <1>2, <2>1, AddCLCcontrolInv DEF Inv
  <2>2. CASE UNCHANGED <<clcVars, netVars>>
    BY <1>2, <2>2, PlacementUnchanged DEF Inv, PlaceLinks
  <2> QED BY <1>1, <2>1, <2>2
<1>4. /\ PotentialFlows({p.dst}, control[v] \cup {p.dst}) \subseteq flows
      /\ flows \subseteq Flow
  BY PotentialFlowsType DEF Inv, AlgTypes
<1>5. /\ pf' \in [Node -> SUBSET Flow]
      /\ \A u \in Node : pf'[u] \subseteq flows /\ (pf'[u] # {} => u \in Cand)
      /\ nnc' \in [Node -> Nat] /\ paths' \subseteq paths
  <2> DEFINE P == PotentialFlows({p.dst}, control[v] \cup {p.dst})
  <2>1. /\ pf \in [Node -> SUBSET Flow] /\ nnc \in [Node -> Nat]
        /\ \A u \in Node : pf[u] \subseteq flows /\ (pf[u] # {} => u \in Cand)
        /\ P \subseteq flows /\ P \subseteq Flow
    BY <1>4 DEF Inv, AlgTypes, AlgLinks
  <2> HIDE DEF P
  <2>2. pf' = [pf EXCEPT ![v] = @ \cup P] \/ pf' = pf \/ pf' = [pf EXCEPT ![v] = {}]
    BY <1>1 DEF P
  <2>3. /\ pf' \in [Node -> SUBSET Flow]
        /\ \A u \in Node : pf'[u] \subseteq flows /\ (pf'[u] # {} => u \in Cand)
    BY <1>2, <2>1, <2>2
  <2>4. nnc' \in [Node -> Nat] /\ paths' \subseteq paths
    BY <1>1, <2>1
  <2> QED BY <2>3, <2>4
<1>6. AlgTypes'
  BY <1>2, <1>5 DEF Inv, AlgTypes
<1>7. AlgLinks'
  BY <1>2, <1>5 DEF Inv, AlgLinks, Labels
<1> QED BY <1>3, <1>6, <1>7 DEF Inv

LEMMA GrowDoneInv == ASSUME Inv, GrowDone PROVE Inv'
<1>1. PlaceTypes' /\ PlaceLinks'
  BY PlacementUnchanged DEF Inv, PlaceLinks, GrowDone
<1>2. AlgTypes'
  BY DEF Inv, AlgTypes, GrowDone, EndGrowth, Return, Labels, Errors
<1>3. AlgLinks'
  BY DEF Inv, AlgTypes, AlgLinks, GrowDone, EndGrowth, Return, Labels
<1> QED BY <1>1, <1>2, <1>3 DEF Inv

(* remCLC: a CLC without flows may lose its nodes, and without nodes its place.  *)
LEMMA DropFlowInv == ASSUME Inv, NEW f \in Flow, DropFlow(f) PROVE Inv'
<1>1. /\ flowCLC[f] = cur /\ cur \in Cand /\ cur # None
      /\ RemFlowSat(f) /\ UNCHANGED <<inVars, clcVars, crcVars, state>>
  BY SetsAssumption DEF DropFlow, Satisfies, Inv, AlgLinks
<1>2. PlaceTypes' /\ PlaceLinks'
  BY <1>1, RemFlowSatInv DEF Inv
<1>3. AlgTypes' /\ AlgLinks'
  <2>1. AlgTypes'
    BY DEF Inv, AlgTypes, DropFlow
  <2>2. AlgLinks'
    BY DEF Inv, AlgTypes, AlgLinks, DropFlow
  <2> QED BY <2>1, <2>2
<1> QED BY <1>2, <1>3 DEF Inv

LEMMA DropControlInv == ASSUME Inv, NEW w \in Node, DropControl(w) PROVE Inv'
<1>1. /\ cur \in Cand /\ cur \in Node /\ w \in control[cur]
      /\ \A f \in Flow : flowCLC[f] # cur
      /\ RemCLCcontrol(cur, w)
      /\ UNCHANGED <<inVars, crcVars, flowCLC, algVars, pc, ret, locVars, growVars>>
  BY NetworkTypes DEF DropControl, Satisfies, Inv, AlgLinks
<1>2. PlaceTypes' /\ PlaceLinks'
  BY <1>1, RemCLCcontrolInv DEF Inv
<1>3. state' \in {"NOT SOLVED", "Solved"}
  BY <1>1 DEF RemCLCcontrol, StateWithout, Inv, AlgTypes
<1>4. AlgTypes' /\ AlgLinks'
  <2>1. AlgTypes'
    BY <1>1, <1>3 DEF Inv, AlgTypes
  <2>2. AlgLinks'
    BY <1>1, <1>3 DEF Inv, AlgTypes, AlgLinks
  <2> QED BY <2>1, <2>2
<1> QED BY <1>2, <1>4 DEF Inv

LEMMA DropDoneInv == ASSUME Inv, DropDone PROVE Inv'
<1>1. /\ cur \in Cand /\ cur \in Node /\ cur # None
      /\ control[cur] = {} /\ \A f \in Flow : flowCLC[f] # cur
      /\ UNCHANGED <<inVars, control, clcsOf, controlled, flowCLC, state, algVars, flow, todo>>
      /\ UNCHANGED <<rest, sat0, growVars>>
      /\ pc' = ret /\ ret' = "idle" /\ cur' = None
  BY NetworkTypes, SetsAssumption DEF DropDone, Return, Satisfies, Inv, AlgLinks
<1>2. clcs' \in Seq(Cand) /\ Distinct(clcs') /\ CLCSet \ {cur} \subseteq CLCSet'
  <2>1. PICK i \in DOMAIN clcs : clcs[i] = cur /\ IsWithout(clcs', clcs, i)
    BY DEF DropDone, IsWithout
  <2>2. clcs \in Seq(Cand) /\ Distinct(clcs)
    BY DEF Inv, PlaceTypes, PlaceLinks, RecordLinks
  <2>3. /\ clcs' \in Seq(Cand) /\ Elems(clcs) \ {clcs[i]} \subseteq Elems(clcs')
        /\ Distinct(clcs) => Distinct(clcs')
    BY <2>1, <2>2, RemoveElems
  <2>4. Elems(clcs) \ {cur} \subseteq Elems(clcs')
    BY <2>1, <2>3
  <2> QED BY <2>2, <2>3, <2>4 DEF Elems, CLCSet
<1>3. /\ bRem' \in [Edge -> Nat] /\ pRem' \in [Cand -> Nat]
      /\ crcs' \subseteq Cand /\ crcControl' \in [Node -> SUBSET Node]
      /\ crcOf' \in [Node -> Cand \cup {None}]
      /\ \A x \in Node : crcOf'[x] # None => crcOf'[x] = crcOf[x]
  <2>1. CASE crcOf[cur] # None
    <3>1. RemCRCcontrol(crcOf[cur], cur) BY <2>1 DEF DropDone
    <3> QED BY <1>1, <2>1, <3>1, RemCRCcontrolTypes DEF Inv
  <2>2. CASE crcOf[cur] = None
    <3>1. UNCHANGED <<crcVars, netVars>> BY <2>2 DEF DropDone
    <3> QED BY <3>1 DEF Inv, PlaceTypes
  <2> QED BY <2>1, <2>2
<1>4. PlaceTypes'
  BY <1>1, <1>2, <1>3 DEF Inv, PlaceTypes
<1>5. PlaceLinks'
  <2>1. RecordLinks'
    BY <1>1, <1>2 DEF Inv, PlaceLinks, RecordLinks
  <2>2. \A c \in Node : control'[c] # {} => c \in CLCSet'
    BY <1>1, <1>2 DEF Inv, PlaceLinks
  <2>3. \A v, w \in Node : w \in control'[v] => RTT[v][w] < LCLC
    BY <1>1 DEF Inv, PlaceLinks
  <2>4. \A w \in Node : crcOf'[w] # None => RTT[crcOf'[w]][w] < LCRC
    BY <1>3 DEF Inv, PlaceLinks
  <2>5. \A f \in Flow : flowCLC'[f] # None =>
          /\ f \in flows' /\ flowCLC'[f] \in CLCSet' /\ Wb[f] \subseteq control'[flowCLC'[f]]
          /\ \A k \in Wb[f] : RTT[flowCLC'[f]][k] < LFlow[f] - Eps
    BY <1>1, <1>2 DEF Inv, PlaceLinks
  <2> QED BY <2>1, <2>2, <2>3, <2>4, <2>5 DEF PlaceLinks
<1>6. AlgTypes'
  BY <1>1 DEF Inv, AlgTypes, Labels
<1>7. AlgLinks'
  BY <1>1 DEF Inv, AlgTypes, AlgLinks, Labels, DropDone
<1> QED BY <1>4, <1>5, <1>6, <1>7 DEF Inv

(* A useless control serves no flow through its node, so that taking it away     *)
(* leaves every served flow its nodes.                                           *)
LEMMA CleanupRemoveInv == ASSUME Inv, NEW v \in Node, CleanupRemove(v) PROVE Inv'
<1>1. PICK c \in Cand : Useless(c, v) /\ RemCLCcontrol(c, v)
  BY DEF CleanupRemove
<1>2. c \in Node /\ v \in control[c]
  BY <1>1, NetworkTypes DEF Useless, Inv, PlaceLinks, RecordLinks
<1>3. ASSUME NEW f \in Flow, flowCLC[f] = c PROVE v \notin Wb[f]
  <2>1. f \in flows BY <1>2, <1>3, SetsAssumption DEF Inv, PlaceLinks
  <2> QED BY <1>1, <1>3, <2>1 DEF Useless, Satisfies, Wf
<1>4. UNCHANGED <<inVars, crcVars, flowCLC, algVars, pc, ret, locVars, growVars>>
  BY DEF CleanupRemove
<1>5. PlaceTypes' /\ PlaceLinks'
  BY <1>1, <1>2, <1>3, <1>4, RemCLCcontrolInv DEF Inv
<1>6. state' \in {"NOT SOLVED", "Solved"}
  BY <1>1 DEF RemCLCcontrol, StateWithout, Inv, AlgTypes
<1>7. AlgTypes'
  BY <1>4, <1>6 DEF Inv, AlgTypes
<1>8. AlgLinks'
  BY <1>4 DEF Inv, AlgLinks
<1> QED BY <1>5, <1>7, <1>8 DEF Inv

LEMMA CleanupDoneInv == ASSUME Inv, CleanupDone PROVE Inv'
<1>1. PlaceTypes' /\ PlaceLinks'
  BY PlacementUnchanged DEF Inv, PlaceLinks, CleanupDone
<1>2. AlgTypes' /\ AlgLinks'
  BY DEF Inv, AlgTypes, AlgLinks, CleanupDone, Return, Labels
<1> QED BY <1>1, <1>2 DEF Inv

(* findCRC and addNewCLC.                                                        *)
LEMMA FindCRCInv == ASSUME Inv, NEW v \in Node, FindCRC(v) PROVE Inv'
<1>1. /\ pc = "find" /\ v \in todo /\ v \in Cand
      /\ UNCHANGED <<inVars, clcVars, flowCLC, state, algVars, ret, flow, rest, sat0, growVars>>
  BY DEF FindCRC, FirstCand, Inv, AlgLinks
<1>2. CASE \E i \in Cand :
            /\ FirstHost(i, v) /\ CheckCRC(i, v) = "ok"
            /\ AddCRCcontrol(i, v)
            /\ pc' = "found" /\ cur' = v /\ todo' = {}
  <2>1. PlaceTypes' /\ PlaceLinks'
    BY <1>1, <1>2, AddCRCcontrolInv DEF Inv
  <2>2. AlgTypes' /\ AlgLinks'
    BY <1>1, <1>2 DEF Inv, AlgTypes, AlgLinks, Labels
  <2> QED BY <2>1, <2>2 DEF Inv
<1>3. CASE todo' = todo \ {v} /\ UNCHANGED <<crcVars, netVars, pc, cur>>
  <2>1. PlaceTypes' /\ PlaceLinks'
    BY <1>1, <1>3, PlacementUnchanged DEF Inv, PlaceLinks
  <2>2. AlgTypes' /\ AlgLinks'
    <3>1. AlgTypes'
      BY <1>1, <1>3 DEF Inv, AlgTypes, Labels
    <3>2. AlgLinks'
      BY <1>1, <1>3 DEF Inv, AlgTypes, AlgLinks, Labels
    <3> QED BY <3>1, <3>2
  <2> QED BY <2>1, <2>2 DEF Inv
<1> QED BY <1>2, <1>3 DEF FindCRC

LEMMA FindNoneInv == ASSUME Inv, FindNone PROVE Inv'
<1>1. PlaceTypes' /\ PlaceLinks'
  BY PlacementUnchanged DEF Inv, PlaceLinks, FindNone
<1>2. AlgTypes' /\ AlgLinks'
  BY DEF Inv, AlgTypes, AlgLinks, FindNone, Return, Labels
<1> QED BY <1>1, <1>2 DEF Inv

LEMMA AddNewCLCInv == ASSUME Inv, AddNewCLC PROVE Inv'
<1>1. /\ pc = "found" /\ cur \in Cand /\ cur \in Node
      /\ pc' = "grow" /\ cur' = None
      /\ UNCHANGED <<flows, crcVars, flowCLC, state, algVars, ret, flow, todo, rest, sat0>>
  BY NetworkTypes DEF AddNewCLC, Inv, AlgLinks
<1>2. /\ Node \ {cur} \in SUBSET Node
      /\ flows \subseteq Flow /\ cands \subseteq Cand
      /\ pf \in [Node -> SUBSET Flow] /\ \A u \in Node : pf[u] = {}
      /\ nnc \in [Node -> Nat]
  BY <1>1 DEF Inv, AlgTypes, AlgLinks, Labels
<1>3. CASE /\ CheckCLC(cur, cur) = "ok"
           /\ AddCLCcontrol(cur, cur)
           /\ nnc' = [nnc EXCEPT ![cur] = IF cur \in controlled THEN 0 ELSE 1]
           /\ pf' = [pf EXCEPT ![cur] = PotentialFlows({cur}, control[cur] \cup {cur})]
           /\ paths' = PathsFrom(cur, Node \ {cur}, controlled \cup {cur})
           /\ UNCHANGED cands
  <2>1. PlaceTypes' /\ PlaceLinks'
    BY <1>1, <1>3, AddCLCcontrolInv DEF Inv
  <2>2. paths' \subseteq PathRecord
    BY <1>1, <1>2, <1>3, PathsFromType DEF Inv
  <2>3. PotentialFlows({cur}, control[cur] \cup {cur}) \subseteq flows
    BY PotentialFlowsType
  <2> DEFINE P == PotentialFlows({cur}, control[cur] \cup {cur})
  <2>4. pf' = [pf EXCEPT ![cur] = P] /\ P \subseteq flows
    BY <1>3, <2>3
  <2> HIDE DEF P
  <2>5. /\ pf' \in [Node -> SUBSET Flow]
        /\ \A u \in Node : pf'[u] \subseteq flows /\ (pf'[u] # {} => u \in Cand)
    BY <1>1, <1>2, <2>4
  <2>6. nnc' \in [Node -> Nat]
    BY <1>1, <1>2, <1>3
  <2>7. AlgTypes'
    BY <1>1, <1>3, <2>2, <2>5, <2>6 DEF Inv, AlgTypes, Labels
  <2>8. AlgLinks'
    BY <1>1, <1>3, <2>5 DEF Inv, AlgLinks, Labels
  <2> QED BY <2>1, <2>7, <2>8 DEF Inv
<1>4. CASE /\ cands' = cands \ {cur}
           /\ paths' = PathsFrom(cur, Node \ {cur}, controlled)
           /\ UNCHANGED <<clcVars, netVars, pf, nnc>>
  <2>1. PlaceTypes' /\ PlaceLinks'
    BY <1>1, <1>4, PlacementUnchanged DEF Inv, PlaceLinks
  <2>2. paths' \subseteq PathRecord
    BY <1>1, <1>2, <1>4, PathsFromType DEF Inv
  <2>3. AlgTypes'
    BY <1>1, <1>2, <1>4, <2>2 DEF Inv, AlgTypes, Labels
  <2>4. AlgLinks'
    BY <1>1, <1>2, <1>4 DEF Inv, AlgLinks, Labels
  <2> QED BY <2>1, <2>3, <2>4 DEF Inv
<1> QED BY <1>3, <1>4 DEF AddNewCLC

(* cpgreedy.                                                                     *)
LEMMA CallGreedyInv == ASSUME Inv, CallGreedy PROVE Inv'
<1>1. /\ pc \in {"idle", "lowload"} /\ first' = FALSE
      /\ UNCHANGED <<inVars, placeVars, state, option, locVars>>
  BY DEF CallGreedy
<1>2. PlaceTypes' /\ PlaceLinks'
  BY <1>1, PlacementUnchanged DEF Inv, PlaceLinks
<1>3. CASE pc' = "enter" /\ UNCHANGED <<vcRatio, ret, growVars>>
  <2>1. AlgTypes' /\ AlgLinks'
    BY <1>1, <1>3 DEF Inv, AlgTypes, AlgLinks, Labels
  <2> QED BY <1>2, <2>1 DEF Inv
<1>4. CASE ~first /\ cands # {}
  <2> DEFINE fit == {v \in CLCSet : 100 * pRem[v] > PNode[v]}
  <2>1. /\ vcRatio' = VCRatio
        /\ pf' = [v \in Node |-> IF v \in fit THEN PotentialFlows(control[v], control[v])
                                                ELSE {}]
        /\ paths' = UNION {PathsFrom(v, Node \ control[v], controlled) : v \in fit}
        /\ UNCHANGED nnc
        /\ pc' = "grow" /\ ret' = "enter"
    BY <1>4 DEF CallGreedy
  <2>2. fit \subseteq Cand
    BY CLCSetType DEF Inv
  <2> HIDE DEF fit
  <2>3. vcRatio' \in Nat \X Nat
    BY <2>1, CountTypes DEF Inv, PlaceTypes, AlgTypes
  <2>4. paths' \subseteq PathRecord
    <3>1. \A v \in fit : PathsFrom(v, Node \ control[v], controlled) \subseteq PathRecord
      BY <2>2, PathsFromType DEF Inv
    <3> QED BY <2>1, <3>1
  <2>5. /\ pf' \in [Node -> SUBSET Flow]
        /\ \A u \in Node : pf'[u] \subseteq flows /\ (pf'[u] # {} => u \in Cand)
    <3>1. \A v : PotentialFlows(control[v], control[v]) \subseteq flows
      BY PotentialFlowsType
    <3>2. flows \subseteq Flow
      BY DEF Inv, AlgTypes
    <3> QED BY <2>1, <2>2, <3>1, <3>2
  <2>6. AlgTypes'
    BY <1>1, <2>1, <2>3, <2>4, <2>5 DEF Inv, AlgTypes, Labels
  <2>7. AlgLinks'
    BY <1>1, <2>1, <2>5 DEF Inv, AlgLinks, Labels
  <2> QED BY <1>2, <2>6, <2>7 DEF Inv
<1> QED BY <1>3, <1>4 DEF CallGreedy

LEMMA EnterNodesInv == ASSUME Inv, EnterNodes PROVE Inv'
<1>1. PlaceTypes' /\ PlaceLinks'
  BY PlacementUnchanged DEF Inv, PlaceLinks, EnterNodes
<1>2. AlgTypes' /\ AlgLinks'
  BY DEF Inv, AlgTypes, AlgLinks, EnterNodes, Labels
<1> QED BY <1>1, <1>2 DEF Inv

LEMMA BeginFindTypes ==
  ASSUME AlgTypes, NEW back, BeginFind(back)
  PROVE  /\ option' \in {"neighbors", "isolated_nodes", "flows", "isolated_flows"}
         /\ todo' \subseteq Cand /\ todo' \subseteq Node
<1>1. FreeCands \subseteq cands
  BY DEF FreeCands
<1>2. option' \in {"isolated_nodes", "isolated_flows", option}
  BY DEF BeginFind, EffectiveOption
<1> QED BY <1>1, <1>2, NetworkTypes DEF AlgTypes, BeginFind

LEMMA FindForNodesInv == ASSUME Inv, FindForNodes PROVE Inv'
<1>1. PlaceTypes' /\ PlaceLinks'
  BY PlacementUnchanged DEF Inv, PlaceLinks, FindForNodes
<1>2. /\ option' \in {"neighbors", "isolated_nodes", "flows", "isolated_flows"}
      /\ todo' \subseteq Cand /\ todo' \subseteq Node
  BY BeginFindTypes DEF Inv, FindForNodes
<1>3. AlgTypes' /\ AlgLinks'
  BY <1>2 DEF Inv, AlgTypes, AlgLinks, FindForNodes, BeginFind, Labels
<1> QED BY <1>1, <1>3 DEF Inv

LEMMA LeaveNodesInv == ASSUME Inv, LeaveNodes PROVE Inv'
<1>1. PlaceTypes' /\ PlaceLinks'
  BY PlacementUnchanged DEF Inv, PlaceLinks, LeaveNodes, Verdict
<1>2. AlgTypes' /\ AlgLinks'
  <2>1. AlgTypes'
    BY DEF Inv, AlgTypes, LeaveNodes, Verdict, Labels
  <2>2. AlgLinks'
    BY DEF Inv, AlgTypes, AlgLinks, LeaveNodes, Verdict, Labels
  <2> QED BY <2>1, <2>2
<1> QED BY <1>1, <1>2 DEF Inv

LEMMA FindForFlowsInv == ASSUME Inv, FindForFlows PROVE Inv'
<1>1. PlaceTypes' /\ PlaceLinks'
  BY PlacementUnchanged DEF Inv, PlaceLinks, FindForFlows
<1>2. CASE sat0' = Cardinality(Satisfied) /\ BeginFind("judge")
  <2>1. /\ option' \in {"neighbors", "isolated_nodes", "flows", "isolated_flows"}
        /\ todo' \subseteq Cand /\ todo' \subseteq Node
    BY <1>2, BeginFindTypes DEF Inv
  <2>2. sat0' \in Nat
    BY <1>2, CountTypes DEF Inv, PlaceTypes, AlgTypes
  <2>3. AlgTypes' /\ AlgLinks'
    BY <1>2, <2>1, <2>2 DEF Inv, AlgTypes, AlgLinks, FindForFlows, BeginFind, Labels
  <2> QED BY <1>1, <2>3 DEF Inv
<1>3. CASE pc' = "cleanup" /\ todo' = Node /\ UNCHANGED <<sat0, option, ret>>
  <2>1. AlgTypes' /\ AlgLinks'
    BY <1>3 DEF Inv, AlgTypes, AlgLinks, FindForFlows, Labels
  <2> QED BY <1>1, <2>1 DEF Inv
<1> QED BY <1>2, <1>3 DEF FindForFlows

LEMMA JudgeRoundInv == ASSUME Inv, JudgeRound PROVE Inv'
<1>1. PlaceTypes' /\ PlaceLinks'
  BY PlacementUnchanged DEF Inv, PlaceLinks, JudgeRound
<1>2. clcs # <<>> => clcs[Len(clcs)] \in Cand
  <2>1. clcs \in Seq(Cand) BY DEF Inv, PlaceTypes
  <2> QED BY <2>1, LenProperties, EmptySeq
<1>3. AlgTypes' /\ AlgLinks'
  <2> DEFINE Same == UNCHANGED <<inVars, placeVars, state, algVars, flow, rest, growVars>>
  <2>0. /\ Same /\ sat0' = 0 /\ pc' \in Labels
        /\ ret' \in {ret, "cleanup"} /\ cur' \in Cand \cup {cur} /\ todo' \in {Node, todo}
    BY <1>2 DEF JudgeRound, Labels
  <2>1. AlgTypes'
    BY <2>0 DEF Inv, AlgTypes
  <2>2. AlgLinks'
    BY <1>2 DEF Inv, AlgTypes, AlgLinks, JudgeRound, Labels
  <2> QED BY <2>1, <2>2
<1> QED BY <1>1, <1>3 DEF Inv

(* addFlow and the search of a CLC for the new flow.                             *)
LEMMA AddFlowInv == ASSUME Inv, NEW f \in Flow, AddFlow(f) PROVE Inv'
<1>1. PlaceTypes' /\ PlaceLinks'
  BY PlacementUnchanged DEF Inv, PlaceLinks, AddFlow
<1>2. AlgTypes' /\ AlgLinks'
  <2>1. AlgTypes'
    BY DEF Inv, AlgTypes, AddFlow, Labels
  <2>2. AlgLinks'
    BY DEF Inv, AlgTypes, AlgLinks, AddFlow, Labels
  <2> QED BY <2>1, <2>2
<1> QED BY <1>1, <1>2 DEF Inv

LEMMA SingleKnownInv == ASSUME Inv, SingleKnown PROVE Inv'
<1>1. PICK i \in DOMAIN clcs :
        CheckFlowSat(clcs[i], flow) = "ok" /\ AddFlowSat(clcs[i], flow)
  BY DEF SingleKnown
<1>2. clcs[i] \in Cand /\ flow \in flows /\ flow \in Flow
  BY CLCSetType DEF CLCSet, SingleKnown, Inv, AlgTypes, AlgLinks
<1>3. PlaceTypes' /\ PlaceLinks'
  BY <1>1, <1>2, AddFlowSatInv DEF Inv, SingleKnown
<1>4. AlgTypes' /\ AlgLinks'
  BY DEF Inv, AlgTypes, AlgLinks, SingleKnown, Labels
<1> QED BY <1>3, <1>4 DEF Inv

LEMMA SingleSearchInv == ASSUME Inv, SingleSearch PROVE Inv'
<1>1. PlaceTypes' /\ PlaceLinks'
  BY PlacementUnchanged DEF Inv, PlaceLinks, SingleSearch
<1>2. CLCSet \subseteq Cand /\ CLCSet \subseteq Node
  BY CLCSetType, NetworkTypes DEF Inv
<1>3. AlgTypes' /\ AlgLinks'
  <2>1. AlgTypes'
    BY <1>2 DEF Inv, AlgTypes, SingleSearch, Labels
  <2>2. AlgLinks'
    BY <1>2 DEF Inv, AlgTypes, AlgLinks, SingleSearch, Labels
  <2> QED BY <2>1, <2>2
<1> QED BY <1>1, <1>3 DEF Inv

LEMMA SearchNextInv == ASSUME Inv, NEW c \in Node, SearchNext(c) PROVE Inv'
<1>1. PlaceTypes' /\ PlaceLinks'
  BY PlacementUnchanged DEF Inv, PlaceLinks, SearchNext
<1>2. flow \in Flow /\ Wb[flow] \subseteq Node
  BY NetworkTypes DEF SearchNext, Inv, AlgTypes, AlgLinks
<1>3. AlgTypes' /\ AlgLinks'
  BY <1>2 DEF Inv, AlgTypes, AlgLinks, SearchNext, Labels
<1> QED BY <1>1, <1>3 DEF Inv

LEMMA ReachInv == ASSUME Inv, NEW w \in Node, Reach(w) PROVE Inv'
<1>1. /\ pc = "reach" /\ w \in rest /\ cur \in Cand
      /\ UNCHANGED <<inVars, crcVars, flowCLC, state, algVars, ret, flow, todo, sat0, growVars>>
  BY DEF Reach, Inv, AlgLinks
<1>2. CASE CheckCLC(cur, w) = "ok" /\ AddCLCcontrol(cur, w)
           /\ rest' = rest \ {w} /\ UNCHANGED <<pc, cur>>
  <2>1. PlaceTypes' /\ PlaceLinks'
    BY <1>1, <1>2, AddCLCcontrolInv DEF Inv
  <2>2. AlgTypes' /\ AlgLinks'
    BY <1>1, <1>2 DEF Inv, AlgTypes, AlgLinks, Labels
  <2> QED BY <2>1, <2>2 DEF Inv
<1>3. CASE pc' = "search" /\ cur' = None /\ rest' = {} /\ UNCHANGED <<clcVars, netVars>>
  <2>1. PlaceTypes' /\ PlaceLinks'
    BY <1>1, <1>3, PlacementUnchanged DEF Inv, PlaceLinks
  <2>2. AlgTypes' /\ AlgLinks'
    BY <1>1, <1>3 DEF Inv, AlgTypes, AlgLinks, Labels
  <2> QED BY <2>1, <2>2 DEF Inv
<1> QED BY <1>2, <1>3 DEF Reach

LEMMA ReachDoneInv == ASSUME Inv, ReachDone PROVE Inv'
<1>1. /\ pc = "reach" /\ cur \in Cand /\ flow \in flows /\ flow \in Flow
      /\ UNCHANGED <<inVars, clcVars, crcVars, state>>
  BY DEF ReachDone, Inv, AlgTypes, AlgLinks
<1>2. PlaceTypes' /\ PlaceLinks'
  <2>1. CASE CheckFlowSat(cur, flow) = "ok" /\ AddFlowSat(cur, flow)
    BY <1>1, <2>1, AddFlowSatInv DEF Inv
  <2>2. CASE UNCHANGED <<flowCLC, netVars>>
    BY <1>1, <2>2, PlacementUnchanged DEF Inv, PlaceLinks
  <2> QED BY <2>1, <2>2 DEF ReachDone
<1>3. AlgTypes' /\ AlgLinks'
  BY DEF Inv, AlgTypes, AlgLinks, ReachDone, Labels
<1> QED BY <1>2, <1>3 DEF Inv

LEMMA SearchDoneInv == ASSUME Inv, SearchDone PROVE Inv'
<1>1. PlaceTypes' /\ PlaceLinks'
  BY PlacementUnchanged DEF Inv, PlaceLinks, SearchDone
<1>2. AlgTypes' /\ AlgLinks'
  BY DEF Inv, AlgTypes, AlgLinks, SearchDone, Labels
<1> QED BY <1>1, <1>2 DEF Inv

(* The driver's other calls, and the end of the program.                         *)
LEMMA RemFlowInv == ASSUME Inv, NEW f \in Flow, RemFlow(f) PROVE Inv'
<1>1. /\ pc = "idle" /\ f \in flows /\ flows' = flows \ {f}
      /\ UNCHANGED <<cands, clcVars, crcVars, state>>
  BY DEF RemFlow
<1>2. PlaceTypes' /\ PlaceLinks'
  <2>1. CASE flowCLC[f] # None
    <3>1. RemFlowSat(f) BY <2>1 DEF RemFlow
    <3> QED BY <1>1, <2>1, <3>1, RemFlowSatInv DEF Inv
  <2>2. CASE flowCLC[f] = None
    <3>1. UNCHANGED <<flowCLC, netVars>> BY <2>2 DEF RemFlow
    <3>2. \A g \in Flow : flowCLC[g] # None => g \in flows'
      BY <1>1, <2>2 DEF Inv, PlaceLinks
    <3> QED BY <1>1, <3>1, <3>2, PlacementUnchanged DEF Inv
  <2> QED BY <2>1, <2>2
<1>3. Wb[f] \subseteq Node
  BY NetworkTypes
<1>4. AlgTypes' /\ AlgLinks'
  BY <1>3 DEF Inv, AlgTypes, AlgLinks, RemFlow, Labels
<1> QED BY <1>2, <1>4 DEF Inv

LEMMA LowLoadInv == ASSUME Inv, NEW c \in Cand, LowLoad(c) PROVE Inv'
<1>1. PlaceTypes' /\ PlaceLinks'
  BY PlacementUnchanged DEF Inv, PlaceLinks, LowLoad
<1>2. AlgTypes' /\ AlgLinks'
  BY DEF Inv, AlgTypes, AlgLinks, LowLoad, Labels
<1> QED BY <1>1, <1>2 DEF Inv

LEMMA CrashInv == ASSUME Inv, Crash PROVE Inv'
<1>1. PlaceTypes' /\ PlaceLinks'
  BY PlacementUnchanged DEF Inv, PlaceLinks, Crash
<1>2. AlgTypes' /\ AlgLinks'
  <2>1. /\ UNCHANGED <<inVars, placeVars, state, algVars, ret, locVars, growVars>>
        /\ pc' \in Errors
    BY DEF Crash, Errors
  <2>2. AlgTypes'
    BY <2>1 DEF Inv, AlgTypes
  <2>3. AlgLinks'
    BY <2>1 DEF Inv, AlgLinks, Labels, Errors
  <2> QED BY <2>2, <2>3
<1> QED BY <1>1, <1>2 DEF Inv

LEMMA StutterInv == ASSUME Inv, UNCHANGED vars PROVE Inv'
<1>1. PlaceTypes' /\ PlaceLinks'
  BY PlacementUnchanged DEF Inv, PlaceLinks, vars
<1>2. AlgTypes'
  BY DEF Inv, AlgTypes, vars
<1>3. AlgLinks'
  BY DEF Inv, AlgLinks, vars
<1> QED BY <1>1, <1>2, <1>3 DEF Inv

--------------------------------------------------------------------------------
(* The invariant.                                                                *)

LEMMA InitInv == ASSUME Init PROVE Inv
<1>1. /\ clcs = <<>> /\ control = [v \in Node |-> {}] /\ clcsOf = [v \in Node |-> {}]
      /\ controlled = {} /\ crcs = {} /\ crcControl = [v \in Node |-> {}]
      /\ crcOf = [v \in Node |-> None] /\ flowCLC = [f \in Flow |-> None]
      /\ bRem = BCap /\ pRem = PNode /\ state = "NOT SOLVED"
  BY DEF Init
<1>2. PlaceTypes
  BY <1>1, DemandAssumption, EmptySeq DEF PlaceTypes
<1>3. PlaceLinks
  <2>1. RecordLinks
    <3>1. DOMAIN clcs = {}
      <4>1. <<>> \in Seq(Cand) /\ Len(<<>>) = 0 BY EmptySeq
      <4>2. DOMAIN <<>> = 1 .. 0 BY <4>1, LenProperties
      <4>3. 1 .. 0 = {} OBVIOUS
      <4> QED BY <1>1, <4>2, <4>3
    <3>2. Distinct(clcs) BY <3>1 DEF Distinct
    <3>3. \A c \in Node : control[c] = {} /\ clcsOf[c] = {} BY <1>1
    <3> QED BY <1>1, <3>2, <3>3 DEF RecordLinks
  <2> QED BY <1>1, <2>1 DEF PlaceLinks
<1>4. vcRatio \in Nat \X Nat
  <2>1. Cardinality(Node) \in Nat /\ Cardinality(Cand) \in Nat
    BY SetsAssumption, FS_Subset, FS_CardinalityType
  <2>2. (IF Cardinality(Cand) > 1 THEN Cardinality(Cand) - 1 ELSE 1) \in Nat
    BY <2>1
  <2>3. vcRatio = <<Cardinality(Node), IF Cardinality(Cand) > 1 THEN Cardinality(Cand) - 1 ELSE 1>>
    BY DEF Init
  <2> HIDE DEF Init
  <2> QED BY <2>1, <2>2, <2>3
<1>5. AlgTypes
  BY <1>4 DEF Init, NoGrowth, AlgTypes, Labels
<1>6. AlgLinks
  BY DEF Init, NoGrowth, AlgLinks
<1> QED BY <1>2, <1>3, <1>5, <1>6 DEF Inv

LEMMA NextInv == ASSUME Inv, [Next]_vars PROVE Inv'
<1>1. CASE Driver
  BY <1>1, AddFlowInv, RemFlowInv, LowLoadInv DEF Driver
<1>2. CASE Greedy
  <2>1. CASE CallGreedy \/ EnterNodes \/ FindForNodes \/ LeaveNodes \/ FindForFlows \/ JudgeRound
    BY <2>1, CallGreedyInv, EnterNodesInv, FindForNodesInv, LeaveNodesInv, FindForFlowsInv,
       JudgeRoundInv
  <2>2. CASE FindNone \/ AddNewCLC \/ GrowDone \/ DropDone \/ CleanupDone
    BY <2>2, FindNoneInv, AddNewCLCInv, GrowDoneInv, DropDoneInv, CleanupDoneInv
  <2>3. CASE SingleKnown \/ SingleSearch \/ ReachDone \/ SearchDone \/ Crash
    BY <2>3, SingleKnownInv, SingleSearchInv, ReachDoneInv, SearchDoneInv, CrashInv
  <2>4. CASE \E v \in Node : \/ FindCRC(v) \/ GrowSkip(v) \/ GrowFlow(v) \/ GrowPath(v)
                             \/ DropControl(v) \/ CleanupRemove(v) \/ SearchNext(v) \/ Reach(v)
    BY <2>4, FindCRCInv, GrowSkipInv, GrowFlowInv, GrowPathInv, DropControlInv,
       CleanupRemoveInv, SearchNextInv, ReachInv
  <2>5. CASE \E f \in Flow : DropFlow(f)
    BY <2>5, DropFlowInv
  <2> QED BY <1>2, <2>1, <2>2, <2>3, <2>4, <2>5 DEF Greedy
<1>3. CASE UNCHANGED vars
  BY <1>3, StutterInv
<1> QED BY <1>1, <1>2, <1>3 DEF Next

LEMMA Invariance == Spec => []Inv
<1>1. Init => Inv
  BY InitInv
<1>2. Inv /\ [Next]_vars => Inv'
  BY NextInv
<1> QED BY <1>1, <1>2, PTL DEF Spec

--------------------------------------------------------------------------------
(* The theorems.                                                                 *)

(* Whatever the network, the flows and the order of the driver's calls, every    *)
(* variable of the heuristic keeps its type.                                     *)
THEOREM TypeCorrect == Spec => []TypeOK
<1>1. Inv => bRem \in [Edge -> Int] /\ pRem \in [Cand -> Int]
  BY DEF Inv, PlaceTypes
<1>2. Inv => TypeOK
  BY <1>1 DEF Inv, PlaceTypes, AlgTypes, TypeOK
<1> QED BY <1>2, Invariance, PTL

(* The checks of checkCLC, checkCRC and checkFlowSat are strong enough for what  *)
(* addCLCcontrol, addCRCcontrol and addFlowSat take: no link and no node is ever *)
(* booked beyond its capacity.                                                   *)
THEOREM NeverOverbooked == Spec => []NoOverbooking
<1>1. Inv => NoOverbooking
  BY DEF Inv, PlaceTypes, NoOverbooking
<1> QED BY <1>1, Invariance, PTL

(* A satisfied flow is a flow of the network, its CLC is on the list of CLCs and *)
(* controls every node the flow enters through, until remFlowSat releases it.    *)
THEOREM ServedFlowsStayControlled == Spec => []ServedFlowsControlled
<1>1. Inv => ServedFlowsControlled
  BY DEF Inv, PlaceLinks, ServedFlowsControlled
<1> QED BY <1>1, Invariance, PTL

(* CLCcontrol of a controller, CLCs of a node, the Controlled list and the list  *)
(* of CLCs never disagree.                                                       *)
THEOREM ControlRecordsStayInAgreement == Spec => []ControlRecordsAgree
<1>1. Inv => ControlRecordsAgree
  BY DEF Inv, PlaceLinks, RecordLinks, Distinct, ControlRecordsAgree
<1> QED BY <1>1, Invariance, PTL

(* While the heuristic says "Solved", every node has a CLC.                      *)
THEOREM SolvedIsTrue == Spec => []SolvedMeansControlled
<1>1. Inv => SolvedMeansControlled
  BY DEF Inv, PlaceLinks, RecordLinks, SolvedMeansControlled
<1> QED BY <1>1, Invariance, PTL

(* A step that satisfies a flow finds it unsatisfied, and only remFlowSat takes  *)
(* a flow from its CLC.                                                          *)
LEMMA AddFlowSatKeeps ==
  ASSUME Inv, NEW v \in Cand, NEW g \in Flow, CheckFlowSat(v, g) = "ok", AddFlowSat(v, g)
  PROVE  FlowsKeepTheirCLC
<1>1. flowCLC[g] = None
  BY DEF CheckFlowSat, Eligible
<1>2. \A f \in Flow : flowCLC[f] # None => flowCLC'[f] = flowCLC[f]
  BY <1>1 DEF AddFlowSat, Inv, PlaceTypes
<1> QED BY <1>2 DEF FlowsKeepTheirCLC

LEMMA FlowsStay == ASSUME Inv, [Next]_vars PROVE FlowsKeepTheirCLC
<1>1. CASE UNCHANGED flowCLC
  BY <1>1 DEF FlowsKeepTheirCLC
<1>2. ASSUME NEW v \in Node, GrowFlow(v) PROVE FlowsKeepTheirCLC
  <2>1. v \in Cand BY <1>2 DEF Inv, AlgLinks, GrowFlow, ServesNext
  <2>2. PICK g \in Flow : \/ CheckFlowSat(v, g) = "ok" /\ AddFlowSat(v, g)
                          \/ UNCHANGED flowCLC
    BY <1>2 DEF Inv, AlgTypes, GrowFlow, MostDemanding
  <2> QED BY <1>1, <2>1, <2>2, AddFlowSatKeeps
<1>3. ASSUME NEW g \in Flow, DropFlow(g) PROVE FlowsKeepTheirCLC
  <2>1. flowCLC' = [flowCLC EXCEPT ![g] = None] /\ pc = "drop" /\ flowCLC[g] = cur
    BY <1>3 DEF DropFlow, RemFlowSat, Satisfies
  <2> QED BY <2>1 DEF Inv, PlaceTypes, FlowsKeepTheirCLC
<1>4. CASE SingleKnown
  <2>1. PICK i \in DOMAIN clcs :
          CheckFlowSat(clcs[i], flow) = "ok" /\ AddFlowSat(clcs[i], flow)
    BY <1>4 DEF SingleKnown
  <2>2. clcs[i] \in Cand /\ flow \in Flow
    BY <1>4, CLCSetType DEF CLCSet, SingleKnown, Inv, AlgTypes, AlgLinks
  <2> QED BY <1>1, <2>1, <2>2, AddFlowSatKeeps
<1>5. CASE ReachDone
  <2>1. cur \in Cand /\ flow \in Flow
    BY <1>5 DEF ReachDone, Inv, AlgTypes, AlgLinks
  <2>2. \/ CheckFlowSat(cur, flow) = "ok" /\ AddFlowSat(cur, flow)
        \/ UNCHANGED flowCLC
    BY <1>5 DEF ReachDone
  <2> QED BY <1>1, <2>1, <2>2, AddFlowSatKeeps
<1>6. ASSUME NEW g \in Flow, RemFlow(g) PROVE FlowsKeepTheirCLC
  <2>1. /\ flowCLC' = [flowCLC EXCEPT ![g] = None] \/ UNCHANGED flowCLC
        /\ g \notin flows'
    BY <1>6 DEF RemFlow, RemFlowSat
  <2> QED BY <2>1 DEF Inv, PlaceTypes, FlowsKeepTheirCLC
<1>7. ASSUME Greedy PROVE FlowsKeepTheirCLC
  <2>1. CASE CallGreedy \/ EnterNodes \/ FindForNodes \/ LeaveNodes \/ FindForFlows \/ JudgeRound
    BY <1>1, <2>1 DEF CallGreedy, EnterNodes, FindForNodes, LeaveNodes, FindForFlows, JudgeRound
  <2>2. CASE FindNone \/ AddNewCLC \/ GrowDone \/ DropDone \/ CleanupDone
    BY <1>1, <2>2 DEF FindNone, AddNewCLC, GrowDone, DropDone, CleanupDone
  <2>3. CASE SingleKnown \/ SingleSearch \/ ReachDone \/ SearchDone \/ Crash
    BY <1>1, <1>4, <1>5, <2>3 DEF SingleSearch, SearchDone, Crash
  <2>4. ASSUME NEW v \in Node,
               \/ FindCRC(v) \/ GrowSkip(v) \/ GrowFlow(v) \/ GrowPath(v)
               \/ DropControl(v) \/ CleanupRemove(v) \/ SearchNext(v) \/ Reach(v)
        PROVE  FlowsKeepTheirCLC
    BY <1>1, <1>2, <2>4
       DEF FindCRC, GrowSkip, GrowPath, DropControl, CleanupRemove, SearchNext, Reach
  <2> QED BY <1>3, <1>7, <2>1, <2>2, <2>3, <2>4 DEF Greedy
<1>8. ASSUME Driver PROVE FlowsKeepTheirCLC
  BY <1>1, <1>6, <1>8 DEF Driver, AddFlow, LowLoad
<1> QED BY <1>1, <1>7, <1>8 DEF Next, vars

(* cleanupCLCcontrols takes a control away only from a node with another one.    *)
LEMMA NodesStay == ASSUME Inv, [Next]_vars PROVE NodesKeepACLC
<1> USE DEF NodesKeepACLC
<1>1. CASE UNCHANGED controlled
  BY <1>1
<1>2. ASSUME NEW v, NEW w, AddCLCcontrol(v, w) PROVE NodesKeepACLC
  BY <1>2 DEF AddCLCcontrol
<1>3. ASSUME NEW v \in Node, CleanupRemove(v) PROVE NodesKeepACLC
  <2>1. PICK c \in Cand : Useless(c, v) /\ RemCLCcontrol(c, v)
    BY <1>3 DEF CleanupRemove
  <2>2. Cardinality({c}) = 1
    BY FS_Singleton
  <2>3. ~ LosesLastCLC(c, v)
    BY <2>1, <2>2 DEF Useless, LosesLastCLC
  <2> QED BY <2>1, <2>3 DEF RemCLCcontrol
<1>4. ASSUME Greedy PROVE NodesKeepACLC
  <2>1. CASE CallGreedy \/ EnterNodes \/ FindForNodes \/ LeaveNodes \/ FindForFlows \/ JudgeRound
    BY <1>1, <2>1 DEF CallGreedy, EnterNodes, FindForNodes, LeaveNodes, FindForFlows, JudgeRound
  <2>2. CASE FindNone \/ AddNewCLC \/ GrowDone \/ DropDone \/ CleanupDone
    BY <1>1, <1>2, <2>2 DEF FindNone, AddNewCLC, GrowDone, DropDone, CleanupDone
  <2>3. CASE SingleKnown \/ SingleSearch \/ ReachDone \/ SearchDone \/ Crash
    BY <1>1, <2>3 DEF SingleKnown, SingleSearch, ReachDone, SearchDone, Crash
  <2>4. ASSUME NEW v \in Node,
               \/ FindCRC(v) \/ GrowSkip(v) \/ GrowFlow(v) \/ GrowPath(v)
               \/ DropControl(v) \/ CleanupRemove(v) \/ SearchNext(v) \/ Reach(v)
        PROVE  NodesKeepACLC
    <3>1. CASE FindCRC(v) \/ GrowSkip(v) \/ GrowFlow(v) \/ SearchNext(v)
      BY <1>1, <3>1 DEF FindCRC, GrowSkip, GrowFlow, SearchNext
    <3>2. CASE GrowPath(v)
      BY <1>1, <1>2, <3>2 DEF GrowPath
    <3>3. CASE Reach(v)
      BY <1>1, <1>2, <3>3 DEF Reach
    <3>4. CASE DropControl(v)
      BY <3>4 DEF DropControl
    <3> QED BY <1>3, <2>4, <3>1, <3>2, <3>3, <3>4
  <2>5. ASSUME NEW f \in Flow, DropFlow(f) PROVE NodesKeepACLC
    BY <2>5 DEF DropFlow
  <2> QED BY <1>4, <2>1, <2>2, <2>3, <2>4, <2>5 DEF Greedy
<1>5. ASSUME Driver PROVE NodesKeepACLC
  BY <1>1, <1>5 DEF Driver, AddFlow, RemFlow, LowLoad
<1> QED BY <1>1, <1>4, <1>5 DEF Next, vars

(* A flow changes its CLC only while remCLC takes that CLC down, or with the     *)
(* flow's own removal; and only remCLC leaves a node without a CLC.              *)
THEOREM OnlyDrops == Spec => OnlyDropsTakeAway
<1>1. Inv /\ [Next]_vars => [FlowsKeepTheirCLC /\ NodesKeepACLC]_vars
  BY FlowsStay, NodesStay
<1> QED BY <1>1, Invariance, PTL DEF Spec, OnlyDropsTakeAway

--------------------------------------------------------------------------------
(* Calls come to an end.                                                         *)

(* Where each loop returns to, whom findCRC may be asked for, that a round for a *)
(* flow starts with as many flows satisfied as it noted, and that a round for    *)
(* uncontrolled nodes has no CRC for the candidates it is done with.             *)
LoopInv ==
    /\ pc \in {"find", "found"} => ret \in {"nodesAgain", "judge"}
    /\ pc = "grow" => ret \in {"enter", "nodesAgain", "judge"}
    /\ pc = "drop" => ret \in {"lowload", "cleanup"}
    /\ pc = "find" => todo \subseteq FreeCands
    /\ pc = "found" => cur \in cands \ CLCSet
    /\ pc = "find" /\ ret = "judge" => sat0 = Cardinality(Satisfied)
    /\ pc = "find" /\ ret = "nodesAgain" =>
         /\ controlled # Node /\ ~NoCandidate
         /\ \A v \in FreeCands \ todo, i \in Cand : ~FirstHost(i, v)
    /\ IsFiniteSet(paths)

LEMMA ImageFinite ==
  ASSUME NEW S, IsFiniteSet(S), NEW h
  PROVE  IsFiniteSet({h[x] : x \in S})
<1> DEFINE g == [x \in S |-> h[x]]
<1>1. g \in Surjection(S, {h[x] : x \in S})
  BY DEF Surjection
<1> QED BY <1>1, FS_Surjection

LEMMA PathsFinite ==
  ASSUME NEW v, NEW T \in SUBSET Node, NEW D
  PROVE  IsFiniteSet(PathsFrom(v, T, D))
<1> DEFINE h == [i \in Node |-> [src |-> v, dst |-> i, ctrl |-> i \in D, wants |-> Unsatisfied(i)]]
           S == {j \in T : j \notin D \/ Unsatisfied(j) > 0}
<1>1. IsFiniteSet(S)
  BY SetsAssumption, FS_Subset
<1>2. PathsFrom(v, T, D) = {h[x] : x \in S}
  BY DEF PathsFrom
<1> HIDE DEF h, S
<1> QED BY <1>1, <1>2, ImageFinite

(* Taking something out of a finite set leaves fewer elements.                   *)
LEMMA FewerLeft ==
  ASSUME NEW S, IsFiniteSet(S), NEW T \in SUBSET S
  PROVE  /\ IsFiniteSet(T) /\ Cardinality(T) \in Nat /\ Cardinality(S) \in Nat
         /\ Cardinality(T) <= Cardinality(S)
         /\ T # S => Cardinality(T) < Cardinality(S)
<1>1. IsFiniteSet(T) /\ Cardinality(T) <= Cardinality(S)
         /\ (Cardinality(S) = Cardinality(T) => S = T)
  BY FS_Subset
<1>2. Cardinality(T) \in Nat /\ Cardinality(S) \in Nat
  BY <1>1, FS_CardinalityType
<1> QED BY <1>1, <1>2

LEMMA Finite ==
  ASSUME Inv
  PROVE  /\ IsFiniteSet(Node) /\ IsFiniteSet(Flow) /\ IsFiniteSet(cands \ CLCSet)
         /\ IsFiniteSet(todo) /\ IsFiniteSet(rest)
         /\ \A r : IsFiniteSet(Pairs(r))
         /\ \A c : IsFiniteSet(Satisfies(c))
         /\ \A c \in Node : IsFiniteSet(control[c])
<1>1. IsFiniteSet(Node) /\ IsFiniteSet(Flow) /\ Cand \subseteq Node
  BY SetsAssumption
<1>2. cands \ CLCSet \in SUBSET Node /\ todo \in SUBSET Node /\ rest \in SUBSET Node
  BY <1>1 DEF Inv, AlgTypes
<1>3. \A c \in Node : control[c] \in SUBSET Node
  BY DEF Inv, PlaceTypes
<1>4. ASSUME NEW r PROVE IsFiniteSet(Pairs(r))
  <2>1. IsFiniteSet(Node \X (Node \cup Flow))
    BY <1>1, FS_Union, FS_Product
  <2> QED BY <2>1, FS_Subset DEF Pairs
<1>5. ASSUME NEW c PROVE IsFiniteSet(Satisfies(c))
  BY <1>1, FS_Subset DEF Satisfies
<1> QED BY <1>1, <1>2, <1>3, <1>4, <1>5, FS_Subset

--------------------------------------------------------------------------------
LEMMA LoopInit == Init => LoopInv
  BY FS_EmptySet DEF Init, NoGrowth, LoopInv

(* What the choice of a CRC depends on.                                          *)
LEMMA HostsKept ==
  ASSUME UNCHANGED <<crcs, cands, clcs, bRem, pRem>>
  PROVE  /\ UNCHANGED <<CLCSet, FreeCands>>
         /\ \A i, v : FirstHost(i, v)' <=> FirstHost(i, v)
<1>1. UNCHANGED <<CLCSet, FreeCands>>
  BY DEF CLCSet, FreeCands
<1>2. \A i, v : CheckCRC(i, v)' = CheckCRC(i, v)
  BY DEF CheckCRC, CheckControl, TooSlow
<1>3. \A i, v : Tier(i, v)' = Tier(i, v)
  BY <1>1 DEF Tier
<1>4. \A i : Centrality(i)' = Centrality(i)
  BY DEF Centrality, MapThenSumSet, MapThenFoldSet
<1>5. \A i, v : Closeness(i, v)' = Closeness(i, v)
  BY <1>3, <1>4 DEF Closeness, Hops
<1>6. \A i, j, v : CRCBefore(i, j, v)' <=> CRCBefore(i, j, v)
  BY <1>3, <1>5 DEF CRCBefore
<1> QED BY <1>1, <1>2, <1>6 DEF FirstHost, Hosts

LEMMA LoopStep == ASSUME Inv, LoopInv, [Next]_vars PROVE LoopInv'
<1>1. CASE Driver
  <2>1. UNCHANGED paths /\ pc' \in {"idle", "single", "cleanup", "drop"}
        /\ (pc' = "idle" => pc = "idle") /\ (pc' = "drop" => ret' = "lowload")
    BY <1>1 DEF Driver, AddFlow, RemFlow, LowLoad
  <2> QED BY <2>1 DEF LoopInv
<1>2. CASE UNCHANGED vars
  <2>1. /\ UNCHANGED <<CLCSet, Satisfied, FreeCands>>
        /\ \A i, v : FirstHost(i, v)' <=> FirstHost(i, v)
    BY <1>2, HostsKept DEF vars, Satisfied
  <2> QED BY <1>2, <2>1 DEF vars, LoopInv, NoCandidate
<1>3. ASSUME CallGreedy PROVE LoopInv'
  <2>1. pc' = "enter" \/ (pc' = "grow" /\ ret' = "enter")
    BY <1>3 DEF CallGreedy
  <2>2. IsFiniteSet(paths')
    <3>1. CASE UNCHANGED paths
      BY <3>1 DEF LoopInv
    <3>2. ASSUME NEW fit \in SUBSET CLCSet,
                 paths' = UNION {PathsFrom(v, Node \ control[v], controlled) : v \in fit}
          PROVE  IsFiniteSet(paths')
      <4> DEFINE h == [v \in fit |-> PathsFrom(v, Node \ control[v], controlled)]
                 S == {h[v] : v \in fit}
      <4>1. IsFiniteSet(fit)
        <5>1. fit \in SUBSET Node /\ IsFiniteSet(Node)
          BY SetsAssumption, CLCSetType DEF Inv
        <5> QED BY <5>1, FS_Subset
      <4>2. paths' = UNION S
        BY <3>2
      <4>3. \A s \in S : IsFiniteSet(s)
        BY PathsFinite
      <4>4. IsFiniteSet(S)
        <5> HIDE DEF h
        <5> QED BY <4>1, ImageFinite
      <4> HIDE DEF S
      <4> QED BY <4>2, <4>3, <4>4, FS_UNION
    <3> QED BY <1>3, <3>1, <3>2 DEF CallGreedy
  <2> QED BY <2>1, <2>2 DEF LoopInv
<1>4. ASSUME AddNewCLC PROVE LoopInv'
  <2>1. pc' = "grow" /\ ret' = ret /\ ret \in {"nodesAgain", "judge"}
    BY <1>4 DEF AddNewCLC, LoopInv
  <2>2. IsFiniteSet(paths')
    BY <1>4, PathsFinite DEF AddNewCLC
  <2> QED BY <2>1, <2>2 DEF LoopInv
<1>5. ASSUME FindForNodes \/ FindForFlows PROVE LoopInv'
  <2>1. /\ UNCHANGED <<paths, cands, CLCSet, Satisfied, FreeCands, controlled>>
        /\ pc' = "cleanup" \/ (pc' = "find" /\ todo' = FreeCands)
        /\ pc' = "find" => \/ ret' = "nodesAgain" /\ FindForNodes
                           \/ ret' = "judge" /\ sat0' = Cardinality(Satisfied)
    BY <1>5 DEF FindForNodes, FindForFlows, BeginFind, FreeCands, CLCSet, Satisfied
  <2>2. pc' = "find" /\ ret' = "judge" => sat0' = Cardinality(Satisfied')
    BY <2>1
  <2>3. FindForNodes => controlled' # Node /\ ~NoCandidate'
    BY <2>1 DEF FindForNodes, NodesDone, NoCandidate, BeginFind, EffectiveOption
  <2> QED BY <2>1, <2>2, <2>3 DEF LoopInv
<1>6. ASSUME EnterNodes \/ LeaveNodes \/ JudgeRound \/ FindNone \/ CleanupDone \/ SingleKnown
              \/ SingleSearch \/ ReachDone \/ SearchDone \/ Crash \/ DropDone
      PROVE  LoopInv'
  <2>1. UNCHANGED paths
    BY <1>6 DEF EnterNodes, LeaveNodes, JudgeRound, FindNone, CleanupDone, SingleKnown,
                SingleSearch, ReachDone, SearchDone, Crash, DropDone
  <2>2. pc' \notin {"find", "found", "grow"} /\ (pc' = "drop" => ret' = "cleanup")
    BY <1>6 DEF EnterNodes, LeaveNodes, JudgeRound, FindNone, CleanupDone, SingleKnown, Return,
                SingleSearch, ReachDone, SearchDone, Crash, DropDone, LoopInv
  <2> QED BY <2>1, <2>2 DEF LoopInv
<1>7. ASSUME GrowDone PROVE LoopInv'
  <2>1. paths' = {} /\ pc' \in {"enter", "nodesAgain", "judge"}
    BY <1>7 DEF GrowDone, EndGrowth, Return, LoopInv
  <2> QED BY <2>1, FS_EmptySet DEF LoopInv
<1>8. ASSUME NEW v \in Node, FindCRC(v) PROVE LoopInv'
  <2>1. /\ UNCHANGED <<paths, ret, cands, CLCSet, Satisfied, sat0, controlled, option>>
        /\ pc = "find"
    BY <1>8 DEF FindCRC, CLCSet, Satisfied
  <2>2. CASE pc' = "found" /\ cur' = v /\ v \in todo
    BY <2>1, <2>2 DEF LoopInv, FreeCands
  <2>3. ASSUME pc' = "find", todo' = todo \ {v}, \A i \in Cand : ~FirstHost(i, v),
               UNCHANGED <<crcVars, netVars>>
        PROVE  LoopInv'
    <3>1. UNCHANGED FreeCands /\ \A i, w : FirstHost(i, w)' <=> FirstHost(i, w)
      BY <1>8, <2>3, HostsKept DEF FindCRC
    <3>2. \A w \in FreeCands' \ todo', i \in Cand : w # v => w \in FreeCands \ todo
      BY <2>3, <3>1
    <3> QED BY <2>1, <2>3, <3>1, <3>2 DEF LoopInv, NoCandidate
  <2> QED BY <1>8, <2>1, <2>2, <2>3 DEF FindCRC, FirstCand
<1>9. ASSUME NEW v \in Node, GrowSkip(v) \/ GrowFlow(v) \/ GrowPath(v) PROVE LoopInv'
  <2>1. pc' = "grow" /\ UNCHANGED ret /\ pc = "grow" /\ paths' \in SUBSET paths
    BY <1>9 DEF GrowSkip, GrowFlow, GrowPath, Growing
  <2>2. IsFiniteSet(paths')
    BY <2>1, FS_Subset DEF LoopInv
  <2> QED BY <2>1, <2>2 DEF LoopInv
<1>10. ASSUME NEW v \in Node, DropControl(v) \/ CleanupRemove(v) \/ SearchNext(v) \/ Reach(v)
       PROVE  LoopInv'
  <2>1. UNCHANGED <<paths, ret>> /\ (pc' = "drop" => pc = "drop")
        /\ pc' \in {"drop", "cleanup", "search", "reach"}
    BY <1>10 DEF DropControl, CleanupRemove, SearchNext, Reach
  <2> QED BY <2>1 DEF LoopInv
<1>11. ASSUME NEW f \in Flow, DropFlow(f) PROVE LoopInv'
  BY <1>11 DEF DropFlow, LoopInv
<1> QED BY <1>1, <1>2, <1>3, <1>4, <1>5, <1>6, <1>7, <1>8, <1>9, <1>10, <1>11 DEF Next, Greedy

--------------------------------------------------------------------------------
(* The lexicographic order, and the parts of the rank.                           *)

Descends == pc' \in {"idle"} \cup Errors \/ Below(Rank', Rank)

LEMMA Closer ==
  ASSUME \/ Stage' < Stage
         \/ /\ Stage' = Stage
            /\ \/ Supply' < Supply
               \/ /\ Supply' = Supply
                  /\ \/ Place' < Place
                     \/ /\ Place' = Place
                        /\ \/ Work' < Work
                           \/ Work' = Work /\ Rest' < Rest
  PROVE  Descends
<1> DEFINE r == Rank'
           s == Rank
<1>1. /\ r[1] = Stage' /\ r[2] = Supply' /\ r[3] = Place' /\ r[4] = Work' /\ r[5] = Rest'
      /\ s[1] = Stage /\ s[2] = Supply /\ s[3] = Place /\ s[4] = Work /\ s[5] = Rest
  BY DEF Rank
<1> HIDE DEF r, s
<1>2. Below(r, s)
  <2>1. CASE r[1] < s[1]
    BY <2>1 DEF Below
  <2>2. CASE r[1] = s[1] /\ r[2] < s[2]
    <3>1. r[2] < s[2] /\ \A j \in 1 .. 2 - 1 : r[j] = s[j]
      BY <2>2
    <3> QED BY <3>1 DEF Below
  <2>3. CASE r[1] = s[1] /\ r[2] = s[2] /\ r[3] < s[3]
    <3>1. r[3] < s[3] /\ \A j \in 1 .. 3 - 1 : r[j] = s[j]
      <4>1. \A j \in 1 .. 3 - 1 : j = 1 \/ j = 2
        OBVIOUS
      <4> QED BY <2>3, <4>1
    <3> QED BY <3>1 DEF Below
  <2>4. CASE r[1] = s[1] /\ r[2] = s[2] /\ r[3] = s[3] /\ r[4] < s[4]
    <3>1. r[4] < s[4] /\ \A j \in 1 .. 4 - 1 : r[j] = s[j]
      <4>1. \A j \in 1 .. 4 - 1 : j = 1 \/ j = 2 \/ j = 3
        OBVIOUS
      <4> QED BY <2>4, <4>1
    <3> QED BY <3>1 DEF Below
  <2>5. CASE r[1] = s[1] /\ r[2] = s[2] /\ r[3] = s[3] /\ r[4] = s[4] /\ r[5] < s[5]
    <3>1. r[5] < s[5] /\ \A j \in 1 .. 5 - 1 : r[j] = s[j]
      <4>1. \A j \in 1 .. 5 - 1 : j = 1 \/ j = 2 \/ j = 3 \/ j = 4
        OBVIOUS
      <4> QED BY <2>5, <4>1
    <3> QED BY <3>1 DEF Below
  <2> QED BY <1>1, <2>1, <2>2, <2>3, <2>4, <2>5
<1> QED BY <1>2 DEF Descends, r, s

(* A step within a round uses up candidates or leaves them as they are.          *)
LEMMA SupplyLeft ==
  ASSUME Inv, Stage' = Stage, Stage # 6, cands' \subseteq cands, CLCSet \subseteq CLCSet'
  PROVE  /\ Supply' <= Supply /\ Supply \in Nat /\ Supply' \in Nat
         /\ Stage \in {2, 3} /\ cands' \ CLCSet' # cands \ CLCSet => Supply' < Supply
<1>1. cands' \ CLCSet' \in SUBSET (cands \ CLCSet)
  OBVIOUS
<1>2. IsFiniteSet(cands \ CLCSet)
  BY Finite
<1> DEFINE S == cands \ CLCSet
           T == cands' \ CLCSet'
<1>3. /\ Cardinality(T) \in Nat /\ Cardinality(S) \in Nat /\ Cardinality(T) <= Cardinality(S)
      /\ T # S => Cardinality(T) < Cardinality(S)
  BY <1>1, <1>2, FewerLeft
<1>4. /\ Supply = IF Stage \in {2, 3} THEN Cardinality(S) ELSE 0
      /\ Supply' = IF Stage \in {2, 3} THEN Cardinality(T) ELSE 0
  BY DEF Supply
<1> HIDE DEF S, T
<1> QED BY <1>3, <1>4 DEF S, T

LEMMA SupplyKept ==
  ASSUME Stage' = Stage, UNCHANGED <<clcs, cands>>
  PROVE  Supply' = Supply
BY DEF Supply, CLCSet

--------------------------------------------------------------------------------
(* One step of each loop.                                                        *)

LEMMA GrowDescends ==
  ASSUME Inv, LoopInv, NEW v \in Node, GrowSkip(v) \/ GrowFlow(v) \/ GrowPath(v)
  PROVE  Descends
<1>1. pc = "grow" /\ pc' = "grow" /\ ret' = ret /\ cands' = cands
  BY DEF GrowSkip, GrowFlow, GrowPath, Growing
<1>2. Stage' = Stage /\ Stage \in {2, 3, 5} /\ Place' = Place
  BY <1>1 DEF Stage, Place, LoopInv
<1>3. CLCSet \subseteq CLCSet'
  <2>1. CASE UNCHANGED clcs
    BY <2>1 DEF CLCSet
  <2>2. ASSUME NEW w \in Node, AddCLCcontrol(v, w), v \in Cand PROVE CLCSet \subseteq CLCSet'
    <3>1. clcs \in Seq(Cand) /\ CLCSet = Elems(clcs) /\ CLCSet' = Elems(clcs')
      BY DEF Inv, PlaceTypes, CLCSet, Elems
    <3>2. Elems(Append(clcs, v)) = Elems(clcs) \cup {v}
      BY <2>2, <3>1, AppendElems
    <3> QED BY <2>2, <3>1, <3>2 DEF AddCLCcontrol
  <2> QED BY <2>1, <2>2 DEF GrowSkip, GrowFlow, GrowPath, FirstPaths, Inv, AlgTypes, PathRecord
<1>4. Supply' <= Supply /\ Supply \in Nat /\ Supply' \in Nat
  BY <1>1, <1>2, <1>3, SupplyLeft
<1>5. /\ Work = Cardinality(paths) /\ Work' = Cardinality(paths')
      /\ Rest = Cardinality(Pairs(pf)) /\ Rest' = Cardinality(Pairs(pf'))
  BY <1>1 DEF Work, Rest, Pairs
<1>6. \/ paths' \subseteq paths /\ paths' # paths
      \/ paths' = paths /\ Pairs(pf') \subseteq Pairs(pf) /\ Pairs(pf') # Pairs(pf)
  <2>1. pf \in [Node -> SUBSET Flow]
    BY DEF Inv, AlgTypes
  <2>2. CASE GrowSkip(v)
    <3>1. pf' = [pf EXCEPT ![v] = {}] /\ paths' = {p \in paths : p.src # v}
      BY <2>2 DEF GrowSkip
    <3>2. CASE \E p \in paths : p.src = v
      BY <3>1, <3>2
    <3>3. CASE ~ \E p \in paths : p.src = v
      <4>1. paths' = paths /\ pf[v] # {}
        BY <2>2, <3>1, <3>3 DEF GrowSkip, Growing, Current, FirstPaths
      <4>2. PICK f \in pf[v] : TRUE
        BY <4>1
      <4>3. <<v, f>> \in Pairs(pf) /\ <<v, f>> \notin Pairs(pf')
        BY <2>1, <3>1, <4>2 DEF Pairs
      <4>4. Pairs(pf') \subseteq Pairs(pf)
        BY <2>1, <3>1 DEF Pairs
      <4> QED BY <4>1, <4>3, <4>4
    <3> QED BY <3>2, <3>3
  <2>3. CASE GrowFlow(v)
    <3>1. PICK f \in pf[v] : pf' = [u \in Node |-> pf[u] \ {f}] \/ pf' = [pf EXCEPT ![v] = @ \ {f}]
      BY <2>3 DEF GrowFlow, MostDemanding
    <3>2. <<v, f>> \in Pairs(pf) /\ <<v, f>> \notin Pairs(pf')
      BY <2>1, <3>1 DEF Pairs
    <3>3. Pairs(pf') \subseteq Pairs(pf)
      BY <2>1, <3>1 DEF Pairs
    <3> QED BY <2>3, <3>2, <3>3 DEF GrowFlow
  <2>4. CASE GrowPath(v)
    BY <2>4 DEF GrowPath, FirstPaths
  <2> QED BY <2>2, <2>3, <2>4
<1>7. IsFiniteSet(paths) /\ IsFiniteSet(Pairs(pf))
  BY Finite DEF LoopInv
<1>8. Work' < Work \/ (Work' = Work /\ Rest' < Rest)
  BY <1>5, <1>6, <1>7, FewerLeft
<1> QED BY <1>2, <1>4, <1>8, Closer

LEMMA DropDescends ==
  ASSUME Inv, LoopInv, (\E f \in Flow : DropFlow(f)) \/ \E w \in Node : DropControl(w)
  PROVE  Descends
<1>1. /\ pc = "drop" /\ pc' = "drop" /\ ret' = ret /\ cur' = cur /\ UNCHANGED <<clcs, cands>>
      /\ cur \in Cand /\ cur \in Node /\ cur # None
  BY SetsAssumption DEF DropFlow, DropControl, RemCLCcontrol, Inv, AlgLinks
<1>2. Stage' = Stage /\ Place' = Place
  BY <1>1 DEF Stage, Place
<1>3. /\ Work = Cardinality(Satisfies(cur)) /\ Work' = Cardinality(Satisfies(cur)')
      /\ Rest = Cardinality(control[cur]) /\ Rest' = Cardinality(control'[cur])
  BY <1>1 DEF Work, Rest
<1>4. IsFiniteSet(Satisfies(cur)) /\ IsFiniteSet(control[cur])
  BY <1>1, Finite
<1>5. Work' < Work \/ (Work' = Work /\ Rest' < Rest)
  <2>1. ASSUME NEW f \in Flow, DropFlow(f) PROVE Work' < Work
    <3>1. f \in Satisfies(cur) /\ flowCLC' = [flowCLC EXCEPT ![f] = None]
      BY <2>1 DEF DropFlow, RemFlowSat
    <3>2. Satisfies(cur)' \in SUBSET Satisfies(cur) /\ f \notin Satisfies(cur)'
      BY <1>1, <3>1 DEF Satisfies, Inv, PlaceTypes
    <3> QED BY <1>3, <1>4, <3>1, <3>2, FewerLeft
  <2>2. ASSUME NEW w \in Node, DropControl(w) PROVE Work' = Work /\ Rest' < Rest
    <3>1. w \in control[cur] /\ control'[cur] = control[cur] \ {w} /\ flowCLC' = flowCLC
      BY <1>1, <2>2 DEF DropControl, RemCLCcontrol, Inv, PlaceTypes
    <3>2. Satisfies(cur)' = Satisfies(cur)
      BY <1>1, <3>1 DEF Satisfies
    <3>3. control'[cur] \in SUBSET control[cur] /\ control'[cur] # control[cur]
      BY <3>1
    <3> QED BY <1>3, <1>4, <3>2, <3>3, FewerLeft
  <2> QED BY <2>1, <2>2
<1>6. Supply' = Supply
  BY <1>1, <1>2, SupplyKept
<1> QED BY <1>2, <1>5, <1>6, Closer

LEMMA DropDoneDescends == ASSUME Inv, LoopInv, DropDone PROVE Descends
<1>1. pc = "drop" /\ pc' = ret /\ ret \in {"lowload", "cleanup"}
  BY DEF DropDone, Return, LoopInv
<1>2. CASE ret = "cleanup"
  <2>1. Stage = 1 /\ Stage' = 0
    BY <1>1, <1>2 DEF Stage
  <2> QED BY <2>1, Closer
<1>3. CASE ret = "lowload"
  <2>1. Stage = 6 /\ Stage' = 6
    <3>1. pc = "drop" /\ ret = "lowload" /\ pc' = "lowload"
      BY <1>1, <1>3
    <3>2. Stage = 6
      BY <3>1 DEF Stage
    <3>3. Stage' = 6
      BY <3>1 DEF Stage
    <3> QED BY <3>2, <3>3
  <2>2. Supply = Len(clcs) /\ Supply' = Len(clcs')
    BY <2>1 DEF Supply
  <2>3. PICK i \in DOMAIN clcs : IsWithout(clcs', clcs, i)
    BY DEF DropDone, IsWithout
  <2>4. clcs \in Seq(Cand) /\ Len(clcs) \in Nat /\ DOMAIN clcs = 1 .. Len(clcs)
    BY LenProperties DEF Inv, PlaceTypes
  <2>5. clcs' \in Seq(Cand)
    BY <2>3, <2>4, RemoveElems
  <2>6. DOMAIN clcs' = 1 .. Len(clcs')  /\ Len(clcs') \in Nat /\ DOMAIN clcs' = 1 .. Len(clcs) - 1
    BY <2>3, <2>5, LenProperties DEF IsWithout
  <2>7. Len(clcs') < Len(clcs)
    <3>1. Len(clcs) >= 1
      BY <2>3, <2>4
    <3>2. Len(clcs) \notin DOMAIN clcs'
      BY <2>4, <2>6
    <3> QED BY <2>4, <2>6, <3>1, <3>2
  <2>8. Stage' = Stage /\ Supply' < Supply
    BY <2>1, <2>2, <2>7
  <2> QED BY <2>8, Closer
<1> QED BY <1>1, <1>2, <1>3

LEMMA CleanupDescends == ASSUME Inv, NEW v \in Node, CleanupRemove(v) PROVE Descends
<1>1. /\ pc = "cleanup" /\ pc' = "cleanup"
      /\ Work = Cardinality(Pairs(clcsOf)) /\ Work' = Cardinality(Pairs(clcsOf'))
  BY DEF CleanupRemove, Work, Pairs
<1>2. Stage = 0 /\ Stage' = 0 /\ Supply' = Supply /\ Place' = Place
  BY <1>1 DEF Stage, Supply, Place
<1>3. PICK c \in Cand : c \in clcsOf[v] /\ clcsOf' = [clcsOf EXCEPT ![v] = @ \ {c}]
  BY DEF CleanupRemove, Useless, RemCLCcontrol
<1>4. clcsOf \in [Node -> SUBSET Node] /\ c \in Node
  BY SetsAssumption DEF Inv, PlaceTypes
<1>5. <<v, c>> \in Pairs(clcsOf) /\ <<v, c>> \notin Pairs(clcsOf')
  BY <1>3, <1>4 DEF Pairs
<1>6. Pairs(clcsOf') \subseteq Pairs(clcsOf)
  BY <1>3, <1>4 DEF Pairs
<1>7. IsFiniteSet(Pairs(clcsOf))
  BY Finite
<1>8. Work' < Work
  BY <1>1, <1>5, <1>6, <1>7, FewerLeft
<1> QED BY <1>2, <1>8, Closer

LEMMA FindDescends == ASSUME Inv, LoopInv, NEW v \in Node, FindCRC(v) PROVE Descends
<1>1. /\ pc = "find" /\ v \in todo /\ ret' = ret /\ UNCHANGED <<clcs, cands>>
      /\ ret \in {"nodesAgain", "judge"}
      /\ pc' = "found" \/ (pc' = "find" /\ todo' = todo \ {v})
  BY DEF FindCRC, FirstCand, LoopInv
<1>2. Stage' = Stage
  BY <1>1 DEF Stage
<1>3. Supply' = Supply
  BY <1>1, <1>2, SupplyKept
<1>4. CASE pc' = "found"
  <2>1. Place = 2 /\ Place' = 1
    BY <1>1, <1>4 DEF Place
  <2> QED BY <1>2, <1>3, <2>1, Closer
<1>5. CASE pc' = "find" /\ todo' = todo \ {v}
  <2>1. Place' = Place /\ Work = Cardinality(todo) /\ Work' = Cardinality(todo')
    BY <1>1, <1>5 DEF Place, Work
  <2>2. IsFiniteSet(todo) /\ todo' \in SUBSET todo /\ todo' # todo
    BY <1>1, <1>5, Finite
  <2>3. Work' < Work
    BY <2>1, <2>2, FewerLeft
  <2> QED BY <1>2, <1>3, <2>1, <2>3, Closer
<1> QED BY <1>1, <1>4, <1>5

(* A round for a flow that finds no CRC is in vain, because no flow was served   *)
(* since it began; one for nodes is the last if it is not futile.                *)
LEMMA FindNoneDescends == ASSUME Inv, LoopInv, FindNone, ~Futile PROVE Descends
<1>1. /\ pc = "find" /\ todo = {} /\ ret \in {"judge", "nodesAgain"} /\ pc' = ret
      /\ UNCHANGED <<clcs, cands, sat0, flows, flowCLC>>
  BY DEF FindNone, Return, LoopInv
<1>2. Stage' = Stage
  BY <1>1 DEF Stage
<1>3. Supply' = Supply
  BY <1>1, <1>2, SupplyKept
<1>4. Place = 2
  BY <1>1 DEF Place
<1>5. Place' = 0
  <2>1. CASE ret = "judge"
    <3>1. sat0 = Cardinality(Satisfied)
      BY <1>1, <2>1 DEF LoopInv
    <3>2. RoundInVain'
      BY <1>1, <3>1 DEF RoundInVain, Satisfied
    <3> QED BY <1>1, <2>1, <3>2 DEF Place
  <2>2. CASE ret = "nodesAgain"
    <3>1. Len(clcs) = Cardinality(cands)
      BY <1>1, <2>2 DEF LoopInv, Futile
    <3>2. NodesDone'
      BY <1>1, <2>2, <3>1 DEF NodesDone
    <3> QED BY <1>1, <2>2, <3>2 DEF Place
  <2> QED BY <1>1, <2>1, <2>2
<1> QED BY <1>2, <1>3, <1>4, <1>5, Closer

(* No step leaves the futile loop: it asks the same candidates again.            *)
LEMMA FutileStays == ASSUME Inv, LoopInv, Futile, Next PROVE Futile'
<1>1. /\ pc \in {"find", "nodesAgain"} /\ ~NodesDone /\ ~NoCandidate
      /\ \A v \in FreeCands, i \in Cand : ~FirstHost(i, v)
      /\ pc = "find" => ret = "nodesAgain" /\ todo \subseteq FreeCands
  BY DEF Futile, NodesDone
<1>2. \A v \in Node, i \in Cand : pc = "find" => ~(FirstCand(v) /\ FirstHost(i, v))
  BY <1>1 DEF FirstCand
<1>3. ~Crash
  BY <1>1, <1>2 DEF Crash, DividesByZero, ReadsEmptyList, Growing
<1>4. FindNone \/ FindForNodes \/ \E v \in Node : FindCRC(v)
  <2>1. ~Driver
    BY <1>1 DEF Driver, AddFlow, RemFlow, LowLoad
  <2>2. ~(CallGreedy \/ EnterNodes \/ LeaveNodes \/ FindForFlows \/ JudgeRound \/ AddNewCLC)
    BY <1>1 DEF CallGreedy, EnterNodes, LeaveNodes, FindForFlows, JudgeRound, AddNewCLC
  <2>3. ~(GrowDone \/ DropDone \/ CleanupDone \/ SingleKnown \/ SingleSearch \/ ReachDone
          \/ SearchDone)
    BY <1>1 DEF GrowDone, DropDone, CleanupDone, SingleKnown, SingleSearch, ReachDone, SearchDone
  <2>4. \A v \in Node : ~(GrowSkip(v) \/ GrowFlow(v) \/ GrowPath(v) \/ DropControl(v)
                          \/ CleanupRemove(v) \/ SearchNext(v) \/ Reach(v))
    BY <1>1 DEF GrowSkip, GrowFlow, GrowPath, Growing, DropControl, CleanupRemove, SearchNext, Reach
  <2>5. \A f \in Flow : ~DropFlow(f)
    BY <1>1 DEF DropFlow
  <2> QED BY <1>3, <2>1, <2>2, <2>3, <2>4, <2>5 DEF Next, Greedy
<1>5. UNCHANGED <<crcs, cands, clcs, bRem, pRem, controlled>>
  BY <1>1, <1>2, <1>4 DEF FindNone, FindForNodes, FindCRC
<1>6. UNCHANGED <<CLCSet, FreeCands>> /\ \A i, v : FirstHost(i, v)' <=> FirstHost(i, v)
  BY <1>5, HostsKept
<1>7. /\ pc' = "nodesAgain" \/ (pc' = "find" /\ ret' = "nodesAgain" /\ todo' \subseteq FreeCands)
      /\ option' = option \/ FindForNodes
  BY <1>1, <1>2, <1>4 DEF FindNone, FindForNodes, BeginFind, FindCRC, Return
<1>8. ~NoCandidate'
  BY <1>1, <1>6, <1>7 DEF NoCandidate, FindForNodes, BeginFind, EffectiveOption
<1> QED BY <1>5, <1>6, <1>7, <1>8 DEF Futile

(* The candidate of a round leaves the candidates without CLC: it becomes one,   *)
(* or it is struck off.                                                          *)
LEMMA AddNewCLCDescends == ASSUME Inv, LoopInv, AddNewCLC PROVE Descends
<1>1. /\ pc = "found" /\ pc' = "grow" /\ ret' = ret /\ ret \in {"nodesAgain", "judge"}
      /\ cur \in cands \ CLCSet /\ cur \in Cand
  BY DEF AddNewCLC, LoopInv, Inv, AlgTypes
<1>2. Stage' = Stage /\ Stage \in {2, 3}
  BY <1>1 DEF Stage
<1>3. /\ cands' \subseteq cands /\ CLCSet \subseteq CLCSet'
      /\ cur \notin cands' \ CLCSet'
  <2>1. CASE cands' = cands \ {cur} /\ UNCHANGED clcVars
    BY <2>1 DEF CLCSet
  <2>2. CASE UNCHANGED cands /\ AddCLCcontrol(cur, cur)
    <3>1. clcs \in Seq(Cand) /\ CLCSet = Elems(clcs) /\ CLCSet' = Elems(clcs')
      BY DEF Inv, PlaceTypes, CLCSet, Elems
    <3>2. Elems(Append(clcs, cur)) = Elems(clcs) \cup {cur}
      BY <1>1, <3>1, AppendElems
    <3>3. clcs' = Append(clcs, cur)
      BY <1>1, <2>2 DEF AddCLCcontrol
    <3> QED BY <2>2, <3>1, <3>2, <3>3
  <2> QED BY <2>1, <2>2 DEF AddNewCLC
<1>4. Supply' < Supply
  BY <1>1, <1>2, <1>3, SupplyLeft
<1> QED BY <1>2, <1>4, Closer

LEMMA RoundsDescend ==
  ASSUME Inv, LoopInv, pc # "idle",
         \/ CallGreedy \/ EnterNodes \/ FindForNodes \/ LeaveNodes \/ FindForFlows \/ JudgeRound
         \/ GrowDone \/ \E c \in Cand : LowLoad(c)
  PROVE  Descends
<1>1. CASE CallGreedy \/ EnterNodes \/ LeaveNodes
  <2>1. \/ pc = "lowload" /\ (pc' = "enter" \/ (pc' = "grow" /\ ret' = "enter"))
        \/ pc = "enter" /\ pc' = "nodes"
        \/ pc \in {"nodes", "nodesAgain"} /\ pc' \in {"flows", "cleanup"}
    BY <1>1 DEF CallGreedy, EnterNodes, LeaveNodes
  <2>2. Stage' < Stage
    BY <2>1 DEF Stage
  <2> QED BY <2>2, Closer
<1>2. CASE FindForNodes \/ FindForFlows \/ GrowDone \/ JudgeRound \/ \E c \in Cand : LowLoad(c)
  <2>1. UNCHANGED <<clcs, cands>>
    BY <1>2 DEF FindForNodes, FindForFlows, GrowDone, JudgeRound, LowLoad
  <2>2. Stage' < Stage \/ (Stage' = Stage /\ Place' < Place)
    <3>1. CASE FindForNodes
      <4>1. pc \in {"nodes", "nodesAgain"} /\ pc' = "find" /\ ret' = "nodesAgain" /\ ~NodesDone
        BY <3>1 DEF FindForNodes, BeginFind
      <4>2. Place = 3 /\ Place' = 2
        BY <4>1 DEF Place
      <4> QED BY <4>1, <4>2 DEF Stage
    <3>2. CASE FindForFlows
      <4>1. pc = "flows" /\ (pc' = "cleanup" \/ (pc' = "find" /\ ret' = "judge"))
        BY <3>2 DEF FindForFlows, BeginFind
      <4> QED BY <4>1 DEF Stage, Place
    <3>3. CASE GrowDone
      <4>1. pc = "grow" /\ pc' = ret /\ ret \in {"enter", "nodesAgain", "judge"}
        BY <3>3 DEF GrowDone, Return, LoopInv
      <4> QED BY <4>1 DEF Stage, Place
    <3>4. CASE JudgeRound
      <4>1. /\ pc = "judge"
            /\ \/ pc' = "drop" /\ ret' = "cleanup"
               \/ pc' = "cleanup"
               \/ pc' = "flows" /\ ~ RoundInVain
        BY <3>4 DEF JudgeRound
      <4> QED BY <4>1 DEF Stage, Place
    <3>5. CASE \E c \in Cand : LowLoad(c)
      <4>1. pc = "lowload" /\ pc' = "drop" /\ ret' = "lowload"
        BY <3>5 DEF LowLoad
      <4> QED BY <4>1 DEF Stage, Place
    <3> QED BY <1>2, <3>1, <3>2, <3>3, <3>4, <3>5
  <2>3. Stage' = Stage => Supply' = Supply
    BY <2>1, SupplyKept
  <2> QED BY <2>2, <2>3, Closer
<1> QED BY <1>1, <1>2

LEMMA SearchDescends ==
  ASSUME Inv, SingleSearch \/ ReachDone \/ \E w \in Node : SearchNext(w) \/ Reach(w)
  PROVE  Descends
<1>1. pc \in {"single", "search", "reach"} /\ pc' \in {"search", "reach"}
  BY DEF SingleSearch, ReachDone, SearchNext, Reach
<1>2. Stage = 0 /\ Stage' = 0 /\ Supply = 0 /\ Supply' = 0
  BY <1>1 DEF Stage, Supply
<1>3. IsFiniteSet(todo) /\ IsFiniteSet(rest)
  BY Finite
<1>4. CASE SingleSearch
  <2>1. Place = 1 /\ Place' = 0
    BY <1>4 DEF SingleSearch, Place
  <2> QED BY <1>2, <2>1, Closer
<1>5. ASSUME NEW w \in Node, SearchNext(w) PROVE Descends
  <2>1. pc = "search" /\ pc' = "reach" /\ w \in todo /\ todo' = todo \ {w}
    BY <1>5 DEF SearchNext
  <2>2. Place' = Place /\ Work = Cardinality(todo) /\ Work' = Cardinality(todo')
    BY <2>1 DEF Place, Work
  <2>3. Work' < Work
    BY <1>3, <2>1, <2>2, FewerLeft
  <2> QED BY <1>2, <2>2, <2>3, Closer
<1>6. CASE ReachDone \/ \E w \in Node : Reach(w)
  <2>1. pc = "reach" /\ todo' = todo
    BY <1>6 DEF ReachDone, Reach
  <2>2. Place' = Place /\ Work' = Work /\ Rest = 1 + Cardinality(rest)
    BY <1>1, <2>1 DEF Place, Work, Rest
  <2>3. Cardinality(rest) \in Nat
    BY <1>3, FS_CardinalityType
  <2>4. Rest' < Rest
    <3>1. CASE pc' = "search"
      <4>1. Rest' = 0
        BY <3>1 DEF Rest
      <4> QED BY <2>2, <2>3, <4>1
    <3>2. CASE pc' = "reach"
      <4>1. PICK w \in rest : rest' = rest \ {w}
        BY <1>6, <3>2 DEF ReachDone, Reach
      <4>2. Rest' = 1 + Cardinality(rest') /\ Cardinality(rest') < Cardinality(rest)
            /\ Cardinality(rest') \in Nat
        BY <1>3, <3>2, <4>1, FewerLeft DEF Rest
      <4> QED BY <2>2, <2>3, <4>2
    <3> QED BY <1>1, <3>1, <3>2
  <2> QED BY <1>2, <2>2, <2>4, Closer
<1> QED BY <1>4, <1>5, <1>6

LEMMA Returned ==
  ASSUME CleanupDone \/ SingleKnown \/ SearchDone \/ Crash
  PROVE  Descends
BY DEF CleanupDone, SingleKnown, SearchDone, Crash, Return, Descends, Errors

(* The parts of the rank are natural numbers, so the order is well founded.      *)
LEMMA RankType == ASSUME Inv, LoopInv PROVE Rank \in Nat \X Nat \X Nat \X Nat \X Nat
<1>1. Stage \in Nat
  BY DEF Stage
<1>2. Supply \in Nat
  <2>1. Cardinality(cands \ CLCSet) \in Nat
    BY Finite, FS_CardinalityType
  <2>2. Len(clcs) \in Nat
    BY LenProperties DEF Inv, PlaceTypes
  <2> QED BY <2>1, <2>2 DEF Supply
<1>3. Place \in Nat
  BY DEF Place
<1>4. Work \in Nat
  <2>1. /\ Cardinality(todo) \in Nat /\ Cardinality(paths) \in Nat
        /\ Cardinality(Satisfies(cur)) \in Nat /\ Cardinality(Pairs(clcsOf)) \in Nat
    BY Finite, FS_CardinalityType DEF LoopInv
  <2> QED BY <2>1 DEF Work
<1>5. Rest \in Nat
  <2>1. Cardinality(rest) \in Nat /\ Cardinality(Pairs(pf)) \in Nat
    BY Finite, FS_CardinalityType
  <2>2. pc = "drop" => Cardinality(control[cur]) \in Nat
    BY Finite, FS_CardinalityType, SetsAssumption DEF Inv, AlgLinks
  <2> QED BY <2>1, <2>2 DEF Rest
<1> QED BY <1>1, <1>2, <1>3, <1>4, <1>5 DEF Rank

(* Every step inside a call brings it closer to its return: each loop of the     *)
(* heuristic uses something up, whatever the network, the flows and the          *)
(* capacities, and whatever each check decides.  The exception is the loop for   *)
(* uncontrolled nodes once no candidate can be given a CRC, and that is for ever. *)
THEOREM CallsGetCloser == Spec => CallsDescend /\ [](Rank \in Nat \X Nat \X Nat \X Nat \X Nat)
<1> DEFINE Down == pc \notin {"idle"} \cup Errors =>
                     IF Futile THEN Futile'
                     ELSE pc' \in {"idle"} \cup Errors \/ Below(Rank', Rank)
<1>1. ASSUME Inv, LoopInv, Next PROVE Down
  <2> SUFFICES ASSUME pc \notin {"idle"} \cup Errors, ~Futile PROVE Descends
    BY <1>1, FutileStays DEF Descends
  <2>1. pc # "idle"
    OBVIOUS
  <2>2. CASE Driver
    <3>1. \E c \in Cand : LowLoad(c)
      BY <2>1, <2>2 DEF Driver, AddFlow, RemFlow
    <3> QED BY <1>1, <2>1, <3>1, RoundsDescend
  <2>3. CASE Greedy
    <3>1. CASE \/ CallGreedy \/ EnterNodes \/ FindForNodes \/ LeaveNodes \/ FindForFlows
               \/ JudgeRound \/ GrowDone
      BY <1>1, <2>1, <3>1, RoundsDescend
    <3>2. CASE FindNone
      BY <1>1, <3>2, FindNoneDescends
    <3>3. CASE AddNewCLC \/ DropDone
      BY <1>1, <3>3, AddNewCLCDescends, DropDoneDescends
    <3>4. CASE CleanupDone \/ SingleKnown \/ SearchDone \/ Crash
      BY <3>4, Returned
    <3>5. CASE SingleSearch \/ ReachDone \/ \E v \in Node : SearchNext(v) \/ Reach(v)
      BY <1>1, <3>5, SearchDescends
    <3>6. ASSUME NEW v \in Node, FindCRC(v) \/ GrowSkip(v) \/ GrowFlow(v) \/ GrowPath(v)
          PROVE  Descends
      BY <1>1, <3>6, FindDescends, GrowDescends
    <3>7. CASE \/ \E f \in Flow : DropFlow(f)
               \/ \E v \in Node : DropControl(v) \/ CleanupRemove(v)
      BY <1>1, <3>7, DropDescends, CleanupDescends
    <3> QED BY <2>3, <3>1, <3>2, <3>3, <3>4, <3>5, <3>6, <3>7 DEF Greedy
  <2> QED BY <1>1, <2>2, <2>3 DEF Next
<1>2. Inv /\ LoopInv /\ [Next]_vars => [Down]_vars
  BY <1>1
<1>3. Inv /\ LoopInv /\ [Next]_vars => LoopInv'
  BY LoopStep
<1>4. Init => LoopInv
  BY LoopInit
<1>5. Inv /\ LoopInv => Rank \in Nat \X Nat \X Nat \X Nat \X Nat
  BY RankType
<1> QED BY <1>2, <1>3, <1>4, <1>5, Invariance, PTL DEF Spec, CallsDescend
================================================================================
