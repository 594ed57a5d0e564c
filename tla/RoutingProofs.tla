----------------------------- MODULE RoutingProofs -----------------------------
(* The flow tables for any network, any paths, any controls and any number of    *)
(* waiting requests, with requests that get lost and switches that connect late: *)
(* types, the agreement of the tables with RoutingPaths, and what runs is not    *)
(* disturbed.                                                                    *)
EXTENDS Routing, SequenceTheorems, TLAPS

(* No two nodes may control each other.  Without it running traffic is           *)
(* disturbed: the run with Routing_mutual.cfg has the counterexample.            *)
NoMutualControl == \A p, q \in Pair : ~(p[1] = q[2] /\ p[2] = q[1])

--------------------------------------------------------------------------------
(* The entries of a path.                                                        *)

LEMMA PairType ==
    ASSUME NEW p \in Pair
    PROVE  /\ p = <<p[1], p[2]>> /\ p[1] \in Node /\ p[2] \in Node /\ p[1] # p[2]
           /\ PathOf[p] \in Seq(Node) /\ Len(PathOf[p]) > 1
           /\ PathOf[p][1] = p[1] /\ PathOf[p][Len(PathOf[p])] = p[2]
BY PairAssumption, PathAssumption

LEMMA RulesType ==
    ASSUME NEW p \in Pair, NEW s \in OnPath(p)
    PROVE  Rules(p, s) \subseteq Rule
<1>1. /\ p[1] \in Node /\ p[2] \in Node
      /\ PathOf[p] \in Seq(Node) /\ Len(PathOf[p]) \in Nat
      /\ PathOf[p][1] = p[1] /\ PathOf[p][Len(PathOf[p])] = p[2]
      /\ \A i \in 1 .. Len(PathOf[p]) : PathOf[p][i] \in Node
      /\ DOMAIN PathOf[p] = 1 .. Len(PathOf[p])
  BY PairType
<1>2. Index(p, s) \in 1 .. Len(PathOf[p]) /\ PathOf[p][Index(p, s)] = s
  BY <1>1 DEF Index, OnPath
<1>3. PortBack(p, s) \in Port
  <2>1. CASE s # p[1]
    BY <1>1, <1>2, <2>1 DEF PortBack, Port
  <2> QED
    BY <2>1 DEF PortBack, Port
<1>4. PortOn(p, s) \in Port
  <2>1. CASE s # p[2]
    BY <1>1, <1>2, <2>1 DEF PortOn, Port
  <2> QED
    BY <2>1 DEF PortOn, Port
<1> QED
  BY <1>1, <1>3, <1>4 DEF Rules, Outward, Inward, Rule, Port

(* Entries of different paths never have the same match.                         *)
LEMMA RulesApart ==
    ASSUME NoMutualControl, NEW p \in Pair, NEW q \in Pair, p # q, NEW s,
           NEW r \in Rules(p, s), NEW x \in Rules(q, s)
    PROVE  ~SameMatch(r, x)
<1>1. (r.src = p[1] /\ r.dst = p[2]) \/ (r.src = p[2] /\ r.dst = p[1])
  BY DEF Rules, Outward, Inward
<1>2. (x.src = q[1] /\ x.dst = q[2]) \/ (x.src = q[2] /\ x.dst = q[1])
  BY DEF Rules, Outward, Inward
<1>3. p = <<p[1], p[2]>> /\ q = <<q[1], q[2]>>
  BY PairType
<1> QED
  BY <1>1, <1>2, <1>3 DEF SameMatch, NoMutualControl

LEMMA AddOwn ==
    ASSUME NEW T, NEW R
    PROVE  R \subseteq AddFlow(T, R) /\ AddFlow(T, R) \subseteq T \cup R
BY DEF AddFlow, DelFlow

LEMMA DelOwn ==
    ASSUME NEW T, NEW R
    PROVE  R \cap DelFlow(T, R) = {} /\ DelFlow(T, R) \subseteq T
BY DEF DelFlow, SameMatch

(* A request about one path leaves the entries of every other path as they are.  *)
LEMMA OthersKeep ==
    ASSUME NoMutualControl, NEW p \in Pair, NEW q \in Pair, p # q, NEW s, NEW T
    PROVE  \A r \in Rules(p, s) : /\ r \in AddFlow(T, Rules(q, s)) <=> r \in T
                                  /\ r \in DelFlow(T, Rules(q, s)) <=> r \in T
<1> SUFFICES ASSUME NEW r \in Rules(p, s)
             PROVE  /\ r \in AddFlow(T, Rules(q, s)) <=> r \in T
                    /\ r \in DelFlow(T, Rules(q, s)) <=> r \in T
  OBVIOUS
<1>1. \A x \in Rules(q, s) : ~SameMatch(r, x)
  BY RulesApart
<1>2. r \notin Rules(q, s)
  BY <1>1 DEF SameMatch
<1> QED
  BY <1>1, <1>2 DEF AddFlow, DelFlow

--------------------------------------------------------------------------------
(* A switch carries out one path of the request at the head of its connection.   *)

Without(b, p) == [b EXCEPT !.pairs = @ \ {p}]
Remaining(c, p) ==
    IF Head(c).pairs = {p} THEN Tail(c) ELSE <<Without(Head(c), p)>> \o Tail(c)

LEMMA Prepended ==
    ASSUME NEW B, NEW r \in B, NEW t \in Seq(B)
    PROVE  /\ <<r>> \o t \in Seq(B) /\ Len(<<r>> \o t) = 1 + Len(t) /\ Len(t) \in Nat
           /\ (<<r>> \o t)[1] = r
           /\ \A i \in 2 .. Len(t) + 1 : (<<r>> \o t)[i] = t[i - 1]
<1> DEFINE h == <<r>>
<1>1. h \in Seq(B) /\ Len(h) = 1 /\ h[1] = r /\ Len(t) \in Nat
  OBVIOUS
<1> HIDE DEF h
<1>2. /\ h \o t \in Seq(B) /\ Len(h \o t) = 1 + Len(t)
      /\ \A i \in 1 .. 1 + Len(t) : (h \o t)[i] = IF i <= 1 THEN h[i] ELSE t[i - 1]
  <2>1. /\ h \o t \in Seq(B) /\ Len(h \o t) = Len(h) + Len(t)
        /\ \A i \in 1 .. Len(h) + Len(t) :
             (h \o t)[i] = IF i <= Len(h) THEN h[i] ELSE t[i - Len(h)]
    BY <1>1, ConcatProperties, Zenon
  <2> DEFINE g == h \o t
  <2> HIDE DEF g
  <2>2. /\ g \in Seq(B) /\ Len(g) = Len(h) + Len(t)
        /\ \A i \in 1 .. Len(h) + Len(t) : g[i] = IF i <= Len(h) THEN h[i] ELSE t[i - Len(h)]
    BY <2>1 DEF g
  <2>3. /\ g \in Seq(B) /\ Len(g) = 1 + Len(t)
        /\ \A i \in 1 .. 1 + Len(t) : g[i] = IF i <= 1 THEN h[i] ELSE t[i - 1]
    BY <1>1, <2>2
  <2> QED
    BY <2>3 DEF g
<1>3. (h \o t)[1] = r /\ \A i \in 2 .. Len(t) + 1 : (h \o t)[i] = t[i - 1]
  BY <1>1, <1>2
<1> QED
  BY <1>1, <1>2, <1>3 DEF h

LEMMA HeadServed ==
    ASSUME NEW c \in Seq(Batch), c # <<>>, NEW p, p \in Head(c).pairs, NEW d,
           d = Remaining(c, p)
    PROVE  /\ Len(c) \in Nat /\ Len(c) > 0 /\ p \in c[1].pairs /\ d \in Seq(Batch)
           /\ \/ /\ c[1].pairs = {p} /\ Len(d) = Len(c) - 1
                 /\ \A i \in 1 .. Len(d) : d[i] = c[i + 1]
              \/ /\ Len(d) = Len(c)
                 /\ d[1].op = c[1].op /\ d[1].pairs = c[1].pairs \ {p}
                 /\ \A i \in 2 .. Len(c) : d[i] = c[i]
<1> DEFINE rest == Without(Head(c), p)
           t == Tail(c)
<1>3. Len(c) \in Nat /\ Len(c) > 0 /\ Head(c) = c[1] /\ c[1] \in Batch
  OBVIOUS
<1>4. /\ t \in Seq(Batch) /\ Len(t) = Len(c) - 1
      /\ \A i \in 1 .. Len(c) - 1 : t[i] = c[i + 1]
  BY <1>3
<1>5. rest \in Batch /\ rest.op = c[1].op /\ rest.pairs = c[1].pairs \ {p}
  BY <1>3 DEF Batch, Without
<1>6. d = IF c[1].pairs = {p} THEN t ELSE <<rest>> \o t
  BY <1>3 DEF Remaining
<1> HIDE DEF rest, t
<1>7. CASE c[1].pairs = {p}
  BY <1>3, <1>4, <1>6, <1>7
<1>8. CASE c[1].pairs # {p}
  <2>1. d = <<rest>> \o t
    BY <1>6, <1>8
  <2>2. /\ <<rest>> \o t \in Seq(Batch) /\ Len(<<rest>> \o t) = 1 + Len(t)
        /\ (<<rest>> \o t)[1] = rest
        /\ \A i \in 2 .. Len(t) + 1 : (<<rest>> \o t)[i] = t[i - 1]
    <3>1. rest \in Batch /\ t \in Seq(Batch)
      BY <1>4, <1>5
    <3> QED
      BY <3>1, Prepended
  <2>3. /\ d \in Seq(Batch) /\ Len(d) = 1 + Len(t) /\ d[1] = rest
        /\ \A i \in 2 .. Len(t) + 1 : d[i] = t[i - 1]
    BY <2>1, <2>2, Zenon
  <2>4. Len(d) = Len(c)
    BY <1>3, <1>4, <2>3
  <2>5. ASSUME NEW i \in 2 .. Len(c)
        PROVE  d[i] = c[i]
    BY <1>3, <1>4, <2>3
  <2> QED
    BY <1>3, <1>5, <2>3, <2>4, <2>5
<1> QED
  BY <1>3, <1>7, <1>8

LEMMA Served ==
    ASSUME TypeOK, NEW s \in Node, NEW p \in Pair, Apply(s, p)
    PROVE  /\ chan[s] \in Seq(Batch) /\ Len(chan[s]) \in Nat /\ Len(chan[s]) > 0
           /\ p \in chan[s][1].pairs /\ chan'[s] \in Seq(Batch)
           /\ chan' \in [Node -> Seq(Batch)]
           /\ \A u \in Node \ {s} : chan'[u] = chan[u]
           /\ \/ /\ chan[s][1].pairs = {p} /\ Len(chan'[s]) = Len(chan[s]) - 1
                 /\ \A i \in 1 .. Len(chan'[s]) : chan'[s][i] = chan[s][i + 1]
              \/ /\ Len(chan'[s]) = Len(chan[s])
                 /\ chan'[s][1].op = chan[s][1].op
                 /\ chan'[s][1].pairs = chan[s][1].pairs \ {p}
                 /\ \A i \in 2 .. Len(chan[s]) : chan'[s][i] = chan[s][i]
<1> DEFINE e == Remaining(chan[s], p)
<1>1. chan[s] \in Seq(Batch) /\ chan[s] # <<>> /\ p \in Head(chan[s]).pairs
  BY DEF TypeOK, Apply
<1>2. chan' = [chan EXCEPT ![s] = e] /\ chan \in [Node -> Seq(Batch)]
  BY DEF TypeOK, Apply, Remaining, Without
<1> HIDE DEF e
<1>3. chan'[s] = e /\ (\A u \in Node \ {s} : chan'[u] = chan[u])
  BY <1>2
<1>4. PICK c, d : c = chan[s] /\ d = chan'[s]
  OBVIOUS
<1>5. c \in Seq(Batch) /\ c # <<>> /\ p \in Head(c).pairs /\ d = Remaining(c, p)
  BY <1>1, <1>3, <1>4 DEF e
<1>6. /\ Len(c) \in Nat /\ Len(c) > 0 /\ p \in c[1].pairs /\ d \in Seq(Batch)
      /\ \/ /\ c[1].pairs = {p} /\ Len(d) = Len(c) - 1
            /\ \A i \in 1 .. Len(d) : d[i] = c[i + 1]
         \/ /\ Len(d) = Len(c)
            /\ d[1].op = c[1].op /\ d[1].pairs = c[1].pairs \ {p}
            /\ \A i \in 2 .. Len(c) : d[i] = c[i]
  BY <1>5, HeadServed
<1>7. e \in Seq(Batch)
  BY <1>3, <1>4, <1>6
<1>8. chan' \in [Node -> Seq(Batch)]
  BY <1>2, <1>7
<1> QED
  BY <1>1, <1>3, <1>4, <1>6, <1>8

(* What that does to its table.                                                  *)
LEMMA ServedTable ==
    ASSUME TypeOK, NEW s \in Node, NEW p \in Pair, Apply(s, p)
    PROVE  /\ \A u \in Node \ {s} : table'[u] = table[u]
           /\ chan[s][1].op = "add" => table'[s] = AddFlow(table[s], Rules(p, s))
           /\ chan[s][1].op = "del" => table'[s] = DelFlow(table[s], Rules(p, s))
           /\ chan[s][1].op \in {"add", "del"}
<1>1. chan[s] \in Seq(Batch) /\ Len(chan[s]) > 0 /\ Head(chan[s]) = chan[s][1]
  BY Served
<1>2. chan[s][1] \in Batch
  BY <1>1
<1>3. chan[s][1].op \in {"add", "del"}
  BY <1>2 DEF Batch
<1> QED
  BY <1>1, <1>3 DEF Apply, TypeOK

--------------------------------------------------------------------------------
(* Types.  A switch is only ever sent entries of paths it is on, and holds no    *)
(* others.                                                                       *)
Own ==
    \A s \in Node :
        /\ \A i \in DOMAIN chan[s] : \A p \in chan[s][i].pairs : s \in OnPath(p)
        /\ \A r \in table[s] : \E p \in Pair : s \in OnPath(p) /\ r \in Rules(p, s)

(* A request is appended on every known switch that is on one of its paths.      *)
LEMMA SentBatches ==
    ASSUME TypeOK, NEW op \in {"add", "del"}, Send(op)
    PROVE  /\ chan' \in [Node -> Seq(Batch)]
           /\ \A s \in Node :
                \/ (s \notin known \/ BatchFor(s) = {}) /\ chan'[s] = chan[s]
                \/ /\ s \in known
                   /\ Len(chan[s]) \in Nat /\ Len(chan'[s]) = Len(chan[s]) + 1
                   /\ DOMAIN chan[s] = 1 .. Len(chan[s])
                   /\ DOMAIN chan'[s] = 1 .. Len(chan[s]) + 1
                   /\ \A i \in 1 .. Len(chan[s]) : chan'[s][i] = chan[s][i]
                   /\ chan'[s][Len(chan[s]) + 1].op = op
                   /\ chan'[s][Len(chan[s]) + 1].pairs = BatchFor(s)
<1> DEFINE b(s) == [op |-> op, pairs |-> BatchFor(s)]
<1>1. \A s \in Node : b(s) \in Batch /\ b(s).op = op /\ b(s).pairs = BatchFor(s)
  BY DEF TypeOK, Batch, BatchFor
<1>2. /\ chan' = [s \in Node |-> IF s \in known /\ BatchFor(s) # {}
                                THEN Append(chan[s], b(s)) ELSE chan[s]]
      /\ \A s \in Node : chan[s] \in Seq(Batch)
  BY DEF Send, TypeOK
<1> HIDE DEF b
<1>3. ASSUME NEW s \in Node
      PROVE  /\ Append(chan[s], b(s)) \in Seq(Batch)
             /\ Len(chan[s]) \in Nat /\ Len(Append(chan[s], b(s))) = Len(chan[s]) + 1
             /\ DOMAIN chan[s] = 1 .. Len(chan[s])
             /\ DOMAIN Append(chan[s], b(s)) = 1 .. Len(chan[s]) + 1
             /\ \A i \in 1 .. Len(chan[s]) : Append(chan[s], b(s))[i] = chan[s][i]
             /\ Append(chan[s], b(s))[Len(chan[s]) + 1] = b(s)
  BY <1>1, <1>2
<1>4. chan' \in [Node -> Seq(Batch)]
  BY <1>2, <1>3
<1>5. ASSUME NEW s \in Node, s \in known, BatchFor(s) # {}
      PROVE  chan'[s] = Append(chan[s], b(s))
  BY <1>2, <1>5
<1>6. ASSUME NEW s \in Node, s \notin known \/ BatchFor(s) = {}
      PROVE  chan'[s] = chan[s]
  BY <1>2, <1>6
<1> QED
  BY <1>1, <1>3, <1>4, <1>5, <1>6

LEMMA TypeInit == Init => TypeOK /\ Own
<1> SUFFICES ASSUME Init PROVE TypeOK /\ Own
  OBVIOUS
<1>1. AllLinks \subseteq SUBSET Node
  <2> SUFFICES ASSUME NEW p \in Pair, NEW i \in 1 .. Len(PathOf[p]) - 1
               PROVE  {PathOf[p][i], PathOf[p][i + 1]} \subseteq Node
    BY DEF AllLinks, LinksOf
  <2>1. PathOf[p] \in Seq(Node) /\ Len(PathOf[p]) \in Nat
    BY PairType
  <2> QED
    BY <2>1
<1>2. links \subseteq SUBSET Node
  BY <1>1 DEF Init
<1>3. chan \in [Node -> Seq(Batch)] /\ \A s \in Node : DOMAIN chan[s] = {}
  BY DEF Init
<1> QED
  BY <1>2, <1>3 DEF Init, TypeOK, Own

LEMMA ServedType ==
    ASSUME TypeOK, Own, NEW s \in Node, NEW p \in Pair, Apply(s, p)
    PROVE  TypeOK' /\ Own'
<1>1. s \in OnPath(p)
  BY Served DEF Own
<1>2. /\ table' \in [Node -> SUBSET Rule]
      /\ \A r \in table'[s] : r \in table[s] \cup Rules(p, s)
      /\ \A u \in Node \ {s} : table'[u] = table[u]
  <2>1. /\ AddFlow(table[s], Rules(p, s)) \subseteq table[s] \cup Rules(p, s)
        /\ DelFlow(table[s], Rules(p, s)) \subseteq table[s]
    BY AddOwn, DelOwn
  <2>2. table'[s] \subseteq table[s] \cup Rules(p, s)
    BY ServedTable, <2>1
  <2>3. table'[s] \subseteq Rule
    BY <1>1, <2>2, RulesType DEF TypeOK
  <2>4. DOMAIN table' = Node /\ table' = [u \in DOMAIN table' |-> table'[u]]
    BY DEF Apply, TypeOK
  <2>5. \A u \in Node : table'[u] \in SUBSET Rule
    BY <2>3, ServedTable DEF TypeOK
  <2> QED
    BY <2>2, <2>4, <2>5, ServedTable
<1>3. \A u \in Node : \A r \in table'[u] : \E q \in Pair : u \in OnPath(q) /\ r \in Rules(q, u)
  BY <1>1, <1>2 DEF Own
<1>4. chan' \in [Node -> Seq(Batch)]
  BY Served
<1>5. \A i \in DOMAIN chan'[s] : \A q \in chan'[s][i].pairs : s \in OnPath(q)
  <2> SUFFICES ASSUME NEW i \in DOMAIN chan'[s], NEW q \in chan'[s][i].pairs
               PROVE  s \in OnPath(q)
    OBVIOUS
  <2>1. /\ Len(chan[s]) \in Nat /\ DOMAIN chan[s] = 1 .. Len(chan[s])
        /\ Len(chan'[s]) \in Nat /\ DOMAIN chan'[s] = 1 .. Len(chan'[s])
    BY Served
  <2>2. \E j \in DOMAIN chan[s] : q \in chan[s][j].pairs
    <3>1. CASE /\ Len(chan'[s]) = Len(chan[s]) - 1
               /\ \A k \in 1 .. Len(chan'[s]) : chan'[s][k] = chan[s][k + 1]
      <4>1. i + 1 \in DOMAIN chan[s] /\ chan'[s][i] = chan[s][i + 1]
        BY <2>1, <3>1
      <4> QED
        BY <4>1
    <3>2. CASE /\ Len(chan'[s]) = Len(chan[s])
               /\ chan'[s][1].pairs = chan[s][1].pairs \ {p}
               /\ \A k \in 2 .. Len(chan[s]) : chan'[s][k] = chan[s][k]
      <4>1. i \in DOMAIN chan[s] /\ (i = 1 \/ i \in 2 .. Len(chan[s]))
        BY <2>1, <3>2
      <4> QED
        BY <3>2, <4>1
    <3> QED
      BY <3>1, <3>2, Served
  <2> QED
    BY <2>2 DEF Own
<1>6. \A u \in Node : \A i \in DOMAIN chan'[u] : \A q \in chan'[u][i].pairs : u \in OnPath(q)
  BY <1>5, Served DEF Own
<1>7. Own'
  BY <1>3, <1>6 DEF Own
<1>8. TypeOK'
  BY <1>2, <1>4 DEF TypeOK, Apply, roundVars, pathVars
<1> QED
  BY <1>7, <1>8

LEMMA TypeStep == TypeOK /\ Own /\ [Next]_vars => TypeOK' /\ Own'
<1> SUFFICES ASSUME TypeOK, Own, [Next]_vars
             PROVE  TypeOK' /\ Own'
  OBVIOUS
<1>1. ASSUME NEW p \in Pair, SingleFlow(p)
      PROVE  TypeOK' /\ Own'
  BY <1>1 DEF SingleFlow, TypeOK, Own, pathVars, netVars
<1>2. ASSUME NEW p \in Pair, FlowEnds(p)
      PROVE  TypeOK' /\ Own'
  BY <1>2 DEF FlowEnds, TypeOK, Own, pathVars, netVars
<1>3. ASSUME NEW w \in SUBSET Pair, Place(w)
      PROVE  TypeOK' /\ Own'
  BY <1>3 DEF Place, TypeOK, Own, pathVars, netVars
<1>4. ASSUME Modify
      PROVE  TypeOK' /\ Own'
  BY <1>4 DEF Modify, NewPaths, TypeOK, Own, roundVars, pathVars, netVars
<1>5. ASSUME NEW op \in {"add", "del"}, NEW next \in {"clear", "generate"}, Request(op, next)
      PROVE  TypeOK' /\ Own'
  <2>1. CASE Send(op)
    <3>1. chan' \in [Node -> Seq(Batch)]
      BY <2>1, SentBatches
    <3>2. ASSUME NEW s \in Node, NEW i \in DOMAIN chan'[s], NEW p \in chan'[s][i].pairs
          PROVE  s \in OnPath(p)
      BY <2>1, SentBatches DEF Own, BatchFor
    <3> QED
      BY <1>5, <2>1, <3>1, <3>2 DEF Request, Send, AfterRequest, TypeOK, Own, roundVars
  <2>2. CASE Lose
    BY <1>5, <2>2 DEF Request, Lose, AfterRequest, TypeOK, Own, roundVars
  <2> QED
    BY <1>5, <2>1, <2>2 DEF Request
<1>6. ASSUME ClearObsolete
      PROVE  TypeOK' /\ Own'
  BY <1>6 DEF ClearObsolete, Obsolete, TypeOK, Own, roundVars, netVars
<1>7. ASSUME Generate
      PROVE  TypeOK' /\ Own'
  BY <1>7 DEF Generate, TypeOK, Own, pathVars, netVars
<1>8. ASSUME NEW s \in Node, Connect(s)
      PROVE  TypeOK' /\ Own'
  BY <1>8 DEF Connect, TypeOK, Own, roundVars, pathVars
<1>9. ASSUME NEW s \in Node, NEW p \in Pair, Apply(s, p)
      PROVE  TypeOK' /\ Own'
  BY <1>9, ServedType
<1>10. CASE UNCHANGED vars
  BY <1>10 DEF TypeOK, Own, vars, roundVars, pathVars, netVars
<1> QED
  BY <1>1, <1>2, <1>3, <1>4, <1>5, <1>6, <1>7, <1>8, <1>9, <1>10
     DEF Next, Driver, Round, Switch, PutAdd, PutDel

(* Every variable keeps its type (TypeOK): in particular no entry waits in       *)
(* JsonEntries outside the two halves of a step of modifyRoutingTable, so that a *)
(* deletion never goes out with what an addition left behind.                    *)
THEOREM TypeCorrect == Spec => []TypeOK
<1>1. Spec => [](TypeOK /\ Own)
  BY TypeInit, TypeStep, PTL DEF Spec
<1> QED
  BY <1>1, PTL

--------------------------------------------------------------------------------
(* What runs is not disturbed (Undisturbed): whatever paths modifyRoutingTable   *)
(* adds and clears, and in whatever order the switches carry it out, the entries *)
(* of a path with traffic stay in place unless its own deletion was requested.   *)
THEOREM TrafficKeepsItsPath ==
    ASSUME NoMutualControl
    PROVE  Spec => Undisturbed
<1> DEFINE Keeps(p) == p \in traffic /\ p \in traffic' /\ Carried(p) /\ ~DeletionPending(p)
                       => Carried(p)'
<1>1. ASSUME TypeOK, NEW s \in Node, NEW q \in Pair, Apply(s, q),
             NEW p \in Pair, Carried(p), ~DeletionPending(p)
      PROVE  Carried(p)'
  <2> SUFFICES ASSUME NEW u \in OnPath(p)
               PROVE  Rules(p, u) \subseteq table'[u]
    BY DEF Carried
  <2>1. Rules(p, u) \subseteq table[u]
    BY <1>1 DEF Carried
  <2>2. u \in Node
    BY PairType DEF OnPath
  <2>3. CASE u # s
    BY <1>1, <2>1, <2>2, <2>3, ServedTable
  <2>4. CASE u = s /\ q # p
    <3>1. \A r \in Rules(p, s) : /\ r \in AddFlow(table[s], Rules(q, s)) <=> r \in table[s]
                                 /\ r \in DelFlow(table[s], Rules(q, s)) <=> r \in table[s]
      BY <2>4, OthersKeep
    <3> QED
      BY <1>1, <2>1, <2>4, <3>1, ServedTable
  <2>5. CASE u = s /\ q = p
    <3>1. 1 \in DOMAIN chan[s] /\ p \in chan[s][1].pairs
      BY <1>1, <2>5, Served
    <3>2. chan[s][1].op = "add"
      BY <1>1, <3>1, ServedTable DEF DeletionPending
    <3> QED
      BY <1>1, <2>5, <3>2, ServedTable, AddOwn
  <2> QED
    BY <2>3, <2>4, <2>5
<1>2. ASSUME NEW p \in Pair, table' = table, Carried(p)
      PROVE  Carried(p)'
  BY <1>2 DEF Carried
<1>3. TypeOK /\ [Next]_vars => [\A p \in Pair : Keeps(p)]_vars
  <2> SUFFICES ASSUME TypeOK, [Next]_vars, NEW p \in Pair, Carried(p), ~DeletionPending(p)
               PROVE  Carried(p)'
    OBVIOUS
  <2>1. CASE \E s \in Node, q \in Pair : Apply(s, q)
    BY <1>1, <2>1
  <2>2. CASE table' = table
    BY <1>2, <2>2
  <2> QED
    BY <2>1, <2>2 DEF Next, Driver, Round, Switch, SingleFlow, FlowEnds, Place, Modify, PutAdd,
       PutDel, Request, ClearObsolete, Generate, Connect, vars, roundVars, pathVars, netVars
<1>4. Spec => [][\A p \in Pair : Keeps(p)]_vars
  BY <1>3, TypeCorrect, PTL DEF Spec
<1> QED
  BY <1>4 DEF Undisturbed

--------------------------------------------------------------------------------
(* What the switches have been told to hold: JsonEntries of an addition not yet  *)
(* sent are recorded already, those of a deletion not recorded any more.         *)
Told == IF pc = "add" THEN recorded \ json ELSE recorded \cup json
(* The requests about path p that switch s has still to carry out.               *)
Pending(p, s) == {i \in DOMAIN chan[s] : p \in chan[s][i].pairs}
(* JsonEntries holds what an addition has just recorded, or a deletion struck    *)
(* off.                                                                          *)
Entries ==
    /\ pc = "add" => json \subseteq recorded
    /\ pc = "del" => json \cap recorded = {}

(* The last request about p on its way to s says what s has been told, and where *)
(* none is on its way the table already does.                                    *)
Follows(p, s) ==
    /\ \A i \in Pending(p, s) :
         (\A j \in Pending(p, s) : j <= i) => (chan[s][i].op = "add" <=> p \in Told)
    /\ Pending(p, s) = {} /\ p \in Told => Rules(p, s) \subseteq table[s]
    /\ Pending(p, s) = {} /\ p \notin Told => Rules(p, s) \cap table[s] = {}
InStep == \A p \in Pair \ missed : \A s \in OnPath(p) : Follows(p, s)

LEMMA FollowInit == Init => Entries /\ InStep
<1> SUFFICES ASSUME Init, NEW p \in Pair, NEW s \in OnPath(p)
             PROVE  Follows(p, s)
  BY DEF InStep, Init, Entries
<1>1. s \in Node
  BY PairType DEF OnPath
<1>2. Pending(p, s) = {} /\ p \notin Told /\ table[s] = {}
  BY <1>1 DEF Init, Pending, Told
<1> QED
  BY <1>2 DEF Follows

LEMMA FollowQuiet ==
    ASSUME InStep, chan' = chan, table' = table, missed \subseteq missed', Told' = Told
    PROVE  InStep'
BY DEF InStep, Follows, Pending

(* A request carried out: the last one about p moves up, or its effect is in the *)
(* table.                                                                        *)
LEMMA FollowServed ==
    ASSUME NoMutualControl, TypeOK, InStep, NEW s \in Node, NEW q \in Pair, Apply(s, q),
           NEW p \in Pair \ missed, NEW u \in OnPath(p)
    PROVE  Follows(p, u)'
<1>1. u \in Node /\ Follows(p, u)
  BY PairType DEF OnPath, InStep
<1>2. Told' = Told
  BY DEF Apply, Told, pathVars
<1>3. CASE u # s
  <2>1. chan'[u] = chan[u] /\ table'[u] = table[u]
    BY <1>1, <1>3, Served, ServedTable
  <2> QED
    BY <1>1, <1>2, <2>1 DEF Follows, Pending
<1>4. CASE u = s
  <2> DEFINE P == Pending(p, s)
             Q == Pending(p, s)'
  <2>1. /\ Len(chan[s]) \in Nat /\ Len(chan[s]) > 0 /\ DOMAIN chan[s] = 1 .. Len(chan[s])
        /\ Len(chan'[s]) \in Nat /\ DOMAIN chan'[s] = 1 .. Len(chan'[s])
    BY Served
  <2>2. P \subseteq 1 .. Len(chan[s]) /\ Q \subseteq 1 .. Len(chan'[s])
    BY <2>1 DEF Pending
  <2>3. PICK k \in {0, 1} :
          /\ \A i \in Q : i + k \in P /\ chan'[s][i].op = chan[s][i + k].op
          /\ \A j \in P : j - k \in Q \/ (j = 1 /\ p = q)
    <3>1. CASE /\ chan[s][1].pairs = {q} /\ Len(chan'[s]) = Len(chan[s]) - 1
               /\ \A i \in 1 .. Len(chan'[s]) : chan'[s][i] = chan[s][i + 1]
      <4>1. \A i \in Q : i + 1 \in P /\ chan'[s][i].op = chan[s][i + 1].op
        BY <2>1, <3>1 DEF Pending
      <4>2. \A j \in P : j - 1 \in Q \/ (j = 1 /\ p = q)
        BY <2>1, <3>1 DEF Pending
      <4> QED
        BY <4>1, <4>2
    <3>2. CASE /\ Len(chan'[s]) = Len(chan[s])
               /\ chan'[s][1].op = chan[s][1].op
               /\ chan'[s][1].pairs = chan[s][1].pairs \ {q}
               /\ \A i \in 2 .. Len(chan[s]) : chan'[s][i] = chan[s][i]
      <4>1. \A i \in Q : i + 0 \in P /\ chan'[s][i].op = chan[s][i + 0].op
        BY <2>1, <3>2 DEF Pending
      <4>2. \A j \in P : j - 0 \in Q \/ (j = 1 /\ p = q)
        BY <2>1, <3>2 DEF Pending
      <4> QED
        BY <4>1, <4>2
    <3> QED
      BY <3>1, <3>2, Served
  <2>4. \A i \in Q : (\A j \in Q : j <= i) => (chan'[s][i].op = "add" <=> p \in Told)
    <3> SUFFICES ASSUME NEW i \in Q, \A j \in Q : j <= i
                 PROVE  chan'[s][i].op = "add" <=> p \in Told
      OBVIOUS
    <3>1. i + k \in P /\ chan'[s][i].op = chan[s][i + k].op
      BY <2>3
    <3>2. ASSUME NEW j \in P
          PROVE  j <= i + k
      BY <2>2, <2>3
    <3> QED
      BY <1>1, <1>4, <3>1, <3>2 DEF Follows
  <2>5. ASSUME Q = {}
        PROVE  /\ p \in Told => Rules(p, s) \subseteq table'[s]
               /\ p \notin Told => Rules(p, s) \cap table'[s] = {}
    <3>1. CASE p = q
      <4>1. 1 \in P
        BY <2>1, <3>1, Served DEF Pending
      <4>2. \A j \in P : j <= 1
        BY <2>2, <2>3, <2>5
      <4>3. chan[s][1].op = "add" <=> p \in Told
        BY <1>1, <1>4, <4>1, <4>2 DEF Follows
      <4> QED
        BY <3>1, <4>3, ServedTable, AddOwn, DelOwn
    <3>2. CASE p # q
      <4>1. P = {}
        BY <2>3, <2>5, <3>2
      <4>2. \A r \in Rules(p, s) :
               /\ r \in AddFlow(table[s], Rules(q, s)) <=> r \in table[s]
               /\ r \in DelFlow(table[s], Rules(q, s)) <=> r \in table[s]
        BY <3>2, OthersKeep
      <4>3. \A r \in Rules(p, s) : r \in table'[s] <=> r \in table[s]
        BY <4>2, ServedTable
      <4> QED
        BY <1>1, <1>4, <4>1, <4>3 DEF Follows
    <3> QED
      BY <3>1, <3>2
  <2> QED
    BY <1>2, <1>4, <2>4, <2>5 DEF Follows
<1> QED
  BY <1>3, <1>4

(* A request sent: it is the last one about each of its paths, except where it   *)
(* was lost, which missed remembers.                                             *)
LEMMA FollowSent ==
    ASSUME TypeOK, Entries, InStep, NEW op \in {"add", "del"}, NEW next \in {"clear", "generate"},
           Request(op, next), pc = op
    PROVE  InStep'
<1>1. Told' = recorded /\ pc' \notin {"add", "del"}
  BY DEF Request, AfterRequest, Told
<1>2. \A p \in Pair \ json : p \in Told' <=> p \in Told
  BY <1>1 DEF Told
<1>3. \A p \in json : op = "add" <=> p \in Told'
  BY <1>1 DEF Entries
<1>4. table' = table
  BY DEF Request
<1>5. CASE Lose
  BY <1>2, <1>4, <1>5 DEF Lose, InStep, Follows, Pending
<1>6. CASE Send(op)
  <2> SUFFICES ASSUME NEW p \in Pair \ missed', NEW s \in OnPath(p)
               PROVE  Follows(p, s)'
    BY DEF InStep
  <2>1. s \in Node
    BY PairType DEF OnPath
  <2>2. CASE p \in json
    <3>1. s \in known /\ p \in BatchFor(s)
      BY <1>6, <2>2 DEF Send, Reached, BatchFor
    <3>2. /\ Len(chan[s]) \in Nat
          /\ DOMAIN chan'[s] = 1 .. Len(chan[s]) + 1
          /\ chan'[s][Len(chan[s]) + 1].op = op
          /\ p \in chan'[s][Len(chan[s]) + 1].pairs
      BY <1>6, <2>1, <3>1, SentBatches
    <3>3. Len(chan[s]) + 1 \in Pending(p, s)' /\ Pending(p, s)' \subseteq 1 .. Len(chan[s]) + 1
      BY <3>2 DEF Pending
    <3>4. \A i \in Pending(p, s)' :
             (\A j \in Pending(p, s)' : j <= i) => i = Len(chan[s]) + 1
      BY <3>2, <3>3
    <3> QED
      BY <1>3, <2>2, <3>2, <3>3, <3>4 DEF Follows
  <2>3. CASE p \notin json
    <3>1. Follows(p, s) /\ p \notin BatchFor(s)
      BY <1>6, <2>3 DEF Send, InStep, BatchFor
    <3>2. Pending(p, s)' = Pending(p, s) /\ \A i \in Pending(p, s) : chan'[s][i] = chan[s][i]
      <4>1. CASE chan'[s] = chan[s]
        BY <4>1 DEF Pending
      <4>2. CASE /\ Len(chan[s]) \in Nat
                 /\ DOMAIN chan[s] = 1 .. Len(chan[s])
                 /\ DOMAIN chan'[s] = 1 .. Len(chan[s]) + 1
                 /\ \A i \in 1 .. Len(chan[s]) : chan'[s][i] = chan[s][i]
                 /\ chan'[s][Len(chan[s]) + 1].pairs = BatchFor(s)
        <5>1. Len(chan[s]) + 1 \notin Pending(p, s)'
          BY <3>1, <4>2 DEF Pending
        <5>2. \A i \in 1 .. Len(chan[s]) : i \in Pending(p, s)' <=> i \in Pending(p, s)
          BY <4>2 DEF Pending
        <5>3. /\ Pending(p, s)' \subseteq 1 .. Len(chan[s]) + 1
              /\ Pending(p, s) \subseteq 1 .. Len(chan[s])
          BY <4>2 DEF Pending
        <5>4. \A i \in 1 .. Len(chan[s]) + 1 : i \in 1 .. Len(chan[s]) \/ i = Len(chan[s]) + 1
          BY <4>2
        <5> QED
          BY <4>2, <5>1, <5>2, <5>3, <5>4
      <4> QED
        BY <1>6, <2>1, <4>1, <4>2, SentBatches
    <3> QED
      BY <1>2, <1>4, <2>3, <3>1, <3>2 DEF Follows
  <2> QED
    BY <2>2, <2>3
<1> QED
  BY <1>5, <1>6 DEF Request

LEMMA FollowStep ==
    ASSUME NoMutualControl, TypeOK, Entries, InStep, [Next]_vars
    PROVE  Entries' /\ InStep'
<1>1. ASSUME \/ \E p \in Pair : SingleFlow(p) \/ FlowEnds(p)
             \/ \E w \in SUBSET Pair : Place(w)
             \/ Generate
             \/ \E s \in Node : Connect(s)
             \/ UNCHANGED vars
      PROVE  Entries' /\ InStep'
  <2>1. /\ Entries' /\ Told' = Told
        /\ chan' = chan /\ table' = table /\ missed' = missed
    BY <1>1 DEF SingleFlow, FlowEnds, Place, Generate, Connect, vars, roundVars, pathVars,
       netVars, Entries, Told, TypeOK
  <2> QED
    BY <2>1, FollowQuiet
<1>2. ASSUME Modify
      PROVE  Entries' /\ InStep'
  <2>1. /\ Entries' /\ Told' = Told
        /\ chan' = chan /\ table' = table /\ missed' = missed
    BY <1>2 DEF Modify, NewPaths, netVars, pathVars, Entries, Told, TypeOK
  <2> QED
    BY <2>1, FollowQuiet
<1>3. ASSUME ClearObsolete
      PROVE  Entries' /\ InStep'
  <2>1. /\ Entries' /\ Told' = Told
        /\ chan' = chan /\ table' = table /\ missed' = missed
    BY <1>3 DEF ClearObsolete, Obsolete, netVars, Entries, Told, TypeOK
  <2> QED
    BY <2>1, FollowQuiet
<1>4. ASSUME PutAdd \/ PutDel
      PROVE  Entries' /\ InStep'
  <2>1. InStep'
    BY <1>4, FollowSent DEF PutAdd, PutDel
  <2>2. Entries'
    BY <1>4 DEF PutAdd, PutDel, Request, Entries
  <2> QED
    BY <2>1, <2>2
<1>5. ASSUME NEW s \in Node, NEW q \in Pair, Apply(s, q)
      PROVE  Entries' /\ InStep'
  <2>1. Entries' /\ missed' = missed
    BY <1>5 DEF Apply, Entries, pathVars
  <2> QED
    BY <1>5, <2>1, FollowServed DEF InStep
<1> QED
  BY <1>1, <1>2, <1>3, <1>4, <1>5 DEF Next, Driver, Round, Switch

LEMMA FollowsRecord ==
    ASSUME TypeOK, Own, InStep
    PROVE  TablesFollowRecord
<1> SUFFICES ASSUME pc = "idle", Drained
             PROVE  /\ \A p \in recorded \ missed : Carried(p)
                    /\ \A s \in Node : \A r \in table[s] :
                         \E p \in recorded \cup missed : s \in OnPath(p) /\ r \in Rules(p, s)
  BY DEF TablesFollowRecord
<1>1. Told = recorded
  BY DEF Told, TypeOK
<1>2. \A s \in Node : \A p \in Pair : Pending(p, s) = {}
  BY DEF Drained, Pending
<1>3. ASSUME NEW p \in recorded \ missed
      PROVE  Carried(p)
  <2> SUFFICES ASSUME NEW s \in OnPath(p)
               PROVE  Rules(p, s) \subseteq table[s]
    BY DEF Carried
  <2>1. p \in Pair \ missed
    BY DEF TypeOK
  <2>2. s \in Node
    BY <2>1, PairType DEF OnPath
  <2> QED
    BY <1>1, <1>2, <2>1, <2>2 DEF InStep, Follows
<1>4. ASSUME NEW s \in Node, NEW r \in table[s]
      PROVE  \E p \in recorded \cup missed : s \in OnPath(p) /\ r \in Rules(p, s)
  <2>1. PICK p \in Pair : s \in OnPath(p) /\ r \in Rules(p, s)
    BY DEF Own
  <2>2. p \in recorded \cup missed
    BY <1>1, <1>2, <2>1 DEF InStep, Follows
  <2> QED
    BY <2>1, <2>2
<1> QED
  BY <1>3, <1>4

(* The tables follow RoutingPaths (TablesFollowRecord): when modifyRoutingTable  *)
(* is over and the switches have caught up, they hold the entries of exactly the *)
(* recorded paths, except for paths whose last request was lost.                 *)
THEOREM TablesFollow ==
    ASSUME NoMutualControl
    PROVE  Spec => []TablesFollowRecord
<1> DEFINE IInv == TypeOK /\ Own /\ Entries /\ InStep
<1>1. Init => IInv
  BY TypeInit, FollowInit
<1>2. IInv /\ [Next]_vars => IInv'
  BY TypeStep, FollowStep
<1>3. IInv => TablesFollowRecord
  BY FollowsRecord
<1> QED
  BY <1>1, <1>2, <1>3, PTL DEF Spec

================================================================================
