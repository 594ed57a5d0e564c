-------------------------- MODULE CoordinationProofs ---------------------------
(* The records of the coordination level of Placement (CRCs, CRCcontrol, CRC of  *)
(* a node), and, on top of them, the accounts: what is missing from each link    *)
(* and node is what the present records occupy there.  For every network, every  *)
(* set of flows, capacity and demand.                                            *)
EXTENDS PlacementProofs, Sums

USE DEF inVars, placeVars, clcVars, crcVars, netVars, algVars, growVars, locVars

--------------------------------------------------------------------------------
(* What the records say of one another.                                          *)
CoordRecords ==
    /\ \A r, v \in Node : v \in crcControl[r] <=> crcOf[v] = r
    /\ crcs = {r \in Node : crcControl[r] # {}}

(* Who has a CRC: every CLC, and of the candidates without CLC only the one that *)
(* findCRC has just found one for.  A CLC may also come out of a path that waits *)
(* in addNewCLC's loop, so its source has a CRC.                                 *)
CoordLinks ==
    /\ \A c \in CLCSet : crcOf[c] # None
    /\ \A c \in cands \ CLCSet :
         crcOf[c] # None => pc = "ZeroDivisionError" \/ (pc = "found" /\ cur = c)
    /\ \A p \in paths : crcOf[p.src] # None
    /\ pc = "found" => crcOf[cur] # None

(* Whom the loops run over: candidates without CLC, or CLCs.                     *)
LoopLinks ==
    /\ pc = "find" => todo \subseteq cands \ CLCSet
    /\ pc \in {"search", "reach"} => todo \subseteq CLCSet
    /\ pc = "reach" => cur \in CLCSet

CoordInv == CoordRecords /\ CoordLinks /\ LoopLinks

--------------------------------------------------------------------------------
LEMMA AddCLCcontrolSet ==
    ASSUME PlaceTypes, NEW v \in Cand, NEW w \in Node, AddCLCcontrol(v, w)
    PROVE  CLCSet' = CLCSet \cup {v}
<1>1. clcs \in Seq(Cand) /\ CLCSet = Elems(clcs) /\ CLCSet' = Elems(clcs')
  BY DEF PlaceTypes, CLCSet, Elems
<1>2. Elems(Append(clcs, v)) = Elems(clcs) \cup {v}
  BY <1>1, AppendElems
<1> QED
  BY <1>1, <1>2 DEF AddCLCcontrol

(* A step that changes no record of the coordination: it may make CLCs of nodes  *)
(* that have a CRC, and add paths from CLCs.                                     *)
LEMMA Kept ==
    ASSUME CoordRecords, CoordLinks, UNCHANGED crcVars, cands' = cands,
           pc \notin {"found", "ZeroDivisionError"}, pc' # "found",
           CLCSet \subseteq CLCSet', \A c \in CLCSet' : c \in CLCSet \/ crcOf[c] # None,
           \A p \in paths' : p \in paths \/ p.src \in CLCSet,
           LoopLinks'
    PROVE  CoordInv'
<1>1. UNCHANGED <<crcs, crcControl, crcOf>>
  BY DEF crcVars
<1>2. CoordRecords'
  BY <1>1 DEF CoordRecords
<1>3. CoordLinks'
  BY <1>1 DEF CoordLinks
<1> QED
  BY <1>2, <1>3 DEF CoordInv

LEMMA CoordInit == Init => CoordInv
<1> SUFFICES ASSUME Init PROVE CoordInv
  OBVIOUS
<1>1. CLCSet = {}
  <2>1. <<>> \in Seq(Cand) /\ Len(<<>>) = 0
    BY EmptySeq
  <2>2. DOMAIN <<>> = 1 .. 0
    BY <2>1, LenProperties
  <2>3. DOMAIN <<>> = {}
    BY <2>2
  <2> QED
    BY <2>3 DEF Init, CLCSet
<1>2. CoordRecords
  BY SetsAssumption DEF Init, CoordRecords
<1>3. \A c \in cands : crcOf[c] = None
  BY SetsAssumption DEF Init
<1> QED
  BY <1>1, <1>2, <1>3 DEF Init, NoGrowth, CoordLinks, LoopLinks, CoordInv

--------------------------------------------------------------------------------
(* The steps that leave the records alone.                                       *)

LEMMA CoordGrow ==
    ASSUME Inv, CoordInv, NEW v \in Node, GrowSkip(v) \/ GrowFlow(v) \/ GrowPath(v)
    PROVE  CoordInv'
<1>1. /\ pc = "grow" /\ pc' = pc /\ UNCHANGED crcVars /\ cands' = cands
      /\ paths' \subseteq paths
  BY DEF GrowSkip, GrowFlow, GrowPath, Growing
<1>2. LoopLinks'
  BY <1>1 DEF LoopLinks
<1>3. CASE clcs' = clcs
  BY <1>1, <1>2, <1>3, Kept DEF CLCSet, CoordInv
<1>4. ASSUME NEW p \in paths, p.src = v, AddCLCcontrol(v, p.dst)
      PROVE  CoordInv'
  <2>1. v \in Cand /\ p.dst \in Node /\ crcOf[v] # None
    BY <1>4 DEF Inv, AlgTypes, PathRecord, CoordInv, CoordLinks
  <2>2. CLCSet' = CLCSet \cup {v}
    BY <1>4, <2>1, AddCLCcontrolSet DEF Inv
  <2> QED
    BY <1>1, <1>2, <2>1, <2>2, Kept DEF CoordInv
<1> QED
  BY <1>3, <1>4 DEF GrowSkip, GrowFlow, GrowPath, FirstPaths

LEMMA CoordReach ==
    ASSUME Inv, CoordInv, NEW w \in Node, Reach(w)
    PROVE  CoordInv'
<1>1. /\ pc = "reach" /\ UNCHANGED crcVars /\ cands' = cands /\ paths' = paths
      /\ cur \in Cand /\ cur \in CLCSet /\ todo \subseteq CLCSet
      /\ pc' \in {"reach", "search"} /\ todo' = todo /\ (pc' = "reach" => cur' = cur)
  BY DEF Reach, Inv, AlgLinks, CoordInv, LoopLinks
<1>2. CLCSet' = CLCSet
  <2>1. CASE clcs' = clcs
    BY <2>1 DEF CLCSet
  <2>2. CASE AddCLCcontrol(cur, w)
    BY <1>1, <2>2, AddCLCcontrolSet DEF Inv
  <2> QED
    BY <2>1, <2>2 DEF Reach
<1>3. LoopLinks'
  BY <1>1, <1>2 DEF LoopLinks
<1> QED
  BY <1>1, <1>2, <1>3, Kept DEF CoordInv

LEMMA CoordSearch ==
    ASSUME Inv, CoordInv,
           SingleKnown \/ SingleSearch \/ (\E c \in Node : SearchNext(c)) \/ ReachDone \/ SearchDone
    PROVE  CoordInv'
<1>1. /\ pc \in {"single", "search", "reach"} /\ UNCHANGED <<crcVars, clcVars>>
      /\ cands' = cands /\ paths' = paths /\ pc' \in {"idle", "search", "reach"}
      /\ CLCSet' = CLCSet
  BY DEF SingleKnown, SingleSearch, SearchNext, ReachDone, SearchDone, CLCSet
<1>2. LoopLinks'
  <2>1. CASE SingleKnown \/ SearchDone
    BY <2>1 DEF SingleKnown, SearchDone, LoopLinks
  <2>2. CASE SingleSearch
    BY <1>1, <2>2 DEF SingleSearch, LoopLinks
  <2>3. CASE \E c \in Node : SearchNext(c)
    BY <1>1, <2>3 DEF SearchNext, LoopLinks, CoordInv
  <2>4. CASE ReachDone
    BY <1>1, <2>4 DEF ReachDone, LoopLinks, CoordInv
  <2> QED
    BY <2>1, <2>2, <2>3, <2>4
<1> QED
  BY <1>1, <1>2, Kept DEF CoordInv

LEMMA CoordCall ==
    ASSUME Inv, CoordInv, CallGreedy
    PROVE  CoordInv'
<1>1. /\ pc \in {"idle", "lowload"} /\ pc' \in {"enter", "grow"}
      /\ UNCHANGED <<crcVars, clcVars>> /\ cands' = cands /\ CLCSet' = CLCSet
  BY DEF CallGreedy, CLCSet
<1>2. \A p \in paths' : p \in paths \/ p.src \in CLCSet
  <2> SUFFICES ASSUME NEW p \in paths', paths' # paths
               PROVE  p.src \in CLCSet
    OBVIOUS
  <2>1. PICK v \in CLCSet : p \in PathsFrom(v, Node \ control[v], controlled)
    BY DEF CallGreedy
  <2> QED
    BY <2>1 DEF PathsFrom
<1>3. LoopLinks'
  BY <1>1 DEF LoopLinks
<1> QED
  BY <1>1, <1>2, <1>3, Kept DEF CoordInv

LEMMA CoordFind ==
    ASSUME Inv, CoordInv, FindForNodes \/ FindForFlows
    PROVE  CoordInv'
<1>1. /\ pc \in {"nodes", "nodesAgain", "flows"} /\ pc' \in {"find", "cleanup"}
      /\ UNCHANGED <<crcVars, clcVars>> /\ cands' = cands /\ CLCSet' = CLCSet
      /\ paths' = paths /\ (pc' = "find" => todo' = FreeCands)
  BY DEF FindForNodes, FindForFlows, BeginFind, CLCSet
<1>2. LoopLinks'
  BY <1>1 DEF LoopLinks, FreeCands
<1> QED
  BY <1>1, <1>2, Kept DEF CoordInv

(* The steps of the rest of cpgreedy and of the driver.                          *)
LEMMA CoordOther ==
    ASSUME Inv, CoordInv,
           \/ EnterNodes \/ LeaveNodes \/ JudgeRound \/ FindNone \/ GrowDone \/ CleanupDone
           \/ \E v \in Node : DropControl(v) \/ CleanupRemove(v)
           \/ \E f \in Flow : DropFlow(f) \/ AddFlow(f) \/ RemFlow(f)
           \/ \E c \in Cand : LowLoad(c)
    PROVE  CoordInv'
<1>1. /\ pc \notin {"found", "ZeroDivisionError"}
      /\ pc' \notin {"find", "found", "search", "reach"}
      /\ UNCHANGED crcVars /\ clcs' = clcs /\ cands' = cands /\ paths' \subseteq paths
  BY DEF EnterNodes, LeaveNodes, JudgeRound, FindNone, GrowDone, CleanupDone, DropControl,
     CleanupRemove, DropFlow, AddFlow, RemFlow, LowLoad, Return, EndGrowth, RemCLCcontrol,
     Inv, AlgTypes
<1>2. LoopLinks' /\ CLCSet' = CLCSet
  BY <1>1 DEF LoopLinks, CLCSet
<1> QED
  BY <1>1, <1>2, Kept DEF CoordInv

LEMMA CoordCrash ==
    ASSUME Inv, CoordInv, Crash
    PROVE  CoordInv'
<1>1. /\ UNCHANGED <<crcs, crcControl, crcOf, clcs, cands, paths, cur>>
      /\ pc' \in {"ZeroDivisionError", "IndexError"}
      /\ pc' = "IndexError" => pc \in {"nodes", "nodesAgain", "judge"}
  BY DEF Crash, ReadsEmptyList
<1>2. CLCSet' = CLCSet
  BY <1>1 DEF CLCSet
<1> QED
  BY <1>1, <1>2 DEF CoordInv, CoordRecords, CoordLinks, LoopLinks

--------------------------------------------------------------------------------
(* The steps that change the records.                                            *)

(* The candidate a CRC is found for is not a CLC yet, so it had none.            *)
LEMMA CoordFindCRC ==
    ASSUME Inv, CoordInv, NEW v \in Node, FindCRC(v)
    PROVE  CoordInv'
<1>1. /\ pc = "find" /\ v \in cands \ CLCSet /\ v \in Cand
      /\ UNCHANGED <<cands, clcs, paths>> /\ CLCSet' = CLCSet
      /\ CLCSet \subseteq Node /\ cands \subseteq Node
  <2>1. /\ pc = "find" /\ v \in todo /\ v \in Cand
        /\ UNCHANGED <<cands, clcs, paths>> /\ cands \subseteq Cand
    BY DEF FindCRC, FirstCand, Inv, AlgTypes, AlgLinks
  <2>2. v \in cands \ CLCSet
    BY <2>1 DEF CoordInv, LoopLinks
  <2>3. CLCSet' = CLCSet
    BY <2>1 DEF CLCSet
  <2>4. CLCSet \subseteq Cand
    BY CLCSetType DEF Inv
  <2> QED
    BY <2>1, <2>2, <2>3, <2>4, SetsAssumption
<1>2. CASE todo' = todo \ {v} /\ UNCHANGED <<crcVars, netVars, pc, cur>>
  <2>1. LoopLinks'
    BY <1>1, <1>2 DEF LoopLinks, CoordInv
  <2> QED
    BY <1>1, <1>2, <2>1, Kept DEF CoordInv
<1>3. ASSUME NEW i \in Cand, AddCRCcontrol(i, v), pc' = "found", cur' = v
      PROVE  CoordInv'
  <2>1. /\ crcControl' = [crcControl EXCEPT ![i] = @ \cup {v}]
        /\ crcOf' = [crcOf EXCEPT ![v] = i] /\ crcs' = crcs \cup {i}
        /\ i \in Node /\ i # None
        /\ crcControl \in [Node -> SUBSET Node] /\ crcOf \in [Node -> Cand \cup {None}]
    BY <1>3, NetworkTypes, SetsAssumption DEF AddCRCcontrol, Inv, PlaceTypes
  <2>2. crcOf[v] = None
    BY <1>1 DEF CoordInv, CoordLinks
  <2>3. /\ \A r \in Node : crcControl'[r] = IF r = i THEN crcControl[r] \cup {v} ELSE crcControl[r]
        /\ \A x \in Node : crcOf'[x] = IF x = v THEN i ELSE crcOf[x]
    BY <2>1
  <2>4. CoordRecords'
    <3>1. \A r, x \in Node : x \in crcControl'[r] <=> crcOf'[x] = r
      <4>1. \A r, x \in Node : x \in crcControl[r] <=> crcOf[x] = r
        BY DEF CoordInv, CoordRecords
      <4>2. \A r \in Node : v \notin crcControl[r]
        BY <2>2, <4>1, SetsAssumption
      <4>3. ASSUME NEW r \in Node, NEW x \in Node, x # v
            PROVE  x \in crcControl'[r] <=> crcOf'[x] = r
        <5>1. crcOf'[x] = crcOf[x]
          BY <2>3, <4>3
        <5>2. CASE r = i
          <6>1. crcControl'[r] = crcControl[r] \cup {v}
            BY <2>3, <5>2
          <6> QED
            BY <4>1, <4>3, <5>1, <6>1
        <5>3. CASE r # i
          BY <2>3, <4>1, <5>1, <5>3
        <5> QED
          BY <5>2, <5>3
      <4>4. ASSUME NEW r \in Node
            PROVE  v \in crcControl'[r] <=> crcOf'[v] = r
        BY <2>3, <4>2, <4>4
      <4> QED
        BY <4>3, <4>4
    <3>2. crcs' = {r \in Node : crcControl'[r] # {}}
      BY <2>1, <2>3 DEF CoordInv, CoordRecords
    <3> QED
      BY <3>1, <3>2 DEF CoordRecords
  <2>5. CoordLinks'
    <3>1. \A c \in CLCSet' : crcOf'[c] # None
      BY <1>1, <2>1, <2>3 DEF CoordInv, CoordLinks
    <3>2. \A c \in cands' \ CLCSet' : crcOf'[c] # None => cur' = c
      BY <1>1, <1>3, <2>3 DEF CoordInv, CoordLinks
    <3>3. paths' = {}
      BY <1>1 DEF Inv, AlgLinks, Labels
    <3>4. crcOf'[cur'] # None
      BY <1>3, <2>1, <2>3
    <3> QED
      BY <1>3, <3>1, <3>2, <3>3, <3>4 DEF CoordLinks
  <2>6. LoopLinks'
    BY <1>3 DEF LoopLinks
  <2> QED
    BY <2>4, <2>5, <2>6 DEF CoordInv
<1> QED
  BY <1>2, <1>3 DEF FindCRC

(* The candidate becomes a CLC, or is no candidate any more.                     *)
LEMMA CoordAddNewCLC ==
    ASSUME Inv, CoordInv, AddNewCLC
    PROVE  CoordInv'
<1>1. /\ pc = "found" /\ pc' = "grow" /\ cur \in Cand /\ cur \in Node /\ crcOf[cur] # None
      /\ UNCHANGED <<crcs, crcControl, crcOf>>
  BY NetworkTypes DEF AddNewCLC, Inv, AlgLinks, CoordInv, CoordLinks
<1>2. \A p \in paths' : p.src = cur
  BY DEF AddNewCLC, PathsFrom
<1>3. \/ CLCSet' = CLCSet \cup {cur} /\ cands' = cands
      \/ CLCSet' = CLCSet /\ cands' = cands \ {cur}
  <2>1. CASE AddCLCcontrol(cur, cur) /\ cands' = cands
    BY <1>1, <2>1, AddCLCcontrolSet DEF Inv
  <2>2. CASE cands' = cands \ {cur} /\ clcs' = clcs
    BY <2>2 DEF CLCSet
  <2> QED
    BY <2>1, <2>2 DEF AddNewCLC
<1>4. CoordRecords'
  BY <1>1 DEF CoordInv, CoordRecords
<1>5. CoordLinks'
  BY <1>1, <1>2, <1>3 DEF CoordInv, CoordLinks
<1>6. LoopLinks'
  BY <1>1 DEF LoopLinks
<1> QED
  BY <1>4, <1>5, <1>6 DEF CoordInv

(* What is left of the list of CLCs when cur has been taken out.                 *)
LEMMA WithoutCur ==
    ASSUME Inv, DropDone
    PROVE  CLCSet' = CLCSet \ {cur}
<1>1. PICK i \in DOMAIN clcs : clcs[i] = cur /\ IsWithout(clcs', clcs, i)
  BY DEF DropDone, IsWithout
<1>2. clcs \in Seq(Cand) /\ Distinct(clcs)
  BY DEF Inv, PlaceTypes, PlaceLinks, RecordLinks
<1>3. Elems(clcs) \ {cur} \subseteq Elems(clcs')
  <2>1. Elems(clcs) \ {clcs[i]} \subseteq Elems(clcs')
    BY <1>1, <1>2, RemoveElems
  <2> QED
    BY <1>1, <2>1
<1>4. ASSUME NEW j \in DOMAIN clcs'
      PROVE  clcs'[j] \in Elems(clcs) /\ clcs'[j] # cur
  <2>1. /\ DOMAIN clcs = 1 .. Len(clcs) /\ Len(clcs) \in Nat
        /\ j \in 1 .. Len(clcs) - 1
        /\ clcs'[j] = IF j < i THEN clcs[j] ELSE clcs[j + 1]
    BY <1>1, <1>2, <1>4 DEF IsWithout
  <2>2. PICK k \in DOMAIN clcs : k # i /\ clcs'[j] = clcs[k]
    <3>1. CASE j < i
      BY <2>1, <3>1
    <3>2. CASE ~(j < i)
      <4>1. j + 1 \in DOMAIN clcs /\ j + 1 # i
        BY <1>1, <2>1, <3>2
      <4> QED
        BY <2>1, <3>2, <4>1
    <3> QED
      BY <3>1, <3>2
  <2> QED
    BY <1>1, <1>2, <2>2 DEF Distinct, Elems
<1>5. Elems(clcs') \subseteq Elems(clcs) \ {cur}
  BY <1>4 DEF Elems
<1> QED
  BY <1>3, <1>5 DEF CLCSet, Elems

(* remCLC strikes the CLC off the list and off its CRC, and the CRC off the list *)
(* of CRCs when it coordinates nobody else.                                      *)
LEMMA CoordDropDone ==
    ASSUME Inv, CoordInv, DropDone
    PROVE  CoordInv'
<1>1. /\ pc = "drop" /\ cur \in Node /\ cur \in Cand
      /\ pc' \notin {"find", "found", "search", "reach"}
      /\ UNCHANGED <<cands, paths>> /\ CLCSet' = CLCSet \ {cur} /\ cur \in CLCSet
      /\ cands \subseteq Node /\ CLCSet \subseteq Node /\ paths = {}
  <2>1. /\ pc = "drop" /\ cur \in Cand /\ pc' = ret /\ UNCHANGED <<cands, paths>>
        /\ cands \subseteq Cand /\ paths = {}
        /\ ret \in {"idle", "enter", "nodesAgain", "judge", "lowload", "cleanup"}
    BY DEF DropDone, Return, Inv, AlgTypes, AlgLinks, Labels
  <2>2. CLCSet' = CLCSet \ {cur}
    BY WithoutCur
  <2>3. cur \in CLCSet
    BY DEF DropDone, CLCSet
  <2>4. CLCSet \subseteq Cand
    BY CLCSetType DEF Inv
  <2> QED
    BY <2>1, <2>2, <2>3, <2>4, SetsAssumption
<1>2. crcOf[cur] # None /\ RemCRCcontrol(crcOf[cur], cur)
  BY <1>1 DEF DropDone, CoordInv, CoordLinks
<1> DEFINE r0 == crcOf[cur]
<1>3. /\ crcControl' = [crcControl EXCEPT ![r0] = @ \ {cur}]
      /\ crcOf' = [crcOf EXCEPT ![cur] = None]
      /\ crcs' = IF crcControl[r0] = {cur} THEN crcs \ {r0} ELSE crcs
      /\ r0 \in Node /\ r0 # None
      /\ crcControl \in [Node -> SUBSET Node] /\ crcOf \in [Node -> Cand \cup {None}]
  BY <1>1, <1>2, NetworkTypes DEF RemCRCcontrol, CoordinatesOnly, Inv, PlaceTypes
<1>4. crcControl[r0] # {} /\ cur \in crcControl[r0]
  BY <1>1, <1>3 DEF CoordInv, CoordRecords
<1>5. \A x \in Node : crcOf'[x] = IF x = cur THEN None ELSE crcOf[x]
  BY <1>3
<1>6. \A r, x \in Node : x \in crcControl[r] <=> crcOf[x] = r
  BY DEF CoordInv, CoordRecords
<1>7. crcs = {r \in Node : crcControl[r] # {}}
  BY DEF CoordInv, CoordRecords
<1> HIDE DEF r0
<1>8. \A r \in Node : crcControl'[r] = IF r = r0 THEN crcControl[r] \ {cur} ELSE crcControl[r]
  BY <1>3
<1>9. CoordRecords'
  <2>1. ASSUME NEW r \in Node, NEW x \in Node
        PROVE  x \in crcControl'[r] <=> crcOf'[x] = r
    <3>1. None \notin Node
      BY SetsAssumption
    <3>2. r0 = crcOf[cur]
      BY DEF r0
    <3>3. x \in crcControl[r] <=> crcOf[x] = r
      BY <1>6
    <3>4. CASE x = cur
      <4>1. x \notin crcControl'[r]
        BY <1>8, <3>2, <3>3, <3>4
      <4>2. crcOf'[x] = None
        BY <1>5, <3>4
      <4> QED
        BY <3>1, <4>1, <4>2
    <3>5. CASE x # cur
      BY <1>5, <1>8, <3>3, <3>5
    <3> QED
      BY <3>4, <3>5
  <2>2. crcs' = {r \in Node : crcControl'[r] # {}}
    BY <1>3, <1>4, <1>7, <1>8
  <2> QED
    BY <2>1, <2>2 DEF CoordRecords
<1>10. CoordLinks'
  BY <1>1, <1>5 DEF CoordInv, CoordLinks
<1>11. LoopLinks'
  BY <1>1 DEF LoopLinks
<1> QED
  BY <1>9, <1>10, <1>11 DEF CoordInv

--------------------------------------------------------------------------------
LEMMA CoordStep == ASSUME Inv, CoordInv, [Next]_vars PROVE CoordInv'
<1>1. CASE Driver
  BY <1>1, CoordOther DEF Driver
<1>2. CASE Greedy
  <2>1. CASE CallGreedy \/ FindForNodes \/ FindForFlows \/ AddNewCLC \/ DropDone \/ Crash
    BY <2>1, CoordCall, CoordFind, CoordAddNewCLC, CoordDropDone, CoordCrash
  <2>2. CASE EnterNodes \/ LeaveNodes \/ JudgeRound \/ FindNone \/ GrowDone \/ CleanupDone
    BY <2>2, CoordOther
  <2>3. CASE SingleKnown \/ SingleSearch \/ ReachDone \/ SearchDone
    BY <2>3, CoordSearch
  <2>4. ASSUME NEW v \in Node,
               \/ FindCRC(v) \/ GrowSkip(v) \/ GrowFlow(v) \/ GrowPath(v)
               \/ DropControl(v) \/ CleanupRemove(v) \/ SearchNext(v) \/ Reach(v)
        PROVE  CoordInv'
    BY <2>4, CoordFindCRC, CoordGrow, CoordOther, CoordSearch, CoordReach
  <2>5. CASE \E f \in Flow : DropFlow(f)
    BY <2>5, CoordOther
  <2> QED
    BY <1>2, <2>1, <2>2, <2>3, <2>4, <2>5 DEF Greedy
<1>3. CASE UNCHANGED vars
  <2>1. UNCHANGED <<crcs, crcControl, crcOf, clcs, cands, paths, pc, cur, todo>>
    BY <1>3 DEF vars
  <2>2. CLCSet' = CLCSet
    BY <2>1 DEF CLCSet
  <2> QED
    BY <2>1, <2>2 DEF CoordInv, CoordRecords, CoordLinks, LoopLinks
<1> QED
  BY <1>1, <1>2, <1>3 DEF Next

(* The CRC a node points to, the CRCcontrol lists and the list of CRCs agree,    *)
(* every CLC has its CRC, and findCRC is never asked for a candidate that has    *)
(* one already: addCRCcontrol would charge it twice and remCRCcontrol give back  *)
(* once.                                                                         *)
THEOREM CoordinationStaysInAgreement == Spec => []CoordinationRecordsAgree
<1>1. Init => CoordInv
  BY CoordInit
<1>2. Inv /\ CoordInv /\ [Next]_vars => CoordInv'
  BY CoordStep
<1>3. CoordInv => CoordinationRecordsAgree
  BY DEF CoordInv, CoordRecords, CoordLinks, CoordinationRecordsAgree
<1> QED
  BY <1>1, <1>2, <1>3, Invariance, PTL DEF Spec

--------------------------------------------------------------------------------
(* What is carried by a link when one more pair of nodes is on record.           *)
LEMMA CarriedType ==
  ASSUME NEW R \in [Node -> SUBSET Node], NEW e
  PROVE  IsFiniteSet(Carried(R, e)) /\ Cardinality(Carried(R, e)) \in Nat
<1>1. IsFiniteSet(Node \X Node)
  BY SetsAssumption, FS_Product
<1>2. Carried(R, e) \in SUBSET (Node \X Node)
  BY DEF Carried
<1>3. IsFiniteSet(Carried(R, e))
  BY <1>1, <1>2, FS_Subset
<1> QED BY <1>3, FS_CardinalityType

OneMore(R, Q, v, w) ==
  w \notin R[v] /\ Q[v] = R[v] \cup {w} /\ \A x \in Node : x # v => Q[x] = R[x]

LEMMA CarriedMore ==
  ASSUME NEW R \in [Node -> SUBSET Node], NEW Q \in [Node -> SUBSET Node],
         NEW v \in Node, NEW w \in Node, OneMore(R, Q, v, w), NEW e
  PROVE  Cardinality(Carried(Q, e))
           = Cardinality(Carried(R, e)) + (IF e \in PathEdges[v][w] THEN 1 ELSE 0)
<1>1. /\ Q[v] = R[v] \cup {w} /\ w \notin R[v]
      /\ \A x \in Node : x # v => Q[x] = R[x]
  BY DEF OneMore
<1>2. \A p \in Node \X Node : p[2] \in Q[p[1]] <=> p[2] \in R[p[1]] \/ p = <<v, w>>
  <2> SUFFICES ASSUME NEW x \in Node, NEW y \in Node
               PROVE  y \in Q[x] <=> y \in R[x] \/ (x = v /\ y = w)
    OBVIOUS
  <2>1. CASE x = v
    BY <1>1, <2>1
  <2>2. CASE x # v
    BY <1>1, <2>2
  <2> QED BY <2>1, <2>2
<1>3. IsFiniteSet(Carried(R, e)) /\ Cardinality(Carried(R, e)) \in Nat
  BY CarriedType
<1>4. CASE e \in PathEdges[v][w]
  <2>1. Carried(Q, e) = Carried(R, e) \cup {<<v, w>>}
    BY <1>2, <1>4 DEF Carried
  <2>2. <<v, w>> \notin Carried(R, e)
    BY <1>1 DEF Carried
  <2> QED BY <1>3, <1>4, <2>1, <2>2, FS_AddElement
<1>5. CASE e \notin PathEdges[v][w]
  <2>1. Carried(Q, e) = Carried(R, e)
    BY <1>2, <1>5 DEF Carried
  <2> QED BY <1>3, <1>5, <2>1
<1> QED BY <1>4, <1>5

(* Some p divided by less is no less.                                            *)
LEMMA DividedByLess ==
  ASSUME NEW p \in Nat, NEW d \in Nat \ {0}, NEW m \in Nat, d <= m
  PROVE  p \div m <= p \div d
<1>1. /\ p \div m \in Nat /\ p % m \in 0 .. m - 1 /\ p = m * (p \div m) + (p % m)
      /\ p \div d \in Nat /\ p % d \in 0 .. d - 1 /\ p = d * (p \div d) + (p % d)
  OBVIOUS
<1> DEFINE x == p \div m
           y == p \div d
<1>2. ASSUME x > y PROVE FALSE
  <2>1. x >= y + 1 /\ x \in Nat /\ y \in Nat BY <1>1, <1>2
  <2>2. m * x <= p BY <1>1
  <2>3. d * x <= m * x BY <2>1
  <2>4. d * (y + 1) <= d * x BY <2>1
  <2>5. d * (y + 1) = d * y + d BY <2>1
  <2>6. p < d * y + d BY <1>1
  <2>7. d * x \in Int /\ m * x \in Int /\ d * y \in Int BY <2>1
  <2> HIDE DEF x, y
  <2> QED BY <2>2, <2>3, <2>4, <2>5, <2>6, <2>7
<1> QED BY <1>1, <1>2

--------------------------------------------------------------------------------
(* The parts of LinkUse and NodeUse, of given records.                           *)
CLCHeld(R, c) == SumFunctionOnSet([w \in R[c] |-> CLCDemand(c, w)], R[c])
CRCHeld(R, c) == SumFunctionOnSet([w \in R[c] |-> CRCDemand(c, w)], R[c])
OfCLC(F, c) == {f \in Flow : F[f] = c}
FlowHeld(F, c) == SumFunctionOnSet([f \in OfCLC(F, c) |-> FlowNoted(c, f)], OfCLC(F, c))
OfAny(F) == {f \in Flow : F[f] # None}
Streamed(F, e) == SumFunctionOnSet([f \in OfAny(F) |-> Streams(F[f], f, e) * BFlow[f]], OfAny(F))

CLCNumbers(R) == \A c \in Node : \A w \in R[c] : CLCDemand(c, w) \in Nat
CRCNumbers(R) == \A c \in Node : \A w \in R[c] : CRCDemand(c, w) \in Nat
FlowNumbers(F) == \A f \in Flow : F[f] # None => FlowNoted(F[f], f) \in Nat

LinkUseOf(C, K, F, e) ==
  BCLC * Cardinality(Carried(C, e)) + BCRC * Cardinality(Carried(K, e)) + Streamed(F, e)
NodeUseOf(C, K, F, c) == CLCHeld(C, c) + CRCHeld(K, c) + FlowHeld(F, c)

LEMMA UseIsOf ==
  /\ \A e : LinkUse(e) = LinkUseOf(control, crcControl, flowCLC, e)
  /\ \A e : LinkUse(e)' = LinkUseOf(control', crcControl', flowCLC', e)
  /\ \A c : NodeUse(c) = NodeUseOf(control, crcControl, flowCLC, c)
  /\ \A c : NodeUse(c)' = NodeUseOf(control', crcControl', flowCLC', c)
<1> USE DEF LinkUse, Served, Streamed, OfAny, NodeUse, ControlUse, CLCHeld, CRCHeld, Satisfies,
            OfCLC, FlowHeld, Carried, LinkUseOf, NodeUseOf
<1>1. \A e : LinkUse(e) = LinkUseOf(control, crcControl, flowCLC, e)
  BY Zenon
<1>2. \A e : LinkUse(e)' = LinkUseOf(control', crcControl', flowCLC', e)
  BY Zenon
<1>3. \A c : NodeUse(c) = NodeUseOf(control, crcControl, flowCLC, c)
  BY Zenon
<1>4. \A c : NodeUse(c)' = NodeUseOf(control', crcControl', flowCLC', c)
  BY Zenon
<1> QED BY <1>1, <1>2, <1>3, <1>4

LEMMA FiniteRecords ==
  /\ \A R \in [Node -> SUBSET Node] : \A c \in Node : IsFiniteSet(R[c])
  /\ \A F : IsFiniteSet(OfAny(F)) /\ \A c : IsFiniteSet(OfCLC(F, c))
<1>1. IsFiniteSet(Node) /\ IsFiniteSet(Flow)
  BY SetsAssumption
<1>2. \A F : OfAny(F) \in SUBSET Flow /\ \A c : OfCLC(F, c) \in SUBSET Flow
  BY DEF OfAny, OfCLC
<1>3. \A R \in [Node -> SUBSET Node] : \A c \in Node : R[c] \in SUBSET Node
  OBVIOUS
<1> QED BY <1>1, <1>2, <1>3, FS_Subset

LEMMA HeldTypes ==
  ASSUME NEW R \in [Node -> SUBSET Node], NEW c \in Node
  PROVE  /\ CLCNumbers(R) => CLCHeld(R, c) \in Int
         /\ CRCNumbers(R) => CRCHeld(R, c) \in Int
<1>1. IsFiniteSet(R[c])
  BY FiniteRecords
<1>2. ASSUME CLCNumbers(R) PROVE CLCHeld(R, c) \in Int
  <2> DEFINE f == [w \in R[c] |-> CLCDemand(c, w)]
  <2>1. \A w \in R[c] : f[w] \in Int
    BY <1>2 DEF CLCNumbers
  <2> HIDE DEF f
  <2>2. SumFunctionOnSet(f, R[c]) \in Int
    BY <1>1, <2>1, SumIsInt
  <2> QED BY <2>2 DEF CLCHeld, f
<1>3. ASSUME CRCNumbers(R) PROVE CRCHeld(R, c) \in Int
  <2> DEFINE f == [w \in R[c] |-> CRCDemand(c, w)]
  <2>1. \A w \in R[c] : f[w] \in Int
    BY <1>3 DEF CRCNumbers
  <2> HIDE DEF f
  <2>2. SumFunctionOnSet(f, R[c]) \in Int
    BY <1>1, <2>1, SumIsInt
  <2> QED BY <2>2 DEF CRCHeld, f
<1> QED BY <1>2, <1>3

LEMMA FlowTypes ==
  ASSUME NEW F
  PROVE  /\ \A e : Streamed(F, e) \in Int
         /\ FlowNumbers(F) => \A c \in Node : FlowHeld(F, c) \in Int
<1>1. IsFiniteSet(OfAny(F)) /\ \A c : IsFiniteSet(OfCLC(F, c))
  BY FiniteRecords
<1>2. ASSUME NEW e PROVE Streamed(F, e) \in Int
  <2> DEFINE s == [f \in OfAny(F) |-> Streams(F[f], f, e) * BFlow[f]]
  <2>1. ASSUME NEW f \in OfAny(F) PROVE s[f] \in Int
    <3>1. f \in Flow BY DEF OfAny
    <3>2. Streams(F[f], f, e) \in Nat /\ BFlow[f] \in Nat BY <3>1, StreamsType, NetworkTypes
    <3>3. Streams(F[f], f, e) * BFlow[f] \in Int BY <3>2
    <3> QED BY <3>3
  <2> HIDE DEF s
  <2>2. SumFunctionOnSet(s, OfAny(F)) \in Int
    BY <1>1, <2>1, SumIsInt
  <2> QED BY <2>2 DEF Streamed, s
<1>3. ASSUME FlowNumbers(F), NEW c \in Node PROVE FlowHeld(F, c) \in Int
  <2> DEFINE s == [f \in OfCLC(F, c) |-> FlowNoted(c, f)]
  <2>1. ASSUME NEW f \in OfCLC(F, c) PROVE s[f] \in Int
    <3>1. f \in Flow /\ F[f] = c /\ c # None
      BY SetsAssumption DEF OfCLC
    <3> QED BY <1>3, <3>1 DEF FlowNumbers
  <2> HIDE DEF s
  <2>2. SumFunctionOnSet(s, OfCLC(F, c)) \in Int
    BY <1>1, <2>1, SumIsInt
  <2> QED BY <2>2 DEF FlowHeld, s
<1> QED BY <1>2, <1>3

(* One more pair of nodes on record, one more flow served.                       *)
LEMMA CLCHeldMore ==
  ASSUME NEW R \in [Node -> SUBSET Node], NEW Q \in [Node -> SUBSET Node],
         NEW v \in Node, NEW w \in Node, OneMore(R, Q, v, w), CLCNumbers(Q), NEW c \in Node
  PROVE  CLCHeld(Q, c) = CLCHeld(R, c) + (IF c = v THEN CLCDemand(v, w) ELSE 0)
<1>1. /\ Q[v] = R[v] \cup {w} /\ w \notin R[v] /\ IsFiniteSet(R[v])
      /\ \A x \in Node : x # v => Q[x] = R[x]
  BY FiniteRecords DEF OneMore
<1>2. CASE c = v
  <2> DEFINE f == [x \in R[v] |-> CLCDemand(v, x)]
             g == [x \in Q[v] |-> CLCDemand(v, x)]
  <2>1. /\ \A x \in R[v] : f[x] \in Int /\ g[x] = f[x]
        /\ g[w] \in Int /\ g[w] = CLCDemand(v, w)
    BY <1>1 DEF CLCNumbers
  <2> HIDE DEF f, g
  <2>2. SumFunctionOnSet(g, R[v] \cup {w}) = SumFunctionOnSet(f, R[v]) + g[w]
    BY <1>1, <2>1, SumGrown DEF Ints, Agree
  <2> QED BY <1>1, <1>2, <2>1, <2>2 DEF CLCHeld, f, g
<1>3. CASE c # v
  <2>1. CLCHeld(Q, c) = CLCHeld(R, c)
    BY <1>1, <1>3 DEF CLCHeld
  <2>2. CLCNumbers(R)
    BY <1>1 DEF CLCNumbers
  <2> QED BY <1>3, <2>1, <2>2, HeldTypes
<1> QED BY <1>2, <1>3

LEMMA CRCHeldMore ==
  ASSUME NEW R \in [Node -> SUBSET Node], NEW Q \in [Node -> SUBSET Node],
         NEW v \in Node, NEW w \in Node, OneMore(R, Q, v, w), CRCNumbers(Q), NEW c \in Node
  PROVE  CRCHeld(Q, c) = CRCHeld(R, c) + (IF c = v THEN CRCDemand(v, w) ELSE 0)
<1>1. /\ Q[v] = R[v] \cup {w} /\ w \notin R[v] /\ IsFiniteSet(R[v])
      /\ \A x \in Node : x # v => Q[x] = R[x]
  BY FiniteRecords DEF OneMore
<1>2. CASE c = v
  <2> DEFINE f == [x \in R[v] |-> CRCDemand(v, x)]
             g == [x \in Q[v] |-> CRCDemand(v, x)]
  <2>1. /\ \A x \in R[v] : f[x] \in Int /\ g[x] = f[x]
        /\ g[w] \in Int /\ g[w] = CRCDemand(v, w)
    BY <1>1 DEF CRCNumbers
  <2> HIDE DEF f, g
  <2>2. SumFunctionOnSet(g, R[v] \cup {w}) = SumFunctionOnSet(f, R[v]) + g[w]
    BY <1>1, <2>1, SumGrown DEF Ints, Agree
  <2> QED BY <1>1, <1>2, <2>1, <2>2 DEF CRCHeld, f, g
<1>3. CASE c # v
  <2>1. CRCHeld(Q, c) = CRCHeld(R, c)
    BY <1>1, <1>3 DEF CRCHeld
  <2>2. CRCNumbers(R)
    BY <1>1 DEF CRCNumbers
  <2> QED BY <1>3, <2>1, <2>2, HeldTypes
<1> QED BY <1>2, <1>3

OneMoreFlow(F, G, v, d) ==
  F[d] = None /\ G[d] = v /\ \A x \in Flow : x # d => G[x] = F[x]

LEMMA FlowHeldMore ==
  ASSUME NEW F \in [Flow -> Cand \cup {None}], NEW G, NEW v \in Cand, NEW d \in Flow,
         OneMoreFlow(F, G, v, d), FlowNumbers(G), NEW c \in Node
  PROVE  FlowHeld(G, c) = FlowHeld(F, c) + (IF c = v THEN FlowNoted(v, d) ELSE 0)
<1>1. /\ G[d] = v /\ F[d] = None /\ \A x \in Flow : x # d => G[x] = F[x]
      /\ None \notin Node /\ v # None /\ v \in Node
  BY SetsAssumption DEF OneMoreFlow
<1>2. FlowNumbers(F)
  BY <1>1 DEF FlowNumbers
<1>3. CASE c = v
  <2> DEFINE s == [x \in OfCLC(F, v) |-> FlowNoted(v, x)]
             t == [x \in OfCLC(G, v) |-> FlowNoted(v, x)]
             S == OfCLC(F, v)
  <2>1. OfCLC(G, v) = S \cup {d} /\ d \notin S
    BY <1>1 DEF OfCLC
  <2>2. \A x \in S : s[x] \in Int /\ t[x] = s[x]
    <3>1. \A x \in S : FlowNoted(v, x) \in Nat
      BY <1>1, <1>2 DEF FlowNumbers, OfCLC
    <3> QED BY <2>1, <3>1
  <2>3. t[d] \in Int /\ t[d] = FlowNoted(v, d)
    <3>1. FlowNoted(v, d) \in Nat
      BY <1>1 DEF FlowNumbers
    <3> QED BY <2>1, <3>1
  <2>4. IsFiniteSet(S)
    BY FiniteRecords
  <2> HIDE DEF s, t, S
  <2>6. Ints(s, S) /\ Agree(s, t, S) /\ d \notin S
    BY <2>1, <2>2 DEF Ints, Agree
  <2>5. SumFunctionOnSet(t, S \cup {d}) = SumFunctionOnSet(s, S) + t[d]
    BY <2>3, <2>4, <2>6, SumGrown
  <2> QED BY <1>3, <2>1, <2>3, <2>5 DEF FlowHeld, s, t, S
<1>4. CASE c # v
  <2>1. OfCLC(F, c) = OfCLC(G, c)
    BY <1>1, <1>4 DEF OfCLC
  <2>2. FlowHeld(G, c) = FlowHeld(F, c)
    BY <2>1 DEF FlowHeld
  <2> QED BY <1>2, <1>4, <2>2, FlowTypes
<1> QED BY <1>3, <1>4

LEMMA StreamedMore ==
  ASSUME NEW F \in [Flow -> Cand \cup {None}], NEW G, NEW v \in Cand, NEW d \in Flow,
         OneMoreFlow(F, G, v, d), NEW e
  PROVE  Streamed(G, e) = Streamed(F, e) + Streams(v, d, e) * BFlow[d]
<1>1. /\ G[d] = v /\ F[d] = None /\ \A x \in Flow : x # d => G[x] = F[x]
      /\ v # None
  BY SetsAssumption DEF OneMoreFlow
<1> DEFINE S == OfAny(F)
           s == [x \in S |-> Streams(F[x], x, e) * BFlow[x]]
           t == [x \in OfAny(G) |-> Streams(G[x], x, e) * BFlow[x]]
<1>2. OfAny(G) = S \cup {d} /\ d \notin S
  BY <1>1 DEF OfAny
<1>3. \A x \in Flow : \A u : Streams(u, x, e) * BFlow[x] \in Int
  <2> SUFFICES ASSUME NEW x \in Flow, NEW u PROVE Streams(u, x, e) * BFlow[x] \in Int
    OBVIOUS
  <2>1. Streams(u, x, e) \in Nat /\ BFlow[x] \in Nat
    BY StreamsType, NetworkTypes
  <2> QED BY <2>1
<1>4. S \subseteq Flow
  BY DEF OfAny
<1>5. \A x \in S : s[x] \in Int /\ t[x] = s[x]
  <2> SUFFICES ASSUME NEW x \in S PROVE s[x] \in Int /\ t[x] = s[x]
    OBVIOUS
  <2>1. x # d /\ x \in Flow /\ x \in OfAny(G)
    BY <1>2, <1>4
  <2>2. s[x] = Streams(F[x], x, e) * BFlow[x] /\ t[x] = Streams(G[x], x, e) * BFlow[x]
    BY <2>1
  <2> QED BY <1>1, <1>3, <2>1, <2>2
<1>6. t[d] \in Int /\ t[d] = Streams(v, d, e) * BFlow[d]
  BY <1>1, <1>2, <1>3
<1>7. IsFiniteSet(S)
  BY FiniteRecords
<1> HIDE DEF s, t, S
<1>8. Ints(s, S) /\ Agree(s, t, S) /\ d \notin S
  BY <1>2, <1>5 DEF Ints, Agree
<1>10. SumFunctionOnSet(t, S \cup {d}) = SumFunctionOnSet(s, S) + t[d]
  BY <1>6, <1>7, <1>8, SumGrown
<1>9. Streamed(G, e) = SumFunctionOnSet(t, S \cup {d}) /\ Streamed(F, e) = SumFunctionOnSet(s, S)
  BY <1>2 DEF Streamed, s, t, S
<1> QED BY <1>6, <1>9, <1>10

--------------------------------------------------------------------------------
(* What one more control, coordination or flow adds to the use of the links and  *)
(* of the nodes.                                                                 *)

Records(C, K, F) ==
  /\ C \in [Node -> SUBSET Node] /\ K \in [Node -> SUBSET Node]
  /\ F \in [Flow -> Cand \cup {None}]
  /\ CLCNumbers(C) /\ CRCNumbers(K) /\ FlowNumbers(F)

LEMMA UseTypes ==
  ASSUME NEW C, NEW K, NEW F, Records(C, K, F)
  PROVE  /\ \A e : LinkUseOf(C, K, F, e) \in Int
         /\ \A c \in Node : NodeUseOf(C, K, F, c) \in Int
<1>1. /\ C \in [Node -> SUBSET Node] /\ K \in [Node -> SUBSET Node]
      /\ BCLC \in Nat /\ BCRC \in Nat
      /\ CLCNumbers(C) /\ CRCNumbers(K) /\ FlowNumbers(F)
  BY DemandAssumption DEF Records
<1>2. ASSUME NEW e PROVE LinkUseOf(C, K, F, e) \in Int
  <2>1. /\ Cardinality(Carried(C, e)) \in Nat /\ Cardinality(Carried(K, e)) \in Nat
        /\ Streamed(F, e) \in Int
    BY <1>1, CarriedType, FlowTypes
  <2> QED BY <1>1, <2>1 DEF LinkUseOf
<1>3. ASSUME NEW c \in Node PROVE NodeUseOf(C, K, F, c) \in Int
  <2>1. CLCHeld(C, c) \in Int /\ CRCHeld(K, c) \in Int /\ FlowHeld(F, c) \in Int
    BY <1>1, HeldTypes, FlowTypes
  <2> QED BY <2>1 DEF NodeUseOf
<1> QED BY <1>2, <1>3

LEMMA CLCMore ==
  ASSUME NEW C, NEW D, NEW K, NEW F, Records(C, K, F), Records(D, K, F),
         NEW v \in Cand, NEW w \in Node, OneMore(C, D, v, w)
  PROVE  /\ \A e : LinkUseOf(D, K, F, e)
                    = LinkUseOf(C, K, F, e) + (IF e \in PathEdges[v][w] THEN BCLC ELSE 0)
         /\ \A c \in Node : NodeUseOf(D, K, F, c)
                           = NodeUseOf(C, K, F, c) + (IF c = v THEN CLCDemand(v, w) ELSE 0)
         /\ CLCDemand(v, w) \in Nat
<1>1. /\ C \in [Node -> SUBSET Node] /\ D \in [Node -> SUBSET Node] /\ v \in Node
      /\ K \in [Node -> SUBSET Node] /\ BCLC \in Nat /\ BCRC \in Nat
      /\ CLCNumbers(C) /\ CLCNumbers(D) /\ CRCNumbers(K) /\ FlowNumbers(F)
  BY NetworkTypes, DemandAssumption DEF Records
<1>2. ASSUME NEW e
      PROVE  LinkUseOf(D, K, F, e)
               = LinkUseOf(C, K, F, e) + (IF e \in PathEdges[v][w] THEN BCLC ELSE 0)
  <2> DEFINE n == Cardinality(Carried(C, e))
             m == Cardinality(Carried(D, e))
             k == Cardinality(Carried(K, e))
             x == BCRC * k
             y == Streamed(F, e)
  <2>1. m = n + (IF e \in PathEdges[v][w] THEN 1 ELSE 0)
    BY <1>1, CarriedMore
  <2>2. n \in Nat /\ m \in Nat /\ k \in Nat
    BY <1>1, CarriedType
  <2>3. y \in Int
    BY FlowTypes
  <2>4. /\ LinkUseOf(D, K, F, e) = BCLC * m + x + y
        /\ LinkUseOf(C, K, F, e) = BCLC * n + x + y
    BY DEF LinkUseOf
  <2> HIDE DEF n, m, k, y
  <2>5. x \in Int /\ BCLC * n \in Int
    BY <1>1, <2>2
  <2> HIDE DEF x
  <2>6. BCLC * m = BCLC * n + (IF e \in PathEdges[v][w] THEN BCLC ELSE 0)
    BY <1>1, <2>1, <2>2
  <2> QED BY <1>1, <2>3, <2>4, <2>5, <2>6
<1>3. ASSUME NEW c \in Node
      PROVE  NodeUseOf(D, K, F, c)
               = NodeUseOf(C, K, F, c) + (IF c = v THEN CLCDemand(v, w) ELSE 0)
  <2> DEFINE n == CLCHeld(C, c)
             m == CLCHeld(D, c)
             x == CRCHeld(K, c)
             y == FlowHeld(F, c)
  <2>1. m = n + (IF c = v THEN CLCDemand(v, w) ELSE 0)
    BY <1>1, CLCHeldMore
  <2>2. n \in Int /\ m \in Int /\ x \in Int
    BY <1>1, HeldTypes
  <2>3. y \in Int
    BY <1>1, FlowTypes
  <2>4. /\ NodeUseOf(D, K, F, c) = m + x + y
        /\ NodeUseOf(C, K, F, c) = n + x + y
    BY DEF NodeUseOf
  <2>5. CLCDemand(v, w) \in Nat
    BY <1>1 DEF CLCNumbers, OneMore
  <2> HIDE DEF n, m, x, y
  <2> QED BY <2>1, <2>2, <2>3, <2>4, <2>5
<1>4. CLCDemand(v, w) \in Nat
  BY <1>1 DEF CLCNumbers, OneMore
<1> QED BY <1>2, <1>3, <1>4

LEMMA CRCMore ==
  ASSUME NEW K, NEW L, NEW C, NEW F, Records(C, K, F), Records(C, L, F),
         NEW v \in Cand, NEW w \in Node, OneMore(K, L, v, w)
  PROVE  /\ \A e : LinkUseOf(C, L, F, e)
                    = LinkUseOf(C, K, F, e) + (IF e \in PathEdges[v][w] THEN BCRC ELSE 0)
         /\ \A c \in Node : NodeUseOf(C, L, F, c)
                           = NodeUseOf(C, K, F, c) + (IF c = v THEN CRCDemand(v, w) ELSE 0)
         /\ CRCDemand(v, w) \in Nat
<1>1. /\ K \in [Node -> SUBSET Node] /\ L \in [Node -> SUBSET Node] /\ v \in Node
      /\ C \in [Node -> SUBSET Node] /\ BCLC \in Nat /\ BCRC \in Nat
      /\ CRCNumbers(K) /\ CRCNumbers(L) /\ CLCNumbers(C) /\ FlowNumbers(F)
  BY NetworkTypes, DemandAssumption DEF Records
<1>2. ASSUME NEW e
      PROVE  LinkUseOf(C, L, F, e)
               = LinkUseOf(C, K, F, e) + (IF e \in PathEdges[v][w] THEN BCRC ELSE 0)
  <2> DEFINE n == Cardinality(Carried(K, e))
             m == Cardinality(Carried(L, e))
             k == Cardinality(Carried(C, e))
             x == BCLC * k
             y == Streamed(F, e)
  <2>1. m = n + (IF e \in PathEdges[v][w] THEN 1 ELSE 0)
    BY <1>1, CarriedMore
  <2>2. n \in Nat /\ m \in Nat /\ k \in Nat
    BY <1>1, CarriedType
  <2>3. y \in Int
    BY FlowTypes
  <2>4. /\ LinkUseOf(C, L, F, e) = x + BCRC * m + y
        /\ LinkUseOf(C, K, F, e) = x + BCRC * n + y
    BY DEF LinkUseOf
  <2> HIDE DEF n, m, k, y
  <2>5. x \in Int /\ BCRC * n \in Int
    BY <1>1, <2>2
  <2> HIDE DEF x
  <2>6. BCRC * m = BCRC * n + (IF e \in PathEdges[v][w] THEN BCRC ELSE 0)
    BY <1>1, <2>1, <2>2
  <2> QED BY <1>1, <2>3, <2>4, <2>5, <2>6
<1>3. ASSUME NEW c \in Node
      PROVE  NodeUseOf(C, L, F, c)
               = NodeUseOf(C, K, F, c) + (IF c = v THEN CRCDemand(v, w) ELSE 0)
  <2> DEFINE n == CRCHeld(K, c)
             m == CRCHeld(L, c)
             x == CLCHeld(C, c)
             y == FlowHeld(F, c)
  <2>1. m = n + (IF c = v THEN CRCDemand(v, w) ELSE 0)
    BY <1>1, CRCHeldMore
  <2>2. n \in Int /\ m \in Int /\ x \in Int
    BY <1>1, HeldTypes
  <2>3. y \in Int
    BY <1>1, FlowTypes
  <2>4. /\ NodeUseOf(C, L, F, c) = x + m + y
        /\ NodeUseOf(C, K, F, c) = x + n + y
    BY DEF NodeUseOf
  <2>5. CRCDemand(v, w) \in Nat
    BY <1>1 DEF CRCNumbers, OneMore
  <2> HIDE DEF n, m, x, y
  <2> QED BY <2>1, <2>2, <2>3, <2>4, <2>5
<1>4. CRCDemand(v, w) \in Nat
  BY <1>1 DEF CRCNumbers, OneMore
<1> QED BY <1>2, <1>3, <1>4

LEMMA FlowMore ==
  ASSUME NEW C, NEW K, NEW F, NEW G, Records(C, K, F), Records(C, K, G),
         NEW v \in Cand, NEW d \in Flow, OneMoreFlow(F, G, v, d)
  PROVE  /\ \A e : LinkUseOf(C, K, G, e) = LinkUseOf(C, K, F, e) + Streams(v, d, e) * BFlow[d]
         /\ \A c \in Node : NodeUseOf(C, K, G, c)
                           = NodeUseOf(C, K, F, c) + (IF c = v THEN FlowNoted(v, d) ELSE 0)
<1>1. /\ C \in [Node -> SUBSET Node] /\ K \in [Node -> SUBSET Node] /\ v \in Node
      /\ F \in [Flow -> Cand \cup {None}] /\ BCLC \in Nat /\ BCRC \in Nat
      /\ CLCNumbers(C) /\ CRCNumbers(K) /\ FlowNumbers(F) /\ FlowNumbers(G)
  BY NetworkTypes, DemandAssumption DEF Records
<1>2. ASSUME NEW e
      PROVE  LinkUseOf(C, K, G, e) = LinkUseOf(C, K, F, e) + Streams(v, d, e) * BFlow[d]
  <2> DEFINE n == Cardinality(Carried(C, e))
             k == Cardinality(Carried(K, e))
             x == BCLC * n + BCRC * k
             z == Streams(v, d, e) * BFlow[d]
  <2>1. Streamed(G, e) = Streamed(F, e) + z
    BY <1>1, StreamedMore
  <2>2. n \in Nat /\ k \in Nat /\ Streamed(F, e) \in Int
    BY <1>1, CarriedType, FlowTypes
  <2>3. z \in Int
    <3>1. Streams(v, d, e) \in Nat /\ BFlow[d] \in Nat BY StreamsType, NetworkTypes
    <3> QED BY <3>1
  <2>4. LinkUseOf(C, K, G, e) = x + Streamed(G, e) /\ LinkUseOf(C, K, F, e) = x + Streamed(F, e)
    BY DEF LinkUseOf
  <2> HIDE DEF n, k, z
  <2>5. x \in Int
    BY <1>1, <2>2
  <2> HIDE DEF x
  <2>6. x + Streamed(G, e) = (x + Streamed(F, e)) + z
    BY <2>1, <2>2, <2>3, <2>5
  <2> QED BY <2>4, <2>6 DEF z
<1>3. ASSUME NEW c \in Node
      PROVE  NodeUseOf(C, K, G, c) = NodeUseOf(C, K, F, c) + (IF c = v THEN FlowNoted(v, d) ELSE 0)
  <2> DEFINE x == CLCHeld(C, c)
             y == CRCHeld(K, c)
             n == FlowHeld(F, c)
             m == FlowHeld(G, c)
  <2>1. m = n + (IF c = v THEN FlowNoted(v, d) ELSE 0)
    BY <1>1, FlowHeldMore
  <2>2. x \in Int /\ y \in Int /\ n \in Int
    BY <1>1, HeldTypes, FlowTypes
  <2>3. NodeUseOf(C, K, G, c) = x + y + m /\ NodeUseOf(C, K, F, c) = x + y + n
    BY DEF NodeUseOf
  <2>4. FlowNoted(v, d) \in Nat
    BY <1>1, SetsAssumption DEF FlowNumbers, OneMoreFlow
  <2> HIDE DEF x, y, n, m
  <2> QED BY <2>1, <2>2, <2>3, <2>4
<1> QED BY <1>2, <1>3

--------------------------------------------------------------------------------
(* The elementary operations keep the accounts.                                  *)

Accounts == LinkAccounting /\ NodeAccounting
AccountTypes ==
  /\ Records(control, crcControl, flowCLC)
  /\ bRem \in [Edge -> Int] /\ pRem \in [Cand -> Int]

LEMMA UseNumbers ==
  ASSUME AccountTypes, AccountTypes'
  PROVE  /\ \A e : LinkUse(e) \in Int /\ LinkUse(e)' \in Int
         /\ \A c \in Cand : NodeUse(c) \in Int /\ NodeUse(c)' \in Int
BY UseTypes, UseIsOf, NetworkTypes DEF AccountTypes

LinksBalanced == \A e \in Edge : bRem'[e] + LinkUse(e)' = bRem[e] + LinkUse(e)
NodesBalanced == \A c \in Cand : pRem'[c] + NodeUse(c)' <= pRem[c] + NodeUse(c)

(* It is enough that the remaining capacity of a link changes by as much as its  *)
(* use, and that of a node does not grow by more than its use shrinks.           *)
LEMMA Balanced ==
  ASSUME AccountTypes, AccountTypes', Accounts, LinksBalanced, NodesBalanced
  PROVE  Accounts'
<1> USE DEF LinksBalanced, NodesBalanced
<1>1. ASSUME NEW e \in Edge PROVE BCap[e] - bRem'[e] = LinkUse(e)'
  <2>1. /\ bRem[e] \in Int /\ bRem'[e] \in Int /\ BCap[e] \in Int
        /\ LinkUse(e) \in Int /\ LinkUse(e)' \in Int
    BY UseNumbers, DemandAssumption DEF AccountTypes
  <2>2. BCap[e] - bRem[e] = LinkUse(e)
    BY DEF Accounts, LinkAccounting
  <2> QED BY <2>1, <2>2
<1>2. ASSUME NEW c \in Cand PROVE pRem'[c] + NodeUse(c)' <= PNode[c]
  <2>1. /\ pRem[c] \in Int /\ pRem'[c] \in Int /\ PNode[c] \in Int
        /\ NodeUse(c) \in Int /\ NodeUse(c)' \in Int
    BY UseNumbers, DemandAssumption DEF AccountTypes
  <2>2. pRem[c] + NodeUse(c) <= PNode[c]
    BY DEF Accounts, NodeAccounting
  <2> QED BY <2>1, <2>2
<1> QED BY <1>1, <1>2 DEF Accounts, LinkAccounting, NodeAccounting

LEMMA StreamsTimesRate == ASSUME NEW v, NEW d \in Flow PROVE \A e : Streams(v, d, e) * BFlow[d] \in Int
<1> SUFFICES ASSUME NEW e PROVE Streams(v, d, e) * BFlow[d] \in Int
  OBVIOUS
<1>1. Streams(v, d, e) \in Nat /\ BFlow[d] \in Nat
  BY StreamsType, NetworkTypes
<1> QED BY <1>1

LEMMA AddCLCcontrolAccounts ==
  ASSUME AccountTypes, AccountTypes', Accounts, NEW v \in Cand, NEW w \in Node, w \notin control[v],
         AddCLCcontrol(v, w), UNCHANGED <<crcControl, flowCLC>>
  PROVE  Accounts'
<1>1. /\ control \in [Node -> SUBSET Node] /\ v \in Node /\ BCLC \in Nat
      /\ bRem \in [Edge -> Int] /\ pRem \in [Cand -> Int]
  BY NetworkTypes, DemandAssumption DEF AccountTypes, Records
<1>2. control' = [control EXCEPT ![v] = @ \cup {w}]
  BY DEF AddCLCcontrol
<1>3. OneMore(control, control', v, w)
  BY <1>1, <1>2 DEF OneMore
<1>4. /\ \A e : LinkUse(e)' = LinkUse(e) + (IF e \in PathEdges[v][w] THEN BCLC ELSE 0)
      /\ \A c \in Node : NodeUse(c)'
                        = NodeUse(c) + (IF c = v THEN CLCDemand(v, w) ELSE 0)
      /\ CLCDemand(v, w) \in Nat
  BY <1>3, CLCMore, UseIsOf DEF AccountTypes
<1>5. /\ \A e \in Edge : bRem'[e] = bRem[e] - (IF e \in PathEdges[v][w] THEN BCLC ELSE 0)
      /\ \A c \in Cand : pRem'[c] = pRem[c] - (IF c = v THEN CLCDemand(v, w) ELSE 0)
  BY <1>1, <1>4 DEF AddCLCcontrol, Charge
<1>8. LinksBalanced
  BY <1>1, <1>4, <1>5, UseNumbers DEF LinksBalanced
<1>9. NodesBalanced
  BY <1>1, <1>4, <1>5, UseNumbers, NetworkTypes DEF NodesBalanced
<1> QED BY <1>8, <1>9, Balanced

LEMMA RemCLCcontrolAccounts ==
  ASSUME AccountTypes, AccountTypes', Accounts, NEW v \in Cand, NEW w \in Node, w \in control[v],
         RemCLCcontrol(v, w), UNCHANGED <<crcControl, flowCLC>>
  PROVE  Accounts'
<1>1. /\ control \in [Node -> SUBSET Node] /\ v \in Node /\ BCLC \in Nat
      /\ bRem \in [Edge -> Int] /\ pRem \in [Cand -> Int]
  BY NetworkTypes, DemandAssumption DEF AccountTypes, Records
<1>2. control' = [control EXCEPT ![v] = @ \ {w}]
  BY DEF RemCLCcontrol
<1>3. OneMore(control', control, v, w)
  BY <1>1, <1>2 DEF OneMore
<1>4. /\ \A e : LinkUse(e) = LinkUse(e)' + (IF e \in PathEdges[v][w] THEN BCLC ELSE 0)
      /\ \A c \in Node : NodeUse(c)
                        = NodeUse(c)' + (IF c = v THEN CLCDemand(v, w) ELSE 0)
      /\ CLCDemand(v, w) \in Nat
  BY <1>3, CLCMore, UseIsOf DEF AccountTypes
<1>5. /\ \A e \in Edge : bRem'[e] = bRem[e] + (IF e \in PathEdges[v][w] THEN BCLC ELSE 0)
      /\ \A c \in Cand : pRem'[c] = pRem[c] + (IF c = v THEN CLCDemand(v, w) ELSE 0)
  BY <1>1, <1>4 DEF RemCLCcontrol, Refund
<1>8. LinksBalanced
  BY <1>1, <1>4, <1>5, UseNumbers DEF LinksBalanced
<1>9. NodesBalanced
  BY <1>1, <1>4, <1>5, UseNumbers, NetworkTypes DEF NodesBalanced
<1> QED BY <1>8, <1>9, Balanced

LEMMA AddCRCcontrolAccounts ==
  ASSUME AccountTypes, AccountTypes', Accounts, NEW v \in Cand, NEW w \in Node, w \notin crcControl[v],
         AddCRCcontrol(v, w), UNCHANGED <<control, flowCLC>>
  PROVE  Accounts'
<1>1. /\ crcControl \in [Node -> SUBSET Node] /\ v \in Node /\ BCRC \in Nat
      /\ bRem \in [Edge -> Int] /\ pRem \in [Cand -> Int]
  BY NetworkTypes, DemandAssumption DEF AccountTypes, Records
<1>2. crcControl' = [crcControl EXCEPT ![v] = @ \cup {w}]
  BY DEF AddCRCcontrol
<1>3. OneMore(crcControl, crcControl', v, w)
  BY <1>1, <1>2 DEF OneMore
<1>4. /\ \A e : LinkUse(e)' = LinkUse(e) + (IF e \in PathEdges[v][w] THEN BCRC ELSE 0)
      /\ \A c \in Node : NodeUse(c)'
                        = NodeUse(c) + (IF c = v THEN CRCDemand(v, w) ELSE 0)
      /\ CRCDemand(v, w) \in Nat
  BY <1>3, CRCMore, UseIsOf DEF AccountTypes
<1>5. /\ \A e \in Edge : bRem'[e] = bRem[e] - (IF e \in PathEdges[v][w] THEN BCRC ELSE 0)
      /\ \A c \in Cand : pRem'[c] = pRem[c] - (IF c = v THEN CRCDemand(v, w) ELSE 0)
  BY <1>1, <1>4 DEF AddCRCcontrol, Charge
<1>8. LinksBalanced
  BY <1>1, <1>4, <1>5, UseNumbers DEF LinksBalanced
<1>9. NodesBalanced
  BY <1>1, <1>4, <1>5, UseNumbers, NetworkTypes DEF NodesBalanced
<1> QED BY <1>8, <1>9, Balanced

LEMMA RemCRCcontrolAccounts ==
  ASSUME AccountTypes, AccountTypes', Accounts, NEW v \in Cand, NEW w \in Node, w \in crcControl[v],
         RemCRCcontrol(v, w), UNCHANGED <<control, flowCLC>>
  PROVE  Accounts'
<1>1. /\ crcControl \in [Node -> SUBSET Node] /\ v \in Node /\ BCRC \in Nat
      /\ bRem \in [Edge -> Int] /\ pRem \in [Cand -> Int]
  BY NetworkTypes, DemandAssumption DEF AccountTypes, Records
<1>2. crcControl' = [crcControl EXCEPT ![v] = @ \ {w}]
  BY DEF RemCRCcontrol
<1>3. OneMore(crcControl', crcControl, v, w)
  BY <1>1, <1>2 DEF OneMore
<1>4. /\ \A e : LinkUse(e) = LinkUse(e)' + (IF e \in PathEdges[v][w] THEN BCRC ELSE 0)
      /\ \A c \in Node : NodeUse(c)
                        = NodeUse(c)' + (IF c = v THEN CRCDemand(v, w) ELSE 0)
      /\ CRCDemand(v, w) \in Nat
  BY <1>3, CRCMore, UseIsOf DEF AccountTypes
<1>5. /\ \A e \in Edge : bRem'[e] = bRem[e] + (IF e \in PathEdges[v][w] THEN BCRC ELSE 0)
      /\ \A c \in Cand : pRem'[c] = pRem[c] + (IF c = v THEN CRCDemand(v, w) ELSE 0)
  BY <1>1, <1>4 DEF RemCRCcontrol, Refund
<1>8. LinksBalanced
  BY <1>1, <1>4, <1>5, UseNumbers DEF LinksBalanced
<1>9. NodesBalanced
  BY <1>1, <1>4, <1>5, UseNumbers, NetworkTypes DEF NodesBalanced
<1> QED BY <1>8, <1>9, Balanced

(* The divisor of what is taken is smaller by Eps than the divisor of what is    *)
(* noted.                                                                        *)
LEMMA NotedIsTaken ==
  ASSUME NEW v \in Node, NEW d \in Flow, \A k \in Wb[d] : RTT[v][k] < LFlow[d] - Eps
  PROVE  FlowNoted(v, d) \in Nat /\ FlowTaken(v, d) \in Nat /\ FlowNoted(v, d) <= FlowTaken(v, d)
<1>1. LFlow[d] \in Nat /\ Eps \in Nat /\ PFlow[d] \in Nat
  BY DemandAssumption
<1>2. MaxRTT(v, d) \in Nat /\ MaxRTT(v, d) < LFlow[d] - Eps
  BY <1>1, MaxRTTWithin
<1> DEFINE n == LFlow[d] - MaxRTT(v, d)
           t == LFlow[d] - Eps - MaxRTT(v, d)
<1>3. t \in Nat \ {0} /\ n \in Nat /\ t <= n
  BY <1>1, <1>2
<1>4. FlowNoted(v, d) = PFlow[d] \div n /\ FlowTaken(v, d) = PFlow[d] \div t
  BY DEF FlowNoted, FlowTaken, Demand
<1> HIDE DEF n, t
<1>5. PFlow[d] \div n \in Nat /\ PFlow[d] \div t \in Nat
  BY <1>1, <1>3
<1>6. PFlow[d] \div n <= PFlow[d] \div t
  BY <1>1, <1>3, DividedByLess
<1> QED BY <1>4, <1>5, <1>6

LEMMA AddFlowSatAccounts ==
  ASSUME AccountTypes, AccountTypes', Accounts, NEW v \in Cand, NEW d \in Flow, flowCLC[d] = None,
         \A k \in Wb[d] : RTT[v][k] < LFlow[d] - Eps,
         AddFlowSat(v, d), UNCHANGED <<control, crcControl>>
  PROVE  Accounts'
<1>1. /\ flowCLC \in [Flow -> Cand \cup {None}] /\ v \in Node
      /\ bRem \in [Edge -> Int] /\ pRem \in [Cand -> Int]
  BY NetworkTypes DEF AccountTypes, Records
<1>2. OneMoreFlow(flowCLC, flowCLC', v, d)
  BY <1>1 DEF AddFlowSat, OneMoreFlow
<1>3. /\ \A e : LinkUse(e)' = LinkUse(e) + Streams(v, d, e) * BFlow[d]
      /\ \A c \in Node : NodeUse(c)' = NodeUse(c) + (IF c = v THEN FlowNoted(v, d) ELSE 0)
  BY <1>2, FlowMore, UseIsOf DEF AccountTypes
<1>4. FlowNoted(v, d) \in Nat /\ FlowTaken(v, d) \in Nat /\ FlowNoted(v, d) <= FlowTaken(v, d)
  BY <1>1, NotedIsTaken
<1>5. /\ \A e \in Edge : bRem'[e] = bRem[e] - Streams(v, d, e) * BFlow[d]
      /\ \A c \in Cand : pRem'[c] = pRem[c] - (IF c = v THEN FlowTaken(v, d) ELSE 0)
  BY <1>1, <1>4 DEF AddFlowSat
<1>6. \A e : Streams(v, d, e) * BFlow[d] \in Int
  BY StreamsTimesRate
<1>8. LinksBalanced
  BY <1>1, <1>3, <1>4, <1>5, <1>6, UseNumbers DEF LinksBalanced
<1>9. NodesBalanced
  BY <1>1, <1>3, <1>4, <1>5, <1>6, UseNumbers, NetworkTypes DEF NodesBalanced
<1> QED BY <1>8, <1>9, Balanced

LEMMA RemFlowSatAccounts ==
  ASSUME AccountTypes, AccountTypes', Accounts, NEW d \in Flow, flowCLC[d] # None,
         RemFlowSat(d), UNCHANGED <<control, crcControl>>
  PROVE  Accounts'
<1> DEFINE v == flowCLC[d]
<1>1. /\ flowCLC \in [Flow -> Cand \cup {None}] /\ v \in Cand /\ v \in Node
      /\ bRem \in [Edge -> Int] /\ pRem \in [Cand -> Int]
      /\ FlowNoted(v, d) \in Nat
  BY NetworkTypes DEF AccountTypes, Records, FlowNumbers
<1>2. OneMoreFlow(flowCLC', flowCLC, v, d)
  BY <1>1 DEF RemFlowSat, OneMoreFlow
<1>3. /\ \A e \in Edge : bRem'[e] = bRem[e] + Streams(v, d, e) * BFlow[d]
      /\ \A c \in Cand : pRem'[c] = pRem[c] + (IF c = v THEN FlowNoted(v, d) ELSE 0)
  BY <1>1 DEF RemFlowSat, StreamsReleased
<1> HIDE DEF v
<1>4. /\ \A e : LinkUse(e) = LinkUse(e)' + Streams(v, d, e) * BFlow[d]
      /\ \A c \in Node : NodeUse(c) = NodeUse(c)' + (IF c = v THEN FlowNoted(v, d) ELSE 0)
  BY <1>1, <1>2, FlowMore, UseIsOf DEF AccountTypes
<1>5. \A e : Streams(v, d, e) * BFlow[d] \in Int
  BY StreamsTimesRate
<1>8. LinksBalanced
  BY <1>1, <1>3, <1>4, <1>5, UseNumbers DEF LinksBalanced
<1>9. NodesBalanced
  BY <1>1, <1>3, <1>4, <1>5, UseNumbers, NetworkTypes DEF NodesBalanced
<1> QED BY <1>8, <1>9, Balanced

--------------------------------------------------------------------------------
(* The controls that wait to be added are not on record yet.                     *)
NewOnly ==
    /\ \A p \in paths : p.dst \notin control[p.src]
    /\ \A p, q \in paths : p.src = q.src /\ p.dst = q.dst => p = q
    /\ pc = "found" => cur \notin CLCSet
    /\ pc = "reach" => rest \cap control[cur] = {}

LEMMA RecordsHold ==
  ASSUME NEW C, NEW K \in [Node -> SUBSET Node], NEW F \in [Flow -> Cand \cup {None}],
         NEW crc, C \in [Node -> SUBSET Node],
         \A v, w \in Node : w \in C[v] => RTT[v][w] < LCLC,
         \A r, v \in Node : v \in K[r] <=> crc[v] = r,
         \A w \in Node : crc[w] # None => RTT[crc[w]][w] < LCRC,
         \A f \in Flow : F[f] # None => \A k \in Wb[f] : RTT[F[f]][k] < LFlow[f] - Eps
  PROVE  Records(C, K, F)
<1>0. PCLC \in Nat /\ LCLC \in Int /\ PCRC \in Nat /\ LCRC \in Int
  BY DemandAssumption
<1>1. CLCNumbers(C)
  <2> SUFFICES ASSUME NEW v \in Node, NEW w \in C[v] PROVE CLCDemand(v, w) \in Nat
    BY DEF CLCNumbers
  <2>1. w \in Node /\ RTT[v][w] \in Nat /\ RTT[v][w] < LCLC
    BY NetworkTypes
  <2> QED BY <1>0, <2>1, DemandType DEF CLCDemand
<1>2. CRCNumbers(K)
  <2> SUFFICES ASSUME NEW v \in Node, NEW w \in K[v] PROVE CRCDemand(v, w) \in Nat
    BY DEF CRCNumbers
  <2>1. w \in Node /\ crc[w] = v /\ v # None
    BY SetsAssumption
  <2>2. RTT[v][w] \in Nat /\ RTT[v][w] < LCRC
    BY <2>1, NetworkTypes
  <2> QED BY <1>0, <2>2, DemandType DEF CRCDemand
<1>3. FlowNumbers(F)
  <2> SUFFICES ASSUME NEW f \in Flow, F[f] # None PROVE FlowNoted(F[f], f) \in Nat
    BY DEF FlowNumbers
  <2>1. F[f] \in Node
    BY NetworkTypes
  <2> QED BY <2>1, FlowNotedType
<1> QED BY <1>1, <1>2, <1>3 DEF Records

LEMMA AccountTypesHold ==
  ASSUME Inv, CoordInv, Inv', CoordInv'
  PROVE  AccountTypes /\ AccountTypes'
<1>1. Records(control, crcControl, flowCLC)
  BY RecordsHold DEF Inv, PlaceTypes, PlaceLinks, CoordInv, CoordRecords
<1>2. Records(control', crcControl', flowCLC')
  BY RecordsHold DEF Inv, PlaceTypes, PlaceLinks, CoordInv, CoordRecords
<1>3. bRem \in [Edge -> Int] /\ pRem \in [Cand -> Int] /\ bRem' \in [Edge -> Int] /\ pRem' \in [Cand -> Int]
  BY DEF Inv, PlaceTypes
<1> QED BY <1>1, <1>2, <1>3 DEF AccountTypes

LEMMA NewOnlyInit == Init => NewOnly
BY DEF Init, NoGrowth, NewOnly

(* A step that adds no control, no path and no promise to.                       *)
LEMMA NewOnlyKept ==
  ASSUME NewOnly, paths' \subseteq paths, \A p \in paths' : p.src \in Node,
         \A c \in Node : control'[c] \subseteq control[c],
         pc' \in {"found", "reach"} => pc' = pc /\ cur' = cur /\ cur \in Node /\ rest' = rest,
         pc' = "found" => clcs' = clcs
  PROVE  NewOnly'
<1>1. pc' = "found" => CLCSet' = CLCSet
  BY DEF CLCSet
<1> QED BY <1>1 DEF NewOnly

LEMMA NewOnlyGrowPath ==
  ASSUME Inv, NewOnly, Inv', NEW v \in Node, GrowPath(v)
  PROVE  NewOnly'
<1>1. /\ pc = "grow" /\ pc' = pc /\ paths' \subseteq paths /\ control \in [Node -> SUBSET Node]
      /\ \A p \in paths' : p.src \in Node
  BY NetworkTypes DEF GrowPath, Growing, Inv, PlaceTypes, AlgTypes, PathRecord
<1>2. ASSUME NEW p \in paths, p.src = v, AddCLCcontrol(v, p.dst), paths' = paths \ {p}
      PROVE  NewOnly'
  <2>1. \A c \in Node : control'[c] = IF c = v THEN control[v] \cup {p.dst} ELSE control[c]
    BY <1>1, <1>2 DEF AddCLCcontrol
  <2>2. ASSUME NEW q \in paths' PROVE q.dst \notin control'[q.src]
    BY <1>1, <1>2, <2>1 DEF NewOnly
  <2> QED BY <1>1, <2>2 DEF NewOnly
<1>3. CASE UNCHANGED clcVars
  BY <1>1, <1>3, NewOnlyKept
<1> QED BY <1>2, <1>3 DEF GrowPath, FirstPaths

LEMMA NewOnlyFrom ==
  ASSUME NEW v, NEW targets, NEW done
  PROVE  /\ \A p \in PathsFrom(v, targets, done) : p.src = v /\ p.dst \in targets
         /\ \A p, q \in PathsFrom(v, targets, done) : p.dst = q.dst => p = q
BY DEF PathsFrom

LEMMA NewOnlyAdd ==
  ASSUME Inv, NewOnly, AddNewCLC
  PROVE  NewOnly'
<1>1. /\ pc = "found" /\ pc' = "grow" /\ cur \in Node /\ control[cur] = {}
      /\ control \in [Node -> SUBSET Node]
  BY NetworkTypes DEF AddNewCLC, NewOnly, Inv, AlgLinks, PlaceLinks, PlaceTypes
<1>2. control'[cur] \subseteq {cur}
  BY <1>1 DEF AddNewCLC, AddCLCcontrol
<1>3. \E done : paths' = PathsFrom(cur, Node \ {cur}, done)
  BY DEF AddNewCLC
<1>4. /\ \A p \in paths' : p.src = cur /\ p.dst # cur
      /\ \A p, q \in paths' : p.dst = q.dst => p = q
  BY <1>3, NewOnlyFrom
<1> QED BY <1>1, <1>2, <1>4 DEF NewOnly

LEMMA NewOnlyCall ==
  ASSUME Inv, NewOnly, CallGreedy
  PROVE  NewOnly'
<1>1. pc' \in {"enter", "grow"} /\ control' = control
  BY DEF CallGreedy
<1>2. CASE paths' = paths
  BY <1>1, <1>2 DEF NewOnly
<1>3. CASE \E S : paths' = UNION {PathsFrom(v, Node \ control[v], controlled) : v \in S}
  <2>1. ASSUME NEW p \in paths' PROVE p \in PathsFrom(p.src, Node \ control[p.src], controlled)
    <3>1. PICK v : p \in PathsFrom(v, Node \ control[v], controlled)
      BY <1>3
    <3>2. p.src = v
      BY <3>1, NewOnlyFrom
    <3> QED BY <3>1, <3>2
  <2>2. ASSUME NEW p \in paths' PROVE p.dst \notin control'[p.src]
    BY <1>1, <2>1 DEF PathsFrom
  <2>3. ASSUME NEW p \in paths', NEW q \in paths', p.src = q.src, p.dst = q.dst PROVE p = q
    <3>1. /\ p \in PathsFrom(p.src, Node \ control[p.src], controlled)
          /\ q \in PathsFrom(p.src, Node \ control[p.src], controlled)
      BY <2>1, <2>3
    <3> QED BY <2>3, <3>1, NewOnlyFrom
  <2> QED BY <1>1, <2>2, <2>3 DEF NewOnly
<1> QED BY <1>2, <1>3 DEF CallGreedy

LEMMA NewOnlySearch ==
  ASSUME Inv, NewOnly, NEW v \in Node, SearchNext(v) \/ Reach(v)
  PROVE  NewOnly'
<1>1. paths' = paths /\ paths = {} /\ control \in [Node -> SUBSET Node]
  BY DEF SearchNext, Reach, Inv, AlgLinks, PlaceTypes, Labels
<1>2. CASE SearchNext(v)
  BY <1>1, <1>2 DEF SearchNext, NewOnly
<1>3. CASE Reach(v)
  <2>1. CASE pc' = "search"
    BY <1>1, <2>1 DEF NewOnly
  <2>2. CASE AddCLCcontrol(cur, v) /\ rest' = rest \ {v} /\ UNCHANGED <<pc, cur>>
    <3>1. pc = "reach" /\ cur \in Node
      BY <1>3, NetworkTypes DEF Reach, Inv, AlgLinks
    <3>2. control'[cur] = control[cur] \cup {v}
      BY <1>1, <2>2, <3>1 DEF AddCLCcontrol
    <3> QED BY <1>1, <2>2, <3>1, <3>2 DEF NewOnly
  <2> QED BY <1>3, <2>1, <2>2 DEF Reach
<1> QED BY <1>2, <1>3

LEMMA NewOnlyFindCRC ==
  ASSUME Inv, CoordInv, NewOnly, NEW v \in Node, FindCRC(v)
  PROVE  NewOnly'
<1>1. /\ UNCHANGED <<paths, control>> /\ pc = "find" /\ v \in todo
      /\ (pc' = pc \/ (pc' = "found" /\ cur' = v)) /\ CLCSet' = CLCSet
  BY DEF FindCRC, FirstCand, CLCSet
<1>2. v \notin CLCSet
  BY <1>1 DEF CoordInv, LoopLinks
<1> QED BY <1>1, <1>2 DEF NewOnly

(* All the others.                                                               *)
LEMMA NewOnlyOther ==
  ASSUME Inv, NewOnly, Inv',
         \/ EnterNodes \/ FindForNodes \/ LeaveNodes \/ FindForFlows \/ JudgeRound
         \/ FindNone \/ GrowDone \/ DropDone \/ CleanupDone
         \/ SingleKnown \/ SingleSearch \/ ReachDone \/ SearchDone \/ Crash
         \/ \E v \in Node : GrowSkip(v) \/ GrowFlow(v) \/ DropControl(v) \/ CleanupRemove(v)
         \/ \E f \in Flow : DropFlow(f) \/ AddFlow(f) \/ RemFlow(f)
         \/ \E c \in Cand : LowLoad(c)
         \/ UNCHANGED vars
  PROVE  NewOnly'
<1>1. paths' \subseteq paths /\ (\A p \in paths' : p.src \in Node)
  <2>1. paths' \subseteq paths
    BY DEF EnterNodes, FindForNodes, LeaveNodes, FindForFlows, JudgeRound, FindNone, GrowDone,
       DropDone, CleanupDone, SingleKnown, SingleSearch, ReachDone, SearchDone, Crash, GrowSkip,
       GrowFlow, DropControl, CleanupRemove, DropFlow, AddFlow, RemFlow, LowLoad, EndGrowth, vars
  <2>2. \A p \in paths' : p.src \in Node
    BY NetworkTypes DEF Inv, AlgTypes, PathRecord
  <2> QED BY <2>1, <2>2
<1>2. \A c \in Node : control'[c] \subseteq control[c]
  <2>1. ASSUME NEW v, NEW w, RemCLCcontrol(v, w) PROVE \A c \in Node : control'[c] \subseteq control[c]
    BY <2>1 DEF RemCLCcontrol, Inv, PlaceTypes
  <2> QED BY <2>1
     DEF EnterNodes, FindForNodes, LeaveNodes, FindForFlows, JudgeRound, FindNone, GrowDone,
       DropDone, CleanupDone, SingleKnown, SingleSearch, ReachDone, SearchDone, Crash, GrowSkip,
       GrowFlow, DropControl, CleanupRemove, DropFlow, AddFlow, RemFlow, LowLoad, vars
<1>3. pc' \in {"found", "reach"} => UNCHANGED vars
  BY DEF EnterNodes, FindForNodes, LeaveNodes, FindForFlows, JudgeRound, FindNone, GrowDone,
       DropDone, CleanupDone, SingleKnown, SingleSearch, ReachDone, SearchDone, Crash, GrowSkip,
       GrowFlow, DropControl, CleanupRemove, DropFlow, AddFlow, RemFlow, LowLoad, Return, BeginFind,
       Growing, Inv, AlgTypes
<1>4. pc \in {"found", "reach"} => cur \in Node
  BY NetworkTypes DEF Inv, AlgLinks
<1> QED BY <1>1, <1>2, <1>3, <1>4, NewOnlyKept DEF vars

LEMMA NewOnlyStep == ASSUME Inv, CoordInv, NewOnly, Inv', [Next]_vars PROVE NewOnly'
<1>1. CASE Driver \/ UNCHANGED vars
  BY <1>1, NewOnlyOther DEF Driver
<1>2. CASE Greedy
  <2>1. CASE CallGreedy \/ AddNewCLC
    BY <2>1, NewOnlyCall, NewOnlyAdd
  <2>2. ASSUME NEW v \in Node, GrowPath(v) \/ SearchNext(v) \/ Reach(v) \/ FindCRC(v) PROVE NewOnly'
    BY <2>2, NewOnlyGrowPath, NewOnlySearch, NewOnlyFindCRC
  <2> QED BY <1>2, <2>1, <2>2, NewOnlyOther DEF Greedy
<1> QED BY <1>1, <1>2 DEF Next

--------------------------------------------------------------------------------
(* The accounts.                                                                 *)

LEMMA AccountsInit == Init => Accounts
<1> SUFFICES ASSUME Init PROVE Accounts
  OBVIOUS
<1>1. /\ \A e : Carried(control, e) = {} /\ Carried(crcControl, e) = {}
      /\ \A c \in Node : control[c] = {} /\ crcControl[c] = {}
      /\ Served = {} /\ \A c \in Node : Satisfies(c) = {}
      /\ bRem = BCap /\ pRem = PNode
  BY SetsAssumption DEF Init, Carried, Served, Satisfies
<1>2. Cardinality({}) = 0 /\ \A f : SumFunctionOnSet(f, {}) = 0
  BY FS_EmptySet, SumOfNone
<1>3. ASSUME NEW e PROVE LinkUse(e) = 0
  <2>1. Cardinality(Carried(control, e)) = 0 /\ Cardinality(Carried(crcControl, e)) = 0
    BY <1>1, <1>2
  <2>2. SumFunctionOnSet([f \in Served |-> Streams(flowCLC[f], f, e) * BFlow[f]], Served) = 0
    BY <1>1, <1>2
  <2>3. BCLC * 0 = 0 /\ BCRC * 0 = 0
    BY DemandAssumption
  <2> QED BY <2>1, <2>2, <2>3 DEF LinkUse
<1>4. \A c \in Node : NodeUse(c) = 0
  BY <1>1, <1>2 DEF NodeUse, ControlUse
<1> QED BY <1>1, <1>3, <1>4, DemandAssumption, NetworkTypes DEF Accounts, LinkAccounting, NodeAccounting

LEMMA AccountsKept ==
  ASSUME AccountTypes, AccountTypes', Accounts,
         UNCHANGED <<control, crcControl, flowCLC, bRem, pRem>>
  PROVE  Accounts'
<1>1. /\ \A e : LinkUse(e)' = LinkUse(e)
      /\ \A c : NodeUse(c)' = NodeUse(c)
  BY UseIsOf
<1>2. LinksBalanced
  BY <1>1 DEF LinksBalanced
<1>3. NodesBalanced
  BY <1>1, UseNumbers DEF NodesBalanced, AccountTypes
<1> QED BY <1>2, <1>3, Balanced

(* What the step is about: everything known before and after it.                 *)
StepFacts == /\ Inv /\ CoordInv /\ NewOnly /\ Accounts /\ Inv' /\ CoordInv'
             /\ AccountTypes /\ AccountTypes'

LEMMA AccountsGrow ==
  ASSUME StepFacts, NEW v \in Node, GrowFlow(v) \/ GrowPath(v)
  PROVE  Accounts'
<1> USE DEF StepFacts
<1>1. CASE GrowFlow(v)
  <2>1. PICK f \in Flow : \/ CheckFlowSat(v, f) = "ok" /\ AddFlowSat(v, f)
                          \/ UNCHANGED <<netVars, flowCLC>>
    BY <1>1 DEF GrowFlow, MostDemanding, Inv, AlgTypes
  <2>2. v \in Cand /\ UNCHANGED <<control, crcControl>>
    BY <1>1 DEF GrowFlow, ServesNext, Inv, AlgLinks
  <2>3. CASE CheckFlowSat(v, f) = "ok" /\ AddFlowSat(v, f)
    BY <2>2, <2>3, CheckFlowSatOK, AddFlowSatAccounts DEF Inv
  <2> QED BY <2>1, <2>2, <2>3, AccountsKept
<1>2. CASE GrowPath(v)
  <2>1. PICK p \in paths : p.src = v /\ (AddCLCcontrol(v, p.dst) \/ UNCHANGED <<clcVars, netVars>>)
    BY <1>2 DEF GrowPath, FirstPaths
  <2>2. /\ v \in Cand /\ p.dst \in Node /\ p.dst \notin control[v]
        /\ UNCHANGED <<crcControl, flowCLC>>
    BY <1>2, <2>1 DEF GrowPath, NewOnly, Inv, AlgTypes, PathRecord
  <2> QED BY <2>1, <2>2, AddCLCcontrolAccounts, AccountsKept
<1> QED BY <1>1, <1>2

LEMMA AccountsFind ==
  ASSUME StepFacts, AddNewCLC \/ \E v \in Node : FindCRC(v)
  PROVE  Accounts'
<1> USE DEF StepFacts
<1>1. CASE AddNewCLC
  <2>1. /\ cur \in Cand /\ cur \in Node /\ cur \notin control[cur]
        /\ UNCHANGED <<crcControl, flowCLC>>
        /\ AddCLCcontrol(cur, cur) \/ UNCHANGED <<clcVars, netVars>>
    BY <1>1, NetworkTypes DEF AddNewCLC, NewOnly, Inv, AlgLinks, PlaceLinks
  <2> QED BY <2>1, AddCLCcontrolAccounts, AccountsKept
<1>2. ASSUME NEW v \in Node, FindCRC(v) PROVE Accounts'
  <2>1. /\ v \in cands \ CLCSet /\ pc = "find" /\ UNCHANGED <<control, flowCLC>>
        /\ (\E i \in Cand : AddCRCcontrol(i, v)) \/ UNCHANGED <<crcVars, netVars>>
    BY <1>2 DEF FindCRC, FirstCand, CoordInv, LoopLinks
  <2>2. crcOf[v] = None
    BY <2>1 DEF CoordInv, CoordLinks
  <2>3. \A i \in Cand : v \notin crcControl[i]
    BY <2>2, SetsAssumption DEF CoordInv, CoordRecords
  <2> QED BY <2>1, <2>3, AddCRCcontrolAccounts, AccountsKept
<1> QED BY <1>1, <1>2

LEMMA AccountsServe ==
  ASSUME StepFacts, SingleKnown \/ ReachDone \/ \E w \in Node : Reach(w)
  PROVE  Accounts'
<1> USE DEF StepFacts
<1>1. CASE SingleKnown
  <2>1. PICK i \in DOMAIN clcs : CheckFlowSat(clcs[i], flow) = "ok" /\ AddFlowSat(clcs[i], flow)
    BY <1>1 DEF SingleKnown
  <2>2. clcs[i] \in Cand
    <3>1. CLCSet \subseteq Cand
      BY CLCSetType DEF Inv
    <3> QED BY <3>1 DEF CLCSet
  <2>3. flow \in Flow /\ UNCHANGED <<control, crcControl>>
    BY <1>1 DEF SingleKnown, Inv, AlgTypes, AlgLinks
  <2> QED BY <2>1, <2>2, <2>3, CheckFlowSatOK, AddFlowSatAccounts DEF Inv
<1>2. CASE ReachDone
  <2>1. cur \in Cand /\ flow \in Flow /\ UNCHANGED <<control, crcControl>>
    BY <1>2 DEF ReachDone, Inv, AlgTypes, AlgLinks
  <2>2. \/ CheckFlowSat(cur, flow) = "ok" /\ AddFlowSat(cur, flow)
        \/ UNCHANGED <<flowCLC, netVars>>
    BY <1>2 DEF ReachDone
  <2>3. CASE CheckFlowSat(cur, flow) = "ok" /\ AddFlowSat(cur, flow)
    BY <2>1, <2>3, CheckFlowSatOK, AddFlowSatAccounts DEF Inv
  <2> QED BY <2>1, <2>2, <2>3, AccountsKept
<1>3. ASSUME NEW w \in Node, Reach(w) PROVE Accounts'
  <2>1. /\ cur \in Cand /\ w \notin control[cur] /\ UNCHANGED <<crcControl, flowCLC>>
        /\ AddCLCcontrol(cur, w) \/ UNCHANGED <<clcVars, netVars>>
    BY <1>3 DEF Reach, NewOnly, Inv, AlgLinks
  <2> QED BY <2>1, AddCLCcontrolAccounts, AccountsKept
<1> QED BY <1>1, <1>2, <1>3

LEMMA AccountsDrop ==
  ASSUME StepFacts,
         \/ DropDone \/ \E f \in Flow : DropFlow(f) \/ RemFlow(f)
         \/ \E v \in Node : DropControl(v) \/ CleanupRemove(v)
  PROVE  Accounts'
<1> USE DEF StepFacts
<1>1. CASE DropDone
  <2>1. cur \in Node /\ UNCHANGED <<control, flowCLC>>
    BY <1>1, NetworkTypes DEF DropDone, Inv, AlgLinks
  <2>2. CASE crcOf[cur] = None
    BY <1>1, <2>1, <2>2, AccountsKept DEF DropDone
  <2>3. CASE crcOf[cur] # None
    <3>1. crcOf[cur] \in Cand /\ cur \in crcControl[crcOf[cur]] /\ RemCRCcontrol(crcOf[cur], cur)
      BY <1>1, <2>1, <2>3, NetworkTypes DEF DropDone, Inv, PlaceTypes, CoordInv, CoordRecords
    <3> QED BY <2>1, <3>1, RemCRCcontrolAccounts
  <2> QED BY <2>2, <2>3
<1>2. ASSUME NEW f \in Flow, DropFlow(f) \/ RemFlow(f) PROVE Accounts'
  <2>1. UNCHANGED <<control, crcControl>>
    BY <1>2 DEF DropFlow, RemFlow
  <2>2. \/ RemFlowSat(f) /\ flowCLC[f] # None
        \/ UNCHANGED <<flowCLC, netVars>>
    BY <1>2, SetsAssumption DEF DropFlow, RemFlow, Satisfies, Inv, AlgLinks
  <2> QED BY <2>1, <2>2, RemFlowSatAccounts, AccountsKept
<1>3. ASSUME NEW v \in Node, DropControl(v) PROVE Accounts'
  <2>1. cur \in Cand /\ v \in control[cur] /\ RemCLCcontrol(cur, v) /\ UNCHANGED <<crcControl, flowCLC>>
    BY <1>3 DEF DropControl, Inv, AlgLinks
  <2> QED BY <2>1, RemCLCcontrolAccounts
<1>4. ASSUME NEW v \in Node, CleanupRemove(v) PROVE Accounts'
  <2>1. PICK c \in Cand : Useless(c, v) /\ RemCLCcontrol(c, v)
    BY <1>4 DEF CleanupRemove
  <2>2. v \in control[c] /\ UNCHANGED <<crcControl, flowCLC>>
    BY <1>4, <2>1, NetworkTypes DEF CleanupRemove, Useless, Inv, PlaceLinks, RecordLinks
  <2> QED BY <2>1, <2>2, RemCLCcontrolAccounts
<1> QED BY <1>1, <1>2, <1>3, <1>4

LEMMA AccountsStep ==
  ASSUME Inv, CoordInv, NewOnly, Accounts, Inv', CoordInv', [Next]_vars
  PROVE  Accounts'
<1>1. AccountTypes /\ AccountTypes' /\ StepFacts
  BY AccountTypesHold DEF StepFacts
<1>2. ASSUME UNCHANGED <<control, crcControl, flowCLC, bRem, pRem>> PROVE Accounts'
  BY <1>1, <1>2, AccountsKept
<1>3. CASE Driver
  BY <1>1, <1>2, <1>3, AccountsDrop DEF Driver, AddFlow, LowLoad
<1>4. CASE Greedy
  <2>1. CASE CallGreedy \/ EnterNodes \/ FindForNodes \/ LeaveNodes \/ FindForFlows \/ JudgeRound
    BY <1>2, <2>1 DEF CallGreedy, EnterNodes, FindForNodes, LeaveNodes, FindForFlows, JudgeRound
  <2>2. CASE FindNone \/ GrowDone \/ CleanupDone \/ SingleSearch \/ SearchDone \/ Crash
    BY <1>2, <2>2 DEF FindNone, GrowDone, CleanupDone, SingleSearch, SearchDone, Crash
  <2>3. CASE AddNewCLC \/ DropDone \/ SingleKnown \/ ReachDone
    BY <1>1, <2>3, AccountsFind, AccountsDrop, AccountsServe
  <2>4. ASSUME NEW v \in Node, GrowSkip(v) \/ SearchNext(v) PROVE Accounts'
    BY <1>2, <2>4 DEF GrowSkip, SearchNext
  <2>5. ASSUME NEW v \in Node,
               \/ FindCRC(v) \/ GrowFlow(v) \/ GrowPath(v)
               \/ DropControl(v) \/ CleanupRemove(v) \/ Reach(v)
        PROVE  Accounts'
    BY <1>1, <2>5, AccountsFind, AccountsGrow, AccountsDrop, AccountsServe
  <2>6. CASE \E f \in Flow : DropFlow(f)
    BY <1>1, <2>6, AccountsDrop
  <2> QED BY <1>4, <2>1, <2>2, <2>3, <2>4, <2>5, <2>6 DEF Greedy
<1>5. CASE UNCHANGED vars
  BY <1>2, <1>5 DEF vars
<1> QED BY <1>3, <1>4, <1>5 DEF Next

(* Whatever the sequence of calls, finished, refused or broken off half way, the *)
(* capacity missing from a link is what the controls, the coordinations and the  *)
(* flows on record occupy there, and no node gets back more than it gave.        *)
THEOREM CapacityStaysAccounted == Spec => []CapacityAccounted
<1>1. Init => CoordInv /\ NewOnly /\ Accounts
  BY CoordInit, NewOnlyInit, AccountsInit
<1>2. Inv /\ Inv' /\ (CoordInv /\ NewOnly /\ Accounts) /\ [Next]_vars
        => (CoordInv /\ NewOnly /\ Accounts)'
  BY CoordStep, NewOnlyStep, AccountsStep
<1>3. Accounts => CapacityAccounted
  BY DEF Accounts, CapacityAccounted
<1> QED BY <1>1, <1>2, <1>3, Invariance, PTL DEF Spec
==============================================================================
