---------------------------- MODULE EventLoopProofs -----------------------------
(* The loop of the emulation for any number of flows, any arrivals, lifetimes,   *)
(* loads and limits, and for work that takes any time: types, how far the wall   *)
(* clock may be behind simulated time, the buckets, and who is rejected.         *)
EXTENDS EventLoop, TLAPS

--------------------------------------------------------------------------------
(* Rounding up, and a minimum.                                                   *)

LEMMA Product ==
    ASSUME NEW a \in Int, NEW b \in Int, NEW k \in Nat \ {0}, a >= b + 1
    PROVE  a * k >= b * k + k
BY SMT

LEMMA Quotient ==
    ASSUME NEW x \in Int, NEW k \in Nat \ {0}
    PROVE  /\ x \div k \in Int
           /\ (x \div k) * k <= x
           /\ x < (x \div k) * k + k
BY SMT

LEMMA CeilType ==
    ASSUME NEW x \in Nat
    PROVE  ceil(x) \in Nat
BY TimeAssumption, Quotient DEF ceil

LEMMA CeilMonotone ==
    ASSUME NEW x \in Int, NEW y \in Int, x <= y
    PROVE  ceil(x) <= ceil(y)
BY TimeAssumption, Quotient, Product DEF ceil

LEMMA NeededType ==
    ASSUME nCLC \in Nat, nCLC > 1, NEW load \in Load
    PROVE  Needed(load) \in Nat /\ Needed(load) > 0
<1> DEFINE k == FullLoad
           x == load * nCLC
<1>1. k \in Nat \ {0} /\ load \in Nat \ {0}
  BY LoadAssumption
<1>2. x \in Nat /\ x > 0
  BY <1>1, SMT
<1> HIDE DEF x, k
<1>3. x + k - 1 \in Int
  BY <1>1, <1>2
<1>4. (x + k - 1) \div k \in Int /\ x + k - 1 < ((x + k - 1) \div k) * k + k
  BY <1>1, <1>3, Quotient
<1> DEFINE q == (x + k - 1) \div k
<1> HIDE DEF q
<1>5. q \in Int /\ x - 1 < q * k
  BY <1>1, <1>2, <1>4 DEF q
<1>6. q > 0
  <2> SUFFICES ASSUME 0 >= q PROVE FALSE
    BY <1>5
  <2>1. 1 >= q + 1
    BY <1>5
  <2>2. 1 * k >= q * k + k
    BY <2>1, <1>1, <1>5, Product
  <2> QED
    BY <2>2, <1>1, <1>2, <1>5
<1> QED
  BY <1>5, <1>6 DEF Needed, q, x, k

LEMMA MinOfTwo ==
    ASSUME NEW x \in Int, NEW y \in Int
    PROVE  Min({x, y}) \in {x, y} /\ Min({x, y}) <= x /\ Min({x, y}) <= y
BY SMT DEF Min

(* What the types need to be inductive: the limit is not lowered past zero,      *)
(* because a round for low load was below it; a served flow has a CLC; and an    *)
(* arrival leaves room for the flow.                                             *)
Bounds ==
    /\ reason = 3 => CLCloadlimit > 0
    /\ isSat # {} => nCLC > 0
    /\ lastflow <= NumFlows
    /\ pc \in {"expire", "add"} => lastflow < NumFlows

(* A listed flow that is not served was not served since it was listed, and from *)
(* the arrival on, which takes served flows off the list, until the next round   *)
(* no listed flow is served.                                                     *)
Listing ==
    /\ (F \cap blacklist) \ isSat \subseteq waited
    /\ pc \in {"expire", "add", "decide", "round"} => blacklist \cap isSat = {}

(* An iteration begins when the wall clock has come to simulated time.  It then  *)
(* moves simulated time on, and it is behind by no more than that until the loop *)
(* has slept.                                                                    *)
KeepsUp ==
    /\ pc = "next" => now >= t
    /\ pc # "next" => t1 + nextvar >= t

IInv == TypeOK /\ Bounds /\ BucketsAgree /\ Listing

LEMMA InitIInv == Init => IInv
<1> SUFFICES ASSUME Init PROVE IInv
  OBVIOUS
<1>1. TypeOK /\ Bounds /\ Listing
  BY FlowAssumption, LoadAssumption DEF Init, TypeOK, Bounds, Listing, Flow, None
<1>2. BucketsAgree
  BY DEF Init, BucketsAgree
<1> QED
  BY <1>1, <1>2 DEF IInv

(* The actions that leave the buckets alone.                                     *)
LEMMA ClockIInv == IInv /\ Clock => IInv'
BY DEF IInv, TypeOK, Bounds, BucketsAgree, Passed, Listing, Clock, flowVars, bucketVars,
   loadVars, roundVars, history, None, ceil

LEMMA PassIInv == ASSUME IInv, NEW n \in Step, Pass(n) PROVE IInv'
BY TimeAssumption DEF IInv, TypeOK, Bounds, BucketsAgree, Passed, Listing, Pass, Advance,
   flowVars, bucketVars, loadVars, roundVars, history, None, ceil

LEMMA ArriveIInv == ASSUME IInv, NEW n \in Step, Arrive(n) PROVE IInv'
<1> USE DEF IInv, Arrive, Advance, flowVars, loadVars, roundVars, history
<1>1. ceil(tlast) \in Nat
  BY CeilType DEF TypeOK
<1>2. TypeOK'
  BY <1>1, TimeAssumption DEF TypeOK, None, Listed
<1>3. Bounds'
  <2>1. lastflow < NumFlows /\ UNCHANGED <<lastflow, isSat, nCLC, reason, CLCloadlimit>>
    <3>1. lastflow \in Nat
      BY DEF TypeOK
    <3> QED
      BY <3>1, FlowAssumption DEF Flow
  <2> QED
    BY <2>1 DEF Bounds
<1>5. Listing'
  BY DEF TypeOK, Listing, Listed
<1>4. BucketsAgree'
  BY DEF BucketsAgree, Passed
<1> QED
  BY <1>2, <1>3, <1>4, <1>5

LEMMA DecideIInv == ASSUME IInv, Decide PROVE IInv'
BY DEF IInv, TypeOK, Bounds, BucketsAgree, Passed, Listing, Decide, Decided, Reasons, Unplaced,
   flowVars, bucketVars, clockVars, history, None

LEMMA WatchIInv == ASSUME IInv, NEW load \in Load, Watch(load) PROVE IInv'
BY DEF IInv, TypeOK, Bounds, BucketsAgree, Passed, Listing, Watch, LowLoad, Since, Decided,
   Reasons, Unplaced, flowVars, bucketVars, clockVars, history, None

LEMMA GenerateIInv == ASSUME IInv, Generate PROVE IInv'
BY DEF IInv, TypeOK, Bounds, BucketsAgree, Passed, Listing, Generate, loadVars, roundVars,
   bucketVars, clockVars, history, None

LEMMA SleepTypes ==
    ASSUME TypeOK, Sleep
    PROVE  /\ now' \in Nat /\ now' >= now
           /\ t1 + nextvar >= t => now' >= t
<1> DEFINE delta == now - t1
           sleeptime == Min({nextvar - delta, t - now})
<1>1. now \in Nat /\ t \in Nat /\ t1 \in Nat /\ nextvar \in Nat
  BY DEF TypeOK
<1>2. nextvar - delta \in Int /\ t - now \in Int
  BY <1>1
<1>3. sleeptime \in {nextvar - delta, t - now}
  BY <1>2, MinOfTwo
<1>4. now' = IF sleeptime > 0 /\ t > now THEN now + sleeptime ELSE now
  BY DEF Sleep
<1> HIDE DEF sleeptime
<1> QED
  BY <1>1, <1>3, <1>4

LEMMA SleepIInv == ASSUME IInv, Sleep PROVE IInv'
<1> USE DEF IInv, Sleep, loadVars, roundVars, bucketVars, flowVars, history
<1>1. TypeOK'
  <2>1. now' \in Nat
    BY SleepTypes
  <2> QED
    BY <2>1 DEF TypeOK, None
<1>2. Bounds' /\ Listing' /\ BucketsAgree'
  BY DEF Bounds, Listing, BucketsAgree, Passed, ceil
<1> QED
  BY <1>1, <1>2

(* Only an iteration that begins and the end of the sleep change what KeepsUp    *)
(* says, and work can only bring the wall clock on.                              *)
LEMMA KeepsUpStep == IInv /\ KeepsUp /\ [Next]_vars => KeepsUp'
<1> SUFFICES ASSUME IInv, KeepsUp, [Next]_vars PROVE KeepsUp'
  OBVIOUS
<1>1. /\ now \in Nat /\ t \in Nat /\ t1 \in Nat /\ nextvar \in Nat /\ Step \subseteq Nat
      /\ TypeOK
  BY TimeAssumption DEF IInv, TypeOK
<1> USE DEF KeepsUp, clockVars
<1>2. CASE UNCHANGED vars
  BY <1>2 DEF vars
<1>3. CASE Clock
  BY <1>1, <1>3 DEF Clock
<1>4. ASSUME NEW n \in Step, Pass(n) \/ Arrive(n) PROVE KeepsUp'
  BY <1>1, <1>4 DEF Pass, Arrive, Advance
<1>5. CASE Sleep
  <2>1. t1 + nextvar >= t => now' >= t
    BY <1>1, <1>5, SleepTypes
  <2> QED
    BY <1>5, <2>1 DEF Sleep
<1>6. ASSUME pc # "next", pc' # "next", UNCHANGED <<t, t1, nextvar>> PROVE KeepsUp'
  BY <1>6
<1>7. CASE Expire \/ ExpireNow \/ Greedy \/ Generate \/ Judge
  BY <1>6, <1>7 DEF Expire, ExpireNow, Greedy, Generate, Judge
<1>8. ASSUME NEW d \in Lifetime, AddFlow(d) PROVE KeepsUp'
  BY <1>6, <1>8 DEF AddFlow
<1>9. CASE Decide
  BY <1>6, <1>9 DEF Decide, Decided
<1>10. ASSUME NEW load \in Load, Watch(load) \/ TakeDown(load) PROVE KeepsUp'
  BY <1>6, <1>10 DEF Watch, TakeDown, LowLoad, Decided
<1> QED
  BY <1>2, <1>3, <1>4, <1>5, <1>7, <1>8, <1>9, <1>10 DEF Next

(* A bucket holds exactly the flows whose records name it.                       *)
LEMMA InBucket ==
    ASSUME TypeOK, BucketsAgree, NEW i
    PROVE  /\ Bucket(i) \subseteq F
           /\ \A f \in F : f \in Bucket(i) <=> fremindex[f] = i
BY DEF TypeOK, BucketsAgree, Bucket

(* Flows S and rest are in bucket i; S are to go to other buckets.               *)
Refilable(i, S, to, rest) ==
    /\ i \in Nat
    /\ S \subseteq Bucket(i) /\ rest \subseteq Bucket(i) /\ S \cap rest = {}
    /\ to \in [S -> Nat] /\ \A f \in S : to[f] # i

(* The buckets h and the records x agree on all flows but G, which are gone.     *)
WellFiled(h, x, S, to, G) ==
    /\ DOMAIN h \subseteq Nat
    /\ \A j \in DOMAIN h : h[j] \subseteq F \ G
    /\ \A f \in F \ G : \A j \in DOMAIN h : f \in h[j] <=> x[f] = j
    /\ \A f \in F \ G : x[f] \in DOMAIN h
    /\ x \in [Flow -> Nat \cup {None}]
    /\ \A f \in F \ G : x[f] = IF f \in S THEN to[f] ELSE fremindex[f]

(* Refile and Indexed keep buckets and records in agreement.                     *)
LEMMA Refiled ==
    ASSUME TypeOK, BucketsAgree, F \subseteq Flow,
           NEW i, NEW S, NEW to, NEW rest, Refilable(i, S, to, rest),
           NEW G, G = Bucket(i) \ (S \cup rest),
           NEW h, h = Refile(S, to, i, rest),
           NEW x, x = Indexed(S, to, G)
    PROVE  WellFiled(h, x, S, to, G)
<1> USE DEF Refilable
<1>1. DOMAIN h = DOMAIN fremhelp \cup {to[f] : f \in S}
  BY DEF Refile
<1>2. \A j \in DOMAIN h : h[j] = (IF j = i THEN rest ELSE Bucket(j)) \cup {f \in S : to[f] = j}
  BY DEF Refile
<1>3. \A f \in Flow : x[f] = IF f \in G THEN None ELSE IF f \in S THEN to[f] ELSE fremindex[f]
  BY DEF Indexed, Deleted
<1>4. x \in [Flow -> Nat \cup {None}]
  BY DEF Indexed, Deleted, TypeOK
<1>5. \A f \in F \ G : x[f] = IF f \in S THEN to[f] ELSE fremindex[f]
  BY <1>3
<1>6. DOMAIN h \subseteq Nat
  BY <1>1 DEF TypeOK
<1>7. /\ Bucket(i) \subseteq F
      /\ \A f \in F : f \in Bucket(i) <=> fremindex[f] = i
  BY InBucket
<1>8. ASSUME NEW j \in DOMAIN h
      PROVE  /\ h[j] \subseteq F \ G
             /\ \A f \in F \ G : f \in h[j] <=> x[f] = j
  <2>1. /\ Bucket(j) \subseteq F
        /\ \A f \in F : f \in Bucket(j) <=> fremindex[f] = j
    BY InBucket
  <2>2. h[j] = (IF j = i THEN rest ELSE Bucket(j)) \cup {f \in S : to[f] = j}
    BY <1>2
  <2>3. CASE j = i
    BY <2>1, <2>2, <2>3, <1>5, <1>7
  <2>4. CASE j # i
    BY <2>1, <2>2, <2>4, <1>5, <1>7
  <2> QED
    BY <2>3, <2>4
<1>9. ASSUME NEW f \in F \ G PROVE x[f] \in DOMAIN h
  BY <1>1, <1>5 DEF BucketsAgree
<1> QED
  BY <1>4, <1>5, <1>6, <1>8, <1>9 DEF WellFiled

LEMMA FlowsAreFlow == TypeOK /\ Bounds => F \subseteq Flow
<1> SUFFICES ASSUME TypeOK, Bounds, NEW f \in F PROVE f \in Flow
  OBVIOUS
<1>1. f \in 1 .. lastflow /\ lastflow \in Nat /\ lastflow <= NumFlows
  BY DEF TypeOK, Bounds
<1> QED
  BY <1>1, FlowAssumption DEF Flow

LEMMA EndType == ASSUME TypeOK, NEW f \in Flow PROVE End(f) \in Nat
BY DEF TypeOK, End

(* What removing flows and stopping traffic keep of the types.                   *)
LEMMA RemFlowsTypes ==
    ASSUME TypeOK, Bounds, F \subseteq Flow, NEW G, RemFlows(G)
    PROVE  /\ isGen' \subseteq isSat' /\ isSat' \subseteq F' /\ F' \subseteq 1 .. lastflow'
           /\ genstime' \in [Flow -> Nat] /\ duration' \in [Flow -> Nat]
           /\ \A f \in F' : duration'[f] > 0
           /\ lastflow' = lastflow /\ F' = F \ G /\ isSat' = isSat \ G
BY DEF TypeOK, RemFlows, Deleted

(* The actions that change the buckets.                                          *)
LEMMA ExpireIInv == ASSUME IInv, Expire PROVE IInv'
<1> DEFINE kept == {f \in Bucket(bucket) : Held(f)}
           gone == Bucket(bucket) \ kept
           to == [f \in kept |-> ceil(End(f))]
           h == Refile(kept, to, bucket, {})
           x == Indexed(kept, to, gone)
<1>0. /\ bucket < ceil(t) /\ fremhelp' = Without(h, bucket) /\ fremindex' = x
      /\ RemFlows(gone) /\ bucket' = bucket + 1 /\ pc = "expire"
      /\ UNCHANGED <<pc, clockVars, blacklist, loadVars, roundVars, history>>
  BY DEF Expire
<1>1. TypeOK /\ Bounds /\ BucketsAgree /\ Listing /\ F \subseteq Flow
  BY FlowsAreFlow DEF IInv
<1>2. bucket \in Nat /\ t \in Nat /\ ceil(t) \in Nat
  BY <1>1, CeilType DEF TypeOK
<1>3. ASSUME NEW f \in kept PROVE to[f] \in Nat /\ to[f] >= ceil(t)
  <2>1. f \in Flow
    BY <1>1, InBucket
  <2>2. End(f) \in Nat /\ t <= End(f)
    BY <1>1, <1>2, <2>1, EndType DEF Held
  <2> QED
    BY <2>2, <1>2, CeilType, CeilMonotone
<1>4. to \in [kept -> Nat] /\ \A f \in kept : to[f] # bucket
  BY <1>0, <1>2, <1>3
<1> HIDE DEF to
<1>5. /\ DOMAIN h \subseteq Nat
      /\ \A j \in DOMAIN h : h[j] \subseteq F \ gone
      /\ \A f \in F \ gone : \A j \in DOMAIN h : f \in h[j] <=> x[f] = j
      /\ \A f \in F \ gone : x[f] \in DOMAIN h
      /\ x \in [Flow -> Nat \cup {None}]
      /\ \A f \in F \ gone : x[f] = IF f \in kept THEN to[f] ELSE fremindex[f]
  <2>1. Refilable(bucket, kept, to, {}) /\ gone = Bucket(bucket) \ (kept \cup {})
    BY <1>2, <1>4 DEF Refilable
  <2>2. h = Refile(kept, to, bucket, {}) /\ x = Indexed(kept, to, gone)
    OBVIOUS
  <2> HIDE DEF gone, kept, h, x
  <2>3. WellFiled(h, x, kept, to, gone)
    BY <1>1, <2>1, <2>2, Refiled
  <2> QED
    BY <2>3 DEF WellFiled
<1>6. /\ isGen' \subseteq isSat' /\ isSat' \subseteq F' /\ F' \subseteq 1 .. lastflow'
      /\ genstime' \in [Flow -> Nat] /\ duration' \in [Flow -> Nat]
      /\ \A f \in F' : duration'[f] > 0
      /\ lastflow' = lastflow /\ F' = F \ gone /\ isSat' = isSat \ gone
  BY <1>0, <1>1, RemFlowsTypes
<1>7. \A f \in F \ gone : x[f] # bucket
  <2>1. \A f \in F : f \in Bucket(bucket) <=> fremindex[f] = bucket
    BY <1>1, InBucket
  <2> QED
    BY <2>1, <1>4, <1>5
<1> HIDE DEF h, x, kept, gone
<1>8. DOMAIN fremhelp' = DOMAIN h \ {bucket} /\ \A j \in DOMAIN fremhelp' : fremhelp'[j] = h[j]
  BY <1>0 DEF Without
<1>9. TypeOK'
  BY <1>0, <1>1, <1>2, <1>5, <1>6, <1>8 DEF TypeOK, clockVars, loadVars, roundVars, history,
     None
<1>10. Bounds' /\ Listing'
  BY <1>0, <1>1, <1>6 DEF Bounds, Listing, TypeOK, clockVars, loadVars, roundVars, history
<1>11. BucketsAgree'
  <2>1. \A f \in F' : \A i \in DOMAIN fremhelp' : f \in fremhelp'[i] <=> fremindex'[f] = i
    BY <1>0, <1>5, <1>6, <1>8
  <2>2. \A f \in F' : fremindex'[f] \in DOMAIN fremhelp'
    BY <1>0, <1>5, <1>6, <1>7, <1>8
  <2>3. ASSUME NEW f \in F' \ brief' PROVE fremindex'[f] >= bucket + 1
    <3>1. f \in F \ gone /\ f \notin brief
      BY <1>0, <1>6 DEF history
    <3>2. CASE f \in kept
      BY <1>0, <1>2, <1>3, <1>5, <3>1, <3>2
    <3>3. CASE f \notin kept
      <4>1. x[f] = fremindex[f] /\ x[f] \in Nat /\ fremindex[f] >= bucket
        BY <1>0, <1>1, <1>5, <3>1, <3>3 DEF BucketsAgree, Passed
      <4> QED
        BY <1>0, <1>2, <1>7, <3>1, <4>1
    <3> QED
      BY <3>2, <3>3
  <2> QED
    BY <2>1, <2>2, <2>3, <1>0 DEF BucketsAgree, Passed
<1> QED
  BY <1>9, <1>10, <1>11 DEF IInv

LEMMA ExpireNowIInv == ASSUME IInv, ExpireNow PROVE IInv'
<1> DEFINE kept == {f \in Bucket(bucket) : Held(f)}
           moved == {f \in kept : ceil(End(f)) > bucket}
           gone == Bucket(bucket) \ kept
           to == [f \in moved |-> ceil(End(f))]
           h == Refile(moved, to, bucket, kept \ moved)
           x == Indexed(moved, to, gone)
<1>0. /\ bucket = ceil(t) /\ fremhelp' = h /\ fremindex' = x
      /\ RemFlows(gone) /\ bucket' = 0 /\ pc = "expire" /\ pc' = "add"
      /\ UNCHANGED <<clockVars, blacklist, loadVars, roundVars, history>>
  BY DEF ExpireNow
<1>1. TypeOK /\ Bounds /\ BucketsAgree /\ Listing /\ F \subseteq Flow
  BY FlowsAreFlow DEF IInv
<1>2. bucket \in Nat /\ t \in Nat
  BY <1>1 DEF TypeOK
<1>3. ASSUME NEW f \in moved PROVE to[f] \in Nat /\ to[f] > bucket
  <2>1. f \in Flow
    BY <1>1, InBucket
  <2> QED
    BY <2>1, <1>1, EndType, CeilType
<1>4. to \in [moved -> Nat] /\ \A f \in moved : to[f] # bucket
  BY <1>2, <1>3
<1> HIDE DEF to
<1>5. WellFiled(h, x, moved, to, gone)
  <2>1. Refilable(bucket, moved, to, kept \ moved) /\ gone = Bucket(bucket) \ (moved \cup (kept \ moved))
    BY <1>2, <1>4 DEF Refilable
  <2>2. h = Refile(moved, to, bucket, kept \ moved) /\ x = Indexed(moved, to, gone)
    OBVIOUS
  <2> HIDE DEF gone, kept, moved, h, x
  <2> QED
    BY <1>1, <2>1, <2>2, Refiled
<1>6. /\ isGen' \subseteq isSat' /\ isSat' \subseteq F' /\ F' \subseteq 1 .. lastflow'
      /\ genstime' \in [Flow -> Nat] /\ duration' \in [Flow -> Nat]
      /\ \A f \in F' : duration'[f] > 0
      /\ lastflow' = lastflow /\ F' = F \ gone /\ isSat' = isSat \ gone
  BY <1>0, <1>1, RemFlowsTypes
<1> HIDE DEF h, x, kept, moved, gone
<1>7. TypeOK'
  BY <1>0, <1>1, <1>5, <1>6 DEF TypeOK, WellFiled, clockVars, loadVars, roundVars, history, None
<1>8. Bounds' /\ Listing'
  BY <1>0, <1>1, <1>6 DEF Bounds, Listing, TypeOK, clockVars, loadVars, roundVars, history
<1>9. BucketsAgree'
  <2>1. \A f \in F' : \A i \in DOMAIN fremhelp' : f \in fremhelp'[i] <=> fremindex'[f] = i
    BY <1>0, <1>5, <1>6 DEF WellFiled
  <2>2. \A f \in F' : fremindex'[f] \in DOMAIN fremhelp'
    BY <1>0, <1>5, <1>6 DEF WellFiled
  <2>3. ASSUME NEW f \in F' \ brief' PROVE fremindex'[f] >= bucket
    <3>1. f \in F \ gone /\ f \notin brief
      BY <1>0, <1>6 DEF history
    <3>2. CASE f \in moved
      BY <1>0, <1>2, <1>3, <1>5, <3>1, <3>2 DEF WellFiled
    <3>3. CASE f \notin moved
      BY <1>0, <1>1, <1>5, <3>1, <3>3 DEF BucketsAgree, Passed, WellFiled
    <3> QED
      BY <3>2, <3>3
  <2>4. Passed' = bucket
    BY <1>0 DEF Passed, clockVars, ceil
  <2> QED
    BY <2>1, <2>2, <2>3, <2>4 DEF BucketsAgree
<1> QED
  BY <1>7, <1>8, <1>9 DEF IInv

LEMMA AddFlowIInv == ASSUME IInv, KeepsUp, NEW d \in Lifetime, AddFlow(d) PROVE IInv'
<1> DEFINE f == lastflow + 1
           i == ceil(now + d)
           h == Refile({f}, [g \in {f} |-> i], i, Bucket(i))
<1>1. TypeOK /\ Bounds /\ BucketsAgree /\ Listing /\ F \subseteq Flow
  BY FlowsAreFlow DEF IInv
<1>2. /\ f \in Flow /\ f \notin F /\ f \notin blacklist /\ lastflow \in Nat /\ lastflow < NumFlows
      /\ lastflow' = f /\ F' = F \cup {f}
  <2>1. lastflow \in Nat /\ lastflow < NumFlows
    BY <1>1 DEF AddFlow, TypeOK, Bounds
  <2>2. F \subseteq 1 .. lastflow /\ blacklist \subseteq 1 .. lastflow
    BY <1>1 DEF TypeOK
  <2> QED
    BY <2>1, <2>2, FlowAssumption DEF AddFlow, Flow
<1>3. d \in Nat /\ d > 0 /\ now \in Nat /\ t \in Nat /\ now + d \in Nat
  BY <1>1, TimeAssumption DEF TypeOK
<1>4. i \in Nat
  BY <1>3, CeilType
<1> HIDE DEF i
<1>5. /\ DOMAIN h = DOMAIN fremhelp \cup {i}
      /\ \A j \in DOMAIN h : h[j] = Bucket(j) \cup (IF j = i THEN {f} ELSE {})
  BY DEF Refile
<1>6. /\ fremhelp' = h /\ fremindex' = [fremindex EXCEPT ![f] = i]
      /\ pc = "add" /\ pc' = "decide" /\ tlast' = t
      /\ duration' = [duration EXCEPT ![f] = d]
      /\ \/ /\ nCLC > 0
            /\ isSat' = isSat \cup {f} /\ isGen' = isGen \cup {f}
            /\ genstime' = [genstime EXCEPT ![f] = now]
         \/ UNCHANGED <<isSat, isGen, genstime>>
      /\ brief' = IF d < nextvar THEN brief \cup {f} ELSE brief
      /\ UNCHANGED <<t, now, t1, nextvar, bucket, blacklist, loadVars, roundVars, waited>>
  BY DEF AddFlow, i
<1> HIDE DEF h
<1>7. ASSUME NEW j PROVE Bucket(j) \subseteq F /\ \A g \in F : g \in Bucket(j) <=> fremindex[g] = j
  BY <1>1, InBucket
<1>8. TypeOK'
  <2>1. \A j \in DOMAIN fremhelp' : fremhelp'[j] \subseteq F'
    BY <1>2, <1>5, <1>6, <1>7
  <2>2. /\ isGen' \subseteq isSat' /\ isSat' \subseteq F'
        /\ genstime' \in [Flow -> Nat]
    <3>1. isGen \subseteq isSat /\ isSat \subseteq F /\ genstime \in [Flow -> Nat]
      BY <1>1 DEF TypeOK
    <3>2. F' = F \cup {f} /\ f \in Flow
      BY <1>2
    <3> HIDE DEF f
    <3>3. CASE UNCHANGED <<isSat, isGen, genstime>>
      BY <3>1, <3>2, <3>3
    <3>4. CASE /\ isSat' = isSat \cup {f} /\ isGen' = isGen \cup {f}
               /\ genstime' = [genstime EXCEPT ![f] = now]
      BY <1>3, <3>1, <3>2, <3>4
    <3> QED
      BY <1>6, <3>3, <3>4
  <2>6. /\ F' \subseteq 1 .. lastflow' /\ brief' \cup waited' \subseteq 1 .. lastflow'
        /\ blacklist' \subseteq 1 .. lastflow'
    <3>1. /\ F \subseteq 1 .. lastflow /\ blacklist \subseteq 1 .. lastflow
          /\ brief \cup waited \subseteq 1 .. lastflow
      BY <1>1 DEF TypeOK
    <3>2. 1 .. lastflow \subseteq 1 .. lastflow' /\ f \in 1 .. lastflow'
      BY <1>2
    <3> HIDE DEF f
    <3> QED
      BY <3>1, <3>2, <1>2, <1>6
  <2>7. /\ {t, tlast, now, t1, nextvar, lastflow, bucket, calctime}' \subseteq Nat
        /\ tlast' <= t' /\ t1' <= now'
    BY <1>1, <1>2, <1>3, <1>6 DEF TypeOK, roundVars
  <2>8. /\ pc' = "decide" /\ nCLC' \in 0 .. NumCand /\ tll' \in Nat \cup {None}
        /\ CLCloadlimit' \in 0 .. stdll /\ tmplenCLCs' \in 0 .. NumCand /\ reason' \in 0 .. 3
    BY <1>1, <1>6 DEF TypeOK, loadVars, roundVars
  <2>3. duration' \in [Flow -> Nat] /\ \A g \in F' : duration'[g] > 0
    BY <1>1, <1>2, <1>3, <1>6 DEF TypeOK
  <2>4. fremindex' \in [Flow -> Nat \cup {None}]
    BY <1>1, <1>2, <1>4, <1>6 DEF TypeOK
  <2>5. DOMAIN fremhelp' \subseteq Nat
    BY <1>1, <1>4, <1>5, <1>6 DEF TypeOK
  <2> QED
    BY <2>1, <2>2, <2>3, <2>4, <2>5, <2>6, <2>7, <2>8 DEF TypeOK
<1>9. Bounds'
  BY <1>1, <1>2, <1>6, FlowAssumption DEF Bounds, TypeOK, loadVars, roundVars
<1>10. Listing'
  BY <1>1, <1>2, <1>6 DEF Listing
<1>11. BucketsAgree'
  <2>1. \A g \in F : fremindex'[g] = fremindex[g]
    BY <1>1, <1>2, <1>6 DEF TypeOK
  <2>2. fremindex'[f] = i
    BY <1>1, <1>2, <1>6 DEF TypeOK
  <2>3. \A g \in F' : \A j \in DOMAIN fremhelp' : g \in fremhelp'[j] <=> fremindex'[g] = j
    BY <1>2, <1>5, <1>6, <1>7, <2>1, <2>2
  <2>4. \A g \in F' : fremindex'[g] \in DOMAIN fremhelp'
    BY <1>1, <1>2, <1>5, <1>6, <2>1, <2>2 DEF BucketsAgree
  <2>5. Passed' = ceil(t) /\ Passed = ceil(t)
    BY <1>6 DEF Passed, ceil
  <2>6. f \notin brief' => i >= ceil(t)
    <3>1. f \notin brief' => now + d >= t
      BY <1>1, <1>3, <1>6 DEF KeepsUp, TypeOK
    <3> QED
      BY <1>3, <3>1, CeilMonotone DEF i
  <2>7. \A g \in F' \ brief' : fremindex'[g] >= Passed'
    BY <1>1, <1>2, <1>6, <2>1, <2>2, <2>5, <2>6 DEF BucketsAgree
  <2> QED
    BY <2>3, <2>4, <2>7 DEF BucketsAgree
<1> QED
  BY <1>8, <1>9, <1>10, <1>11 DEF IInv

LEMMA StopTrafficTypes ==
    ASSUME TypeOK, F \subseteq Flow, NEW S, StopTraffic(S)
    PROVE  /\ isGen' = isGen \ S
           /\ duration' \in [Flow -> Nat]
           /\ \A f \in F : duration'[f] > 0
BY DEF TypeOK, StopTraffic, HasToRun, Ran

(* The actions that change what is served.                                       *)
LEMMA TakeDownIInv == ASSUME IInv, NEW load \in Load, TakeDown(load) PROVE IInv'
<1>1. TypeOK /\ Bounds /\ BucketsAgree /\ Listing /\ F \subseteq Flow
  BY FlowsAreFlow DEF IInv
<1>2. /\ pc = "decide" /\ nCLC > 1 /\ nCLC \in Nat /\ load \in Nat /\ load > 0
      /\ load < CLCloadlimit /\ CLCloadlimit \in Nat /\ tll' = None
      /\ UNCHANGED <<clockVars, bucketVars, blacklist, calctime, history>>
  BY <1>1, LoadAssumption DEF TakeDown, LowLoad, TypeOK
<1>3. Needed(load) \in Nat /\ Needed(load) > 0
  BY <1>2, NeededType
<1>4. CASE Needed(load) < nCLC
  <2>1. /\ nCLC' = Needed(load) /\ tmplenCLCs' = nCLC /\ Decided({3})
        /\ UNCHANGED <<CLCloadlimit, lastflow, F, genstime>>
    BY <1>4 DEF TakeDown
  <2>2. PICK lost \in SUBSET isSat : isSat' = isSat \ lost /\ StopTraffic(lost)
    BY <1>4 DEF TakeDown
  <2>3. /\ isGen' = isGen \ lost
        /\ duration' \in [Flow -> Nat]
        /\ \A f \in F : duration'[f] > 0
    BY <1>1, <2>2, StopTrafficTypes
  <2>4. reason' = 3 /\ pc' = "round"
    BY <2>1 DEF Decided
  <2>5. TypeOK'
    <3>1. isGen' \subseteq isSat' /\ isSat' \subseteq F'
      BY <1>1, <2>1, <2>2, <2>3 DEF TypeOK
    <3>2. /\ nCLC' \in 0 .. NumCand /\ tmplenCLCs' \in 0 .. NumCand
          /\ tll' \in Nat \cup {None} /\ reason' \in 0 .. 3
      <4>1. nCLC \in 0 .. NumCand /\ NumCand \in Nat
        BY <1>1, LoadAssumption DEF TypeOK
      <4> QED
        BY <1>2, <1>3, <1>4, <2>1, <2>4, <4>1
    <3> QED
      BY <1>1, <1>2, <2>1, <2>3, <2>4, <3>1, <3>2 DEF TypeOK, clockVars, bucketVars, history
  <2>6. Bounds' /\ Listing'
    BY <1>1, <1>2, <1>3, <2>1, <2>2, <2>4 DEF Bounds, Listing, history
  <2>7. BucketsAgree'
    BY <1>1, <1>2, <2>1, <2>4 DEF BucketsAgree, Passed, ceil, clockVars, bucketVars, history
  <2> QED
    BY <2>5, <2>6, <2>7 DEF IInv
<1>5. CASE ~(Needed(load) < nCLC)
  <2>1. /\ CLCloadlimit' = CLCloadlimit - 1 /\ Decided(Reasons) /\ Unplaced /\ UNCHANGED tmplenCLCs
    BY <1>5 DEF TakeDown
  <2>2. reason' \in 0 .. 2 /\ pc' \in {"sleep", "round"}
    BY <2>1 DEF Decided, Reasons
  <2>3. TypeOK'
    <3>1. /\ CLCloadlimit' \in 0 .. stdll /\ tll' \in Nat \cup {None} /\ reason' \in 0 .. 3
      BY <1>1, <1>2, <2>1, <2>2, LoadAssumption DEF TypeOK
    <3> QED
      BY <1>1, <1>2, <2>1, <2>2, <3>1 DEF TypeOK, Unplaced, flowVars, clockVars, bucketVars,
         history
  <2>4. Bounds' /\ Listing'
    BY <1>1, <1>2, <2>1, <2>2 DEF Bounds, Listing, Unplaced, flowVars, history
  <2>5. BucketsAgree'
    BY <1>1, <1>2, <2>1, <2>2 DEF BucketsAgree, Passed, ceil, Unplaced, flowVars, clockVars,
       bucketVars, history
  <2> QED
    BY <2>3, <2>4, <2>5 DEF IInv
<1> QED
  BY <1>4, <1>5

LEMMA GreedyIInv == ASSUME IInv, Greedy PROVE IInv'
<1>1. TypeOK /\ Bounds /\ BucketsAgree /\ Listing /\ F \subseteq Flow
  BY FlowsAreFlow DEF IInv
<1>2. PICK lost \in SUBSET isSat, new \in SUBSET (F \ isSat) :
         /\ nCLC' \in Nat \cap (nCLC - 1 .. IF lost = {} THEN NumCand ELSE NumCand - 1)
         /\ isSat' = (isSat \ lost) \cup new /\ (isSat' # {} => nCLC' > 0)
         /\ StopTraffic(lost)
  BY DEF Greedy
<1>3. /\ pc = "round" /\ pc' = "traffic" /\ calctime' = t /\ waited' = waited \ isSat'
      /\ UNCHANGED <<clockVars, lastflow, F, genstime, bucketVars, blacklist, tll, CLCloadlimit,
                     tmplenCLCs, reason, brief>>
  BY DEF Greedy
<1>4. /\ isGen' = isGen \ lost
      /\ duration' \in [Flow -> Nat]
      /\ \A f \in F : duration'[f] > 0
  BY <1>1, <1>2, StopTrafficTypes
<1>5. nCLC' \in 0 .. NumCand
  BY <1>1, <1>2, LoadAssumption DEF TypeOK, Bounds
<1>6. TypeOK'
  BY <1>1, <1>2, <1>3, <1>4, <1>5 DEF TypeOK, clockVars, bucketVars
<1>7. Bounds' /\ Listing'
  BY <1>1, <1>2, <1>3 DEF Bounds, Listing
<1>8. BucketsAgree'
  BY <1>1, <1>3 DEF BucketsAgree, Passed, ceil, clockVars, bucketVars
<1> QED
  BY <1>6, <1>7, <1>8 DEF IInv

LEMMA JudgeIInv == ASSUME IInv, Judge PROVE IInv'
<1> DEFINE rejected == Unserved \cap blacklist
<1>1. TypeOK /\ Bounds /\ BucketsAgree /\ Listing /\ F \subseteq Flow
  BY FlowsAreFlow DEF IInv
<1>2. Unserved \subseteq F \ isSat
  BY DEF Unserved
<1>3. /\ pc = "judge" /\ pc' = "sleep"
      /\ blacklist' = blacklist \cup Unserved
      /\ fremhelp' = [i \in DOMAIN fremhelp |->
                        fremhelp[i] \ {f \in rejected : fremindex[f] = i}]
      /\ fremindex' = Deleted(fremindex, rejected, None)
      /\ RemFlows(rejected)
      /\ waited' = waited \cup (Unserved \ rejected)
      /\ CLCloadlimit' = IF reason = 3 /\ nCLC >= tmplenCLCs THEN CLCloadlimit - 1 ELSE stdll
      /\ reason' = 0 /\ tmplenCLCs' = 0
      /\ UNCHANGED <<clockVars, bucket, nCLC, tll, calctime, brief>>
  BY DEF Judge
<1> HIDE DEF rejected
<1>4. /\ isGen' \subseteq isSat' /\ isSat' \subseteq F' /\ F' \subseteq 1 .. lastflow'
      /\ genstime' \in [Flow -> Nat] /\ duration' \in [Flow -> Nat]
      /\ \A f \in F' : duration'[f] > 0
      /\ lastflow' = lastflow /\ F' = F \ rejected /\ isSat' = isSat \ rejected
  BY <1>1, <1>3, RemFlowsTypes
<1>5. fremindex' \in [Flow -> Nat \cup {None}] /\ \A f \in F' : fremindex'[f] = fremindex[f]
  BY <1>1, <1>3, <1>4 DEF TypeOK, Deleted
<1>6. DOMAIN fremhelp' = DOMAIN fremhelp /\ \A i \in DOMAIN fremhelp : fremhelp'[i] = fremhelp[i] \ rejected
  <2>1. ASSUME NEW i \in DOMAIN fremhelp
        PROVE  fremhelp[i] \ {f \in rejected : fremindex[f] = i} = fremhelp[i] \ rejected
    BY <1>1 DEF TypeOK, BucketsAgree
  <2> QED
    BY <2>1, <1>3
<1>7. CLCloadlimit' \in 0 .. stdll
  BY <1>1, <1>3, LoadAssumption DEF TypeOK, Bounds
<1>8. TypeOK'
  <2>1. \A i \in DOMAIN fremhelp' : fremhelp'[i] \subseteq F'
    BY <1>1, <1>4, <1>6 DEF TypeOK
  <2>2. blacklist' \subseteq 1 .. lastflow' /\ brief' \cup waited' \subseteq 1 .. lastflow'
    <3>1. Unserved \subseteq 1 .. lastflow
      BY <1>1, <1>2 DEF TypeOK
    <3> QED
      BY <1>1, <1>3, <1>4, <3>1 DEF TypeOK
  <2>3. reason' \in 0 .. 3 /\ tmplenCLCs' \in 0 .. NumCand
    BY <1>3, LoadAssumption
  <2> QED
    BY <1>1, <1>3, <1>4, <1>5, <1>6, <1>7, <2>1, <2>2, <2>3 DEF TypeOK, clockVars
<1>9. Bounds'
  BY <1>1, <1>3, <1>4 DEF Bounds
<1>10. Listing'
  BY <1>1, <1>2, <1>3, <1>4 DEF Listing, rejected
<1>11. BucketsAgree'
  BY <1>1, <1>3, <1>4, <1>5, <1>6 DEF BucketsAgree, Passed, ceil, clockVars
<1> QED
  BY <1>8, <1>9, <1>10, <1>11 DEF IInv

(* The theorems.                                                                 *)
LEMMA Invariance == Spec => []IInv
<1>1. Init => IInv /\ KeepsUp
  BY InitIInv DEF Init, KeepsUp
<1>2. IInv /\ KeepsUp /\ [Next]_vars => IInv'
  <2> SUFFICES ASSUME IInv, KeepsUp, [Next]_vars PROVE IInv'
    OBVIOUS
  <2>1. CASE UNCHANGED vars
    BY <2>1 DEF vars, clockVars, flowVars, bucketVars, loadVars, roundVars, history, IInv,
       TypeOK,
                Bounds, BucketsAgree, Passed, ceil, Listing
  <2>2. CASE Next
    BY <2>2, ClockIInv, PassIInv, ArriveIInv, ExpireIInv, ExpireNowIInv, AddFlowIInv,
       DecideIInv,
       WatchIInv, TakeDownIInv, GreedyIInv, GenerateIInv, JudgeIInv, SleepIInv DEF Next
  <2> QED
    BY <2>1, <2>2
<1> QED
  BY <1>1, <1>2, KeepsUpStep, PTL DEF Spec

(* The variables of the loop keep their types: in particular traffic runs only   *)
(* for flows that are served, what has been stopped has time left, and the limit *)
(* stays between zero and where it started.                                      *)
THEOREM TypeCorrect == Spec => []TypeOK
<1>1. IInv => TypeOK
  BY DEF IInv
<1> QED
  BY <1>1, Invariance, PTL

(* A flow is in the one bucket that its fremindex names, so that taking it out   *)
(* (csimpfo_fcfs.py:316) finds it, and the loop has not passed that bucket       *)
(* (line 203) unless the flow lasts less than the time to its own arrival: the   *)
(* sleep of line 345 has the wall clock, by which the bucket is chosen (257),    *)
(* catch up with simulated time, by which buckets are passed.                    *)
THEOREM BucketsStayInAgreement == Spec => []BucketsAgree
<1>1. IInv => BucketsAgree
  BY DEF IInv
<1> QED
  BY <1>1, Invariance, PTL

(* A flow is rejected (csimpfo_fcfs.py:317) only if a CLC has not served it      *)
(* since an earlier round put it on the blacklist.                               *)
THEOREM SecondChanceGiven == Spec => SecondChance
<1>1. IInv /\ [Next]_vars => [pc = "judge" => F \ F' \subseteq waited]_vars
  <2> SUFFICES ASSUME IInv, Next, pc = "judge" PROVE F \ F' \subseteq waited
    BY DEF vars
  <2>1. CASE Judge
    BY <2>1 DEF IInv, Listing, Judge, RemFlows, Unserved
  <2>2. CASE Sleep \/ Clock \/ Generate \/ Greedy
    BY <2>2 DEF Sleep, Clock, Generate, Greedy
  <2> QED
    BY <2>1, <2>2 DEF Next, Pass, Arrive, Advance, Expire, ExpireNow, AddFlow, Decide, Watch,
       TakeDown, LowLoad
<1> QED
  BY <1>1, Invariance, PTL DEF Spec, SecondChance
================================================================================
