---------------------------- MODULE ReporterProofs -----------------------------
(* Reporter, for every number of slots, every set of threads and every scenario: *)
(* the ring implements PacketChannel, the list of reports is safe, and what is   *)
(* printed is right.  RingInv, BarrierInv, ListInv, PendingInv and StatInv are   *)
(* the inductive invariants, each on top of those before it.                     *)
EXTENDS Reporter, FiniteSetTheorems, SequenceTheorems, Sums, TLAPS

(* The packets a ring holds when the reporter is on slot r and the agent's next  *)
(* slot is i.                                                                    *)
Held(r, i) == IF r < i THEN i - 1 - r ELSE N - 1 - r + i

(* The reporter has moved to the next packet of a and not yet read it.           *)
Moved(a) == rpc = "handle" /\ Subject = a
Taken(a) == got[a] + (IF Moved(a) THEN 1 ELSE 0)

BeforeRing == {"start", "init", "barrier", "leave", "count", "post"}
InRing == {"enter", "wrap", "lap", "sleep", "publish"}
AfterRing == {"close", "end", "gone"}
OnReport == {"loop", "move", "handle", "interval", "final", "closing"}

RingTypes ==
    /\ run \in Scenario
    /\ pc \in [Agent -> BeforeRing \cup InRing \cup AfterRing]
    /\ index \in [Agent -> Int]
    /\ agentindex \in [Agent -> Int]
    /\ reporterindex \in [Agent -> -1 .. N - 1]
    /\ data \in [Agent -> [0 .. N - 1 -> Int]]
    /\ sent \in [Agent -> Nat] /\ got \in [Agent -> Nat]

(* What an agent has sent, by its place in the program.                          *)
Progress(a) ==
    /\ pc[a] \in BeforeRing => sent[a] = 0
    /\ pc[a] \in InRing => sent[a] < NumPackets(a)
    /\ sent[a] <= NumPackets(a)
    /\ reporterindex[a] = -1 => sent[a] = NumPackets(a)

(* d holds the packets up to s in its slots: those from r on, before slot i.     *)
Filled(d, s, r, i) ==
    \A k \in 0 .. N - 1 :
        /\ (k < i /\ (r < k \/ r >= i)) => d[k] = s - (i - 1 - k)
        /\ (i <= r /\ r < k) => d[k] = s - i - (N - 1 - k)
Contents(a) == Filled(data[a], sent[a], reporterindex[a], agentindex[a])

(* The agent never stands on the reporter's slot, so that the two meanings of    *)
(* equal indices cannot be confused.                                             *)
Ring(a) ==
    /\ agentindex[a] \in 0 .. N
    /\ reporterindex[a] # agentindex[a]
    /\ sent[a] - Taken(a) = Held(reporterindex[a], agentindex[a])
    /\ Contents(a)
    /\ Moved(a) => data[a][reporterindex[a]] = Taken(a)

(* The agent's copy of reporterindex may be old, but then the ring only has more *)
(* room than the copy says.                                                      *)
Copy(a) ==
    /\ pc[a] \in {"wrap", "lap", "publish"} =>
        /\ index[a] \in 0 .. N - 1
        /\ index[a] # agentindex[a]
        /\ Held(reporterindex[a], agentindex[a]) <= Held(index[a], agentindex[a])
    /\ pc[a] = "wrap" => agentindex[a] = N
    /\ pc[a] \in {"lap", "publish"} => agentindex[a] < N
    /\ pc[a] = "publish" =>
        /\ index[a] - 1 # agentindex[a]
        /\ data[a][agentindex[a]] = sent[a] + 1

(* What the reporter knows of the report it is on.                               *)
Reading(a) ==
    rpc \in OnReport /\ Subject = a =>
        /\ reporterindex[a] # -1
        /\ rpc = "move" => reporterindex[a] # agentindex[a] - 1
        /\ rpc \in {"final", "closing"} => got[a] = NumPackets(a)

AgentInv(a) ==
    /\ Progress(a)
    /\ reporterindex[a] # -1 => Ring(a) /\ Copy(a)
    /\ Reading(a)

RingInv == RingTypes /\ \A a \in Agent : AgentInv(a)
--------------------------------------------------------------------------------
(* Initially the reporter stands on the last slot, as if it had read it.         *)
LEMMA InitRing == Init => RingInv
<1> SUFFICES ASSUME Init PROVE RingInv
  OBVIOUS
<1> USE RingAssumption
<1>1. RingTypes
  BY DEF Init, RingTypes, BeforeRing, InRing, AfterRing
<1>2. ASSUME NEW a \in Agent PROVE AgentInv(a)
  <2>1. NumPackets(a) \in Nat /\ NumPackets(a) > 0
    BY <1>1, ScenarioAssumption DEF NumPackets, RingTypes
  <2>2. Progress(a)
    BY <2>1 DEF Init, Progress, InRing
  <2>3. Ring(a) /\ Copy(a)
    BY DEF Init, Ring, Copy, Taken, Moved, Held, Contents, Filled
  <2>4. Reading(a)
    BY DEF Init, Reading, OnReport
  <2> QED BY <2>2, <2>3, <2>4 DEF AgentInv
<1> QED BY <1>1, <1>2 DEF RingInv

--------------------------------------------------------------------------------
(* The arithmetic of the ring.                                                   *)

LEMMA WrapAround ==
  ASSUME NEW r \in 0 .. N - 1, NEW s \in Int, NEW d
  PROVE  /\ Held(r, 0) = Held(r, N)
         /\ Filled(d, s, r, N) => Filled(d, s, r, 0)
BY RingAssumption DEF Held, Filled

LEMMA FillSlot ==
  ASSUME NEW r \in 0 .. N - 1, NEW s \in Int, NEW i \in 0 .. N - 1, r # i,
         NEW d \in [0 .. N - 1 -> Int], NEW n, NEW e, e = [d EXCEPT ![i] = n],
         Filled(d, s, r, i)
  PROVE  Filled(e, s, r, i)
BY RingAssumption DEF Filled

LEMMA FillNext ==
  ASSUME NEW r \in 0 .. N - 1, NEW s \in Int, NEW i \in 0 .. N - 1, r # i, r # i + 1,
         NEW d, Filled(d, s, r, i), d[i] = s + 1
  PROVE  /\ Filled(d, s + 1, r, i + 1)
         /\ Held(r, i + 1) = Held(r, i) + 1
BY RingAssumption DEF Held, Filled

(* With a copy of the reporter's index that is not too new.                      *)
LEMMA Room ==
  ASSUME NEW r \in 0 .. N - 1, NEW x \in 0 .. N - 1, NEW i \in 0 .. N,
         x # i, r # i, Held(r, i) <= Held(x, i)
  PROVE  /\ i < N /\ x - 1 # i => r # i + 1 /\ Held(r, i) <= N - 2
         /\ i = N /\ x # 0 => r # 0
BY RingAssumption DEF Held

(* The reporter moves from slot r to slot q.                                     *)
Moves(r, i, q) ==
    \/ r < N - 1 /\ q = r + 1
    \/ r = N - 1 /\ i # 0 /\ q = 0

LEMMA Advance ==
  ASSUME NEW r \in 0 .. N - 1, NEW s \in Int, NEW i \in 0 .. N, r # i, r # i - 1,
         NEW d, Filled(d, s, r, i), NEW q \in 0 .. N - 1, Moves(r, i, q)
  PROVE  /\ q # i /\ Held(q, i) = Held(r, i) - 1 /\ Held(q, i) >= 0
         /\ Filled(d, s, q, i)
         /\ d[q] = s - Held(q, i)
BY RingAssumption DEF Held, Filled, Moves

--------------------------------------------------------------------------------
(* Steps that leave a ring alone.                                                *)

SameRing(b) ==
    /\ index'[b] = index[b] /\ agentindex'[b] = agentindex[b]
    /\ reporterindex'[b] = reporterindex[b] /\ data'[b] = data[b]
    /\ sent'[b] = sent[b] /\ got'[b] = got[b]

(* A step in the program that reads no index and sends nothing.                  *)
MovesOn(p, q) ==
    \/ q = p
    \/ p \in BeforeRing /\ q \in BeforeRing \cup {"enter"} \cup AfterRing
    \/ p \in InRing /\ q \in {"enter", "sleep"}
    \/ p \in AfterRing /\ q \in AfterRing

(* The reporter has only been woken, or nothing.                                 *)
ReporterStays ==
    /\ todo' = todo
    /\ rpc' = rpc \/ (rpc' \notin OnReport /\ rpc \notin OnReport)

LEMMA SomePackets ==
  ASSUME RingTypes, NEW a \in Agent
  PROVE  NumPackets(a) \in Nat /\ NumPackets(a) > 0
BY ScenarioAssumption DEF RingTypes, NumPackets

LEMMA RingUntouched ==
  ASSUME NEW b \in Agent, RingTypes, AgentInv(b), run' = run, SameRing(b),
         MovesOn(pc[b], pc'[b]), ReporterStays
  PROVE  AgentInv(b)'
<1>1. Moved(b)' = Moved(b) /\ NumPackets(b)' = NumPackets(b)
  BY DEF Moved, ReporterStays, Subject, Current, NumPackets, OnReport
<1>2. Progress(b)'
  BY <1>1, SomePackets DEF AgentInv, Progress, SameRing, MovesOn, BeforeRing, InRing, AfterRing
<1>3. ASSUME Ring(b) PROVE Ring(b)'
  BY <1>1, <1>3 DEF Ring, SameRing, Taken, Contents, Held
<1>4. ASSUME Copy(b) PROVE Copy(b)'
  BY <1>4 DEF Copy, SameRing, MovesOn, Held, BeforeRing, InRing, AfterRing
<1>5. Reading(b)'
  BY <1>1 DEF AgentInv, Reading, SameRing, ReporterStays, Subject, Current
<1> QED BY <1>2, <1>3, <1>4, <1>5 DEF AgentInv, SameRing

LEMMA Signalled == SignalReporter => rpc' = rpc \/ (rpc' \notin OnReport /\ rpc \notin OnReport)
BY DEF SignalReporter, OnReport

(* Start, InitReport with its barrier, and the steps after the last packet.      *)
Apart(a) ==
    \/ Start(a) \/ InitConnection(a) \/ Barrier(a) \/ LeaveBarrier(a) \/ ReturnEarly(a) \/ CountIn(a)
    \/ CountedIn(a) \/ InitReport(a) \/ Full(a) \/ Sleep(a) \/ ReportServerUDP(a) \/ GetReport(a)

LEMMA ApartKeepsRing ==
  ASSUME RingInv, NEW a \in Agent, Apart(a)
  PROVE  RingInv'
<1> USE DEF BeforeRing, InRing, AfterRing
<1>1. run' = run /\ ringVars' = ringVars
  BY DEF Apart, Start, InitConnection, Barrier, LeaveBarrier, ReturnEarly, CountIn, CountedIn,
         InitReport,
         Full, Sleep, ReportServerUDP, GetReport, AgentOnly, ringVars
<1>2. ReporterStays
  <2>1. todo' = todo
    BY DEF Apart, Start, InitConnection, Barrier, LeaveBarrier, ReturnEarly, CountIn,
           CountedIn, InitReport,
           Full, Sleep, ReportServerUDP, GetReport, AgentOnly, Post, listVars
  <2>2. rpc' = rpc \/ SignalReporter
    BY DEF Apart, Start, InitConnection, Barrier, LeaveBarrier, ReturnEarly, CountIn,
           CountedIn, InitReport,
           Full, Sleep, ReportServerUDP, GetReport, AgentOnly, Post
  <2> QED BY <2>1, <2>2, Signalled DEF ReporterStays
<1>3. /\ pc' \in [Agent -> BeforeRing \cup InRing \cup AfterRing]
      /\ \A b \in Agent : MovesOn(pc[b], pc'[b])
  BY DEF RingInv, RingTypes, MovesOn, Apart, Start, InitConnection, Barrier, LeaveBarrier,
         ReturnEarly,
         CountIn, CountedIn, InitReport, Full, Sleep, ReportServerUDP, GetReport
<1>4. RingTypes'
  BY <1>1, <1>3 DEF RingInv, RingTypes, ringVars
<1>5. ASSUME NEW b \in Agent PROVE AgentInv(b)'
  <2>1. SameRing(b) BY <1>1 DEF ringVars, SameRing
  <2> QED BY <1>1, <1>2, <1>3, <2>1, RingUntouched DEF RingInv
<1> QED BY <1>4, <1>5 DEF RingInv
--------------------------------------------------------------------------------
(* ReportPacket.                                                                 *)

(* A step of agent a on its own ring leaves the rings of the others alone.       *)
AgentStepOf(a) ==
    /\ run' = run /\ ReporterStays
    /\ reporterindex' = reporterindex /\ got' = got
    /\ \A b \in Agent \ {a} :
        /\ pc'[b] = pc[b] /\ index'[b] = index[b] /\ agentindex'[b] = agentindex[b]
        /\ data'[b] = data[b] /\ sent'[b] = sent[b]

LEMMA OtherRings ==
  ASSUME RingInv, NEW a \in Agent, AgentStepOf(a), RingTypes', AgentInv(a)'
  PROVE  RingInv'
<1>1. ASSUME NEW b \in Agent \ {a} PROVE AgentInv(b)'
  <2>1. SameRing(b) /\ MovesOn(pc[b], pc'[b])
    BY DEF AgentStepOf, SameRing, MovesOn
  <2> QED BY <2>1, RingUntouched DEF RingInv, AgentStepOf
<1> QED BY <1>1 DEF RingInv

(* What is known of an agent in the ring: the reporter has not closed its report.*)
LEMMA StillOpen ==
  ASSUME RingInv, NEW a \in Agent, pc[a] \in InRing
  PROVE  /\ reporterindex[a] \in 0 .. N - 1
         /\ Progress(a) /\ Ring(a) /\ Copy(a) /\ Reading(a)
         /\ sent[a] \in Nat /\ got[a] \in Nat /\ Taken(a) \in Nat /\ NumPackets(a) \in Nat
         /\ index[a] \in Int /\ data[a] \in [0 .. N - 1 -> Int]
<1>1. /\ Progress(a) /\ Reading(a)
      /\ sent[a] \in Nat /\ got[a] \in Nat /\ Taken(a) \in Nat /\ NumPackets(a) \in Nat
      /\ index[a] \in Int /\ data[a] \in [0 .. N - 1 -> Int]
  BY SomePackets DEF RingInv, AgentInv, RingTypes, Taken
<1>2. reporterindex[a] # -1
  BY <1>1 DEF Progress
<1>3. reporterindex[a] \in 0 .. N - 1
  BY <1>2, RingAssumption DEF RingInv, RingTypes
<1> QED BY <1>1, <1>2, <1>3 DEF RingInv, AgentInv

LEMMA ReadIndexKeepsRing ==
  ASSUME RingInv, NEW a \in Agent, ReadIndex(a)
  PROVE  RingInv'
<1> USE RingAssumption
<1>1. pc[a] = "enter" /\ pc[a] \in InRing
  BY DEF ReadIndex, InRing
<1>2. RingTypes' /\ AgentStepOf(a)
  BY DEF RingInv, RingTypes, ReadIndex, AgentOnly, AgentStepOf, ReporterStays, listVars, InRing
<1>3. /\ index'[a] = reporterindex[a] /\ pc'[a] \in {"wrap", "lap"}
      /\ pc'[a] = "wrap" <=> agentindex[a] = N
      /\ UNCHANGED <<run, agentindex, data, sent, rpc, todo, got, reporterindex>>
  BY DEF RingInv, RingTypes, ReadIndex, AgentOnly, SlotsUsedUp, listVars
<1>4. Progress(a)'
  BY <1>1, <1>3, StillOpen DEF Progress, NumPackets, InRing, BeforeRing
<1>5. Ring(a)' /\ Reading(a)'
  BY <1>1, <1>3, StillOpen DEF Ring, Reading, Taken, Moved, Held, Contents, Subject, Current, NumPackets
<1>6. Copy(a)'
  BY <1>1, <1>3, StillOpen DEF Copy, Ring, Held
<1> QED BY <1>2, <1>4, <1>5, <1>6, OtherRings DEF AgentInv

LEMMA WrapKeepsRing ==
  ASSUME RingInv, NEW a \in Agent, Wrap(a)
  PROVE  RingInv'
<1> USE RingAssumption
<1>1. pc[a] = "wrap" /\ pc[a] \in InRing /\ index[a] # 0
  BY DEF Wrap, InRing, MustWaitToWrap
<1>0. /\ reporterindex[a] \in 0 .. N - 1
      /\ Progress(a) /\ Ring(a) /\ Copy(a) /\ Reading(a)
      /\ sent[a] \in Nat /\ got[a] \in Nat /\ Taken(a) \in Nat /\ NumPackets(a) \in Nat
      /\ index[a] \in Int /\ data[a] \in [0 .. N - 1 -> Int]
  BY <1>1, StillOpen
<1>2. RingTypes' /\ AgentStepOf(a)
  BY DEF RingInv, RingTypes, Wrap, AgentOnly, AgentStepOf, ReporterStays, listVars, InRing
<1>3. /\ agentindex'[a] = 0 /\ pc'[a] = "lap" /\ agentindex[a] = N
      /\ UNCHANGED <<run, index, data, sent, rpc, todo, got, reporterindex>>
  BY <1>1, <1>0 DEF RingInv, RingTypes, Wrap, AgentOnly, listVars, Copy
<1>4. Progress(a)'
  BY <1>1, <1>3, <1>0 DEF Progress, NumPackets, InRing, BeforeRing
<1>5. Ring(a)'
  <2>1. Taken(a)' = Taken(a) /\ Moved(a)' = Moved(a)
    BY <1>3 DEF Taken, Moved, Subject, Current
  <2>2. Held(reporterindex[a], 0) = Held(reporterindex[a], N)
    BY <1>0, WrapAround
  <2>3. reporterindex[a] # 0
    BY <1>1, <1>3, <1>0, Room DEF Ring, Copy
  <2>4. Contents(a)'
    BY <1>0, <1>3, WrapAround DEF Ring, Contents
  <2> QED BY <1>1, <1>3, <2>1, <2>2, <2>3, <2>4, <1>0 DEF Ring
<1>6. Copy(a)'
  <2>1. index[a] \in 0 .. N - 1 /\ Held(reporterindex[a], N) <= Held(index[a], N)
    BY <1>1, <1>3, <1>0 DEF Copy
  <2>2. Held(reporterindex[a], 0) <= Held(index[a], 0)
    BY <1>0, <2>1, WrapAround
  <2> QED BY <1>1, <1>3, <2>1, <2>2 DEF Copy
<1>7. Reading(a)'
  BY <1>1, <1>3, <1>0 DEF Reading, Subject, Current, NumPackets
<1> QED BY <1>2, <1>4, <1>5, <1>6, <1>7, OtherRings DEF AgentInv

LEMMA WriteKeepsRing ==
  ASSUME RingInv, NEW a \in Agent, Write(a)
  PROVE  RingInv'
<1> USE RingAssumption
<1>1. /\ pc[a] = "lap" /\ pc[a] \in InRing /\ index[a] - 1 # agentindex[a]
      /\ agentindex[a] \in 0 .. N - 1
  BY StillOpen DEF Write, InRing, MustWaitToWrite, Copy, Ring
<1>0. /\ reporterindex[a] \in 0 .. N - 1
      /\ Progress(a) /\ Ring(a) /\ Copy(a) /\ Reading(a)
      /\ sent[a] \in Nat /\ got[a] \in Nat /\ Taken(a) \in Nat /\ NumPackets(a) \in Nat
      /\ index[a] \in Int /\ data[a] \in [0 .. N - 1 -> Int]
  BY <1>1, StillOpen
<1>2. /\ data' = [data EXCEPT ![a] = [@ EXCEPT ![agentindex[a]] = sent[a] + 1]]
      /\ pc' = [pc EXCEPT ![a] = "publish"]
      /\ UNCHANGED <<run, index, agentindex, sent, rpc, todo, got, reporterindex>>
  BY DEF Write, AgentOnly, listVars
<1>3. RingTypes' /\ AgentStepOf(a)
  <2>1. data' \in [Agent -> [0 .. N - 1 -> Int]]
    BY <1>1, <1>2, <1>0 DEF RingInv, RingTypes
  <2> QED BY <1>2, <2>1 DEF RingInv, RingTypes, AgentStepOf, ReporterStays, InRing
<1>4. /\ pc'[a] = "publish" /\ data'[a][agentindex[a]] = sent[a] + 1
      /\ \A i \in 0 .. N - 1 : i # agentindex[a] => data'[a][i] = data[a][i]
  BY <1>1, <1>2, <1>0 DEF RingInv, RingTypes
<1>5. Progress(a)'
  BY <1>1, <1>2, <1>4, <1>0 DEF Progress, NumPackets, InRing, BeforeRing
<1>6. Ring(a)'
  <2>1. Taken(a)' = Taken(a) /\ Moved(a)' = Moved(a)
    BY <1>2 DEF Taken, Moved, Subject, Current
  <2>2. Contents(a)'
    <3>1. data'[a] = [data[a] EXCEPT ![agentindex[a]] = sent[a] + 1]
      BY <1>2 DEF RingInv, RingTypes
    <3>2. /\ reporterindex[a] # agentindex[a] /\ sent[a] \in Int
          /\ Filled(data[a], sent[a], reporterindex[a], agentindex[a])
      BY <1>0 DEF Ring, Contents
    <3>3. Filled(data'[a], sent[a], reporterindex[a], agentindex[a])
      BY <1>1, <1>0, <3>1, <3>2, FillSlot
    <3> QED BY <1>2, <3>3 DEF Contents
  <2>3. data'[a][reporterindex[a]] = data[a][reporterindex[a]]
    BY <1>1, <1>4, <1>0 DEF Ring
  <2> QED BY <1>1, <1>2, <2>1, <2>2, <2>3, <1>0 DEF Ring, Held
<1>7. Copy(a)' /\ Reading(a)'
  BY <1>1, <1>2, <1>4, <1>0 DEF Copy, Held, Reading, Subject, Current, NumPackets
<1> QED BY <1>3, <1>5, <1>6, <1>7, OtherRings, <1>0, <1>1 DEF AgentInv

LEMMA PublishKeepsRing ==
  ASSUME RingInv, NEW a \in Agent, Publish(a)
  PROVE  RingInv'
<1> USE RingAssumption
<1>1. pc[a] = "publish" /\ pc[a] \in InRing
  BY DEF Publish, InRing
<1>0. /\ reporterindex[a] \in 0 .. N - 1
      /\ Progress(a) /\ Ring(a) /\ Copy(a) /\ Reading(a)
      /\ sent[a] \in Nat /\ got[a] \in Nat /\ Taken(a) \in Nat /\ NumPackets(a) \in Nat
      /\ index[a] \in Int /\ data[a] \in [0 .. N - 1 -> Int]
  BY <1>1, StillOpen
<1>2. RingTypes' /\ AgentStepOf(a)
  BY DEF RingInv, RingTypes, Publish, AgentOnly, AgentStepOf, ReporterStays, listVars, InRing, AfterRing
<1>3. /\ agentindex'[a] = agentindex[a] + 1 /\ sent'[a] = sent[a] + 1
      /\ pc'[a] = IF sent[a] + 1 = NumPackets(a) THEN "close" ELSE "enter"
      /\ UNCHANGED <<run, index, data, rpc, todo, got, reporterindex>>
  BY DEF RingInv, RingTypes, Publish, AgentOnly, listVars
<1>4. /\ agentindex[a] \in 0 .. N - 1 /\ reporterindex[a] \in 0 .. N - 1
      /\ reporterindex[a] # agentindex[a] + 1
      /\ data[a][agentindex[a]] = sent[a] + 1
  <2>1. /\ agentindex[a] \in 0 .. N /\ agentindex[a] < N
        /\ reporterindex[a] # agentindex[a]
    BY <1>1, <1>0 DEF Copy, Ring
  <2>2. /\ index[a] \in 0 .. N - 1 /\ index[a] # agentindex[a]
        /\ index[a] - 1 # agentindex[a]
        /\ Held(reporterindex[a], agentindex[a]) <= Held(index[a], agentindex[a])
        /\ data[a][agentindex[a]] = sent[a] + 1
    BY <1>1, <1>0 DEF Copy
  <2>3. reporterindex[a] # agentindex[a] + 1
    BY <1>0, <2>1, <2>2, Room
  <2> QED BY <1>0, <2>1, <2>2, <2>3
<1>5. Progress(a)'
  <2>1. NumPackets(a)' = NumPackets(a) /\ reporterindex'[a] # -1
    BY <1>3, <1>4 DEF NumPackets
  <2>2. sent[a] < NumPackets(a)
    BY <1>1, <1>0 DEF Progress
  <2> QED BY <1>1, <1>3, <2>1, <2>2, <1>0 DEF Progress, InRing, BeforeRing
<1>6. Ring(a)'
  <2>4. /\ reporterindex[a] # agentindex[a] /\ sent[a] \in Int
        /\ sent[a] - Taken(a) = Held(reporterindex[a], agentindex[a])
        /\ Filled(data[a], sent[a], reporterindex[a], agentindex[a])
        /\ Moved(a) => data[a][reporterindex[a]] = Taken(a)
    BY <1>0 DEF Ring, Contents
  <2>5. /\ Filled(data[a], sent[a] + 1, reporterindex[a], agentindex[a] + 1)
        /\ Held(reporterindex[a], agentindex[a] + 1) = Held(reporterindex[a], agentindex[a]) + 1
    BY <1>0, <1>4, <2>4, FillNext
  <2>6. Held(reporterindex[a], agentindex[a]) \in Int
    BY <1>0, <1>4 DEF Held
  <2>1. Contents(a)'
    BY <1>3, <2>5 DEF Contents
  <2>2. Taken(a)' = Taken(a) /\ Moved(a)' = Moved(a) /\ Taken(a) \in Int
    BY <1>1, <1>3, <1>0 DEF Taken, Moved, Subject, Current
  <2>3. sent'[a] - Taken(a) = Held(reporterindex[a], agentindex[a] + 1)
    BY <1>0, <1>3, <2>4, <2>5, <2>6
  <2> QED BY <1>3, <1>4, <2>1, <2>2, <2>3, <2>4 DEF Ring
<1>7. Copy(a)' /\ Reading(a)'
  BY <1>1, <1>3, <1>4, <1>0 DEF Copy, Ring, Reading, Subject, Current, NumPackets
<1> QED BY <1>2, <1>5, <1>6, <1>7, OtherRings DEF AgentInv

(* EndReport: the report is closed already, so the ring no longer matters.       *)
LEMMA EndReportKeepsRing ==
  ASSUME RingInv, NEW a \in Agent, EndReport(a)
  PROVE  RingInv'
<1>1. RingTypes' /\ AgentStepOf(a)
  BY DEF RingInv, RingTypes, EndReport, AgentOnly, AgentStepOf, ReporterStays, listVars, AfterRing
<1>2. /\ reporterindex[a] = -1 /\ pc'[a] = "gone"
      /\ UNCHANGED <<run, sent, rpc, todo, got, reporterindex>>
  BY DEF RingInv, RingTypes, EndReport, AgentOnly, listVars
<1>3. AgentInv(a)'
  BY <1>2 DEF RingInv, AgentInv, Progress, Reading, Subject, Current, NumPackets,
              BeforeRing, InRing
<1> QED BY <1>1, <1>3, OtherRings

LEMMA AgentStepKeepsRing ==
  ASSUME RingInv, NEW a \in Agent, AgentStep(a)
  PROVE  RingInv'
BY ApartKeepsRing, ReadIndexKeepsRing, WrapKeepsRing, WriteKeepsRing, PublishKeepsRing,
   EndReportKeepsRing
DEF AgentStep, Scheduled, ReportPacket, Apart
--------------------------------------------------------------------------------
(* The reporter.                                                                 *)

LEMMA OpenRing ==
  ASSUME RingInv, NEW a \in Agent, reporterindex[a] # -1
  PROVE  /\ reporterindex[a] \in 0 .. N - 1 /\ agentindex[a] \in 0 .. N
         /\ Progress(a) /\ Ring(a) /\ Copy(a) /\ Reading(a)
         /\ sent[a] \in Int /\ got[a] \in Nat
BY RingAssumption DEF RingInv, AgentInv, RingTypes, Ring

(* Steps on no ring.                                                             *)
Quiet ==
    \/ Top \/ Wake \/ Again \/ Process \/ ProcessTransfer \/ Loop \/ PrintInterval
    \/ NoInterval \/ PrintFinal \/ Check

LEMMA FinishLeaves == ASSUME NEW free, Finish(free) PROVE rpc' \notin OnReport
BY DEF Finish, OnReport

LEMMA QuietKeepsRing ==
  ASSUME RingInv, Quiet
  PROVE  RingInv'
<1>1. run' = run /\ pc' = pc /\ ringVars' = ringVars
  BY DEF Quiet, Top, Wake, Again, Process, ProcessTransfer, Loop, PrintInterval, NoInterval,
         PrintFinal, Check, ReporterOnly, ringVars
<1>2. rpc # "handle" /\ rpc' # "handle"
  BY FinishLeaves DEF Quiet, Top, Wake, Again, Process, ProcessTransfer, Loop, PrintInterval,
         NoInterval, PrintFinal, Check, OnReport
<1>3. RingTypes'
  BY <1>1 DEF RingInv, RingTypes, ringVars
<1>4. ASSUME NEW a \in Agent PROVE AgentInv(a)'
  <2>1. Progress(a)'
    BY <1>1 DEF RingInv, AgentInv, Progress, NumPackets, ringVars
  <2>2. Ring(a) => Ring(a)'
    BY <1>1, <1>2 DEF Ring, Contents, Taken, Moved, ringVars
  <2>3. Copy(a) => Copy(a)'
    BY <1>1 DEF Copy, ringVars
  <2>4. Reading(a)'
    <3>1. CASE Top \/ Wake \/ Again \/ Process \/ Check
      BY <3>1, FinishLeaves DEF Top, Wake, Again, Process, Check, Reading, OnReport
    <3>2. CASE ProcessTransfer \/ Loop \/ PrintInterval \/ NoInterval \/ PrintFinal
      <4>1. /\ Subject' = Subject /\ NumPackets(a)' = NumPackets(a)
            /\ reporterindex' = reporterindex /\ agentindex' = agentindex /\ got' = got
        BY <1>1, <3>2 DEF ProcessTransfer, Loop, PrintInterval, NoInterval, PrintFinal,
               listVars, Subject, Current, NumPackets, ringVars
      <4>2. Reading(a)
        BY DEF RingInv, AgentInv
      <4> QED BY <3>2, <4>1, <4>2 DEF ProcessTransfer, Loop, PrintInterval, NoInterval,
               PrintFinal, Reading, OnReport, MorePackets
    <3> QED BY <3>1, <3>2 DEF Quiet
  <2> QED BY <1>1, <2>1, <2>2, <2>3, <2>4 DEF RingInv, AgentInv, ringVars
<1> QED BY <1>3, <1>4 DEF RingInv

(* The other rings are not the reporter's subject before or after the step.      *)
LEMMA NotTheSubject ==
  ASSUME RingInv, NEW b \in Agent, Subject # b, todo' = todo, run' = run, pc' = pc, SameRing(b)
  PROVE  AgentInv(b)'
<1>1. Subject' # b /\ NumPackets(b)' = NumPackets(b) /\ pc'[b] = pc[b]
  BY DEF Subject, Current, NumPackets
<1>2. Taken(b)' = Taken(b) /\ ~Moved(b)' /\ ~Moved(b)
  BY <1>1 DEF Taken, Moved, SameRing
<1>3. Progress(b)' /\ Reading(b)'
  BY <1>1 DEF RingInv, AgentInv, Progress, SameRing, Reading
<1>4. (Ring(b) => Ring(b)') /\ (Copy(b) => Copy(b)')
  BY <1>1, <1>2 DEF Ring, Copy, Contents, SameRing
<1> QED BY <1>3, <1>4 DEF RingInv, AgentInv, SameRing

LEMMA MoveKeepsRing ==
  ASSUME RingInv, Move
  PROVE  RingInv'
<1> USE RingAssumption
<1>1. /\ UNCHANGED <<run, pc, index, agentindex, data, sent, got, todo>>
      /\ rpc = "move" /\ rpc \in OnReport /\ rpc # "handle"
  BY DEF Move, ReporterOnly, listVars, OnReport
<1>2. ASSUME NEW b \in Agent, b # Subject PROVE AgentInv(b)'
  <2>1. SameRing(b)
    BY <1>1, <1>2 DEF Move, SameRing, RingInv, RingTypes
  <2> QED BY <1>1, <1>2, <2>1, NotTheSubject
<1>3. CASE Subject \notin Agent
  <2>1. reporterindex' = reporterindex
    BY <1>3 DEF Move, RingInv, RingTypes
  <2> QED BY <1>1, <1>2, <1>3, <2>1 DEF RingInv, RingTypes
<1>4. ASSUME NEW a \in Agent, a = Subject PROVE RingInv'
  <2>1. reporterindex[a] # -1 /\ reporterindex[a] # agentindex[a] - 1
    BY <1>1, <1>4 DEF RingInv, AgentInv, Reading
  <2>2. /\ reporterindex[a] \in 0 .. N - 1 /\ agentindex[a] \in 0 .. N
        /\ Progress(a) /\ Ring(a) /\ Copy(a) /\ sent[a] \in Int /\ got[a] \in Nat
    BY <1>4, <2>1, OpenRing
  <2>3. CASE reporterindex[a] = N - 1 /\ AtStart(a)
    <3>1. reporterindex' = reporterindex /\ rpc' = "check"
      BY <1>4, <2>3 DEF Move
    <3>2. AgentInv(a)'
      BY <1>1, <2>1, <2>2, <3>1
      DEF AgentInv, Progress, NumPackets, Ring, Contents, Taken, Moved, Copy, Reading, OnReport
    <3>3. RingTypes'
      BY <1>1, <3>1 DEF RingInv, RingTypes
    <3> QED BY <1>2, <1>4, <3>2, <3>3 DEF RingInv
  <2>4. CASE ~(reporterindex[a] = N - 1 /\ AtStart(a))
    <3>1. PICK q \in 0 .. N - 1 :
            /\ rpc' = "handle" /\ reporterindex' = [reporterindex EXCEPT ![a] = q]
            /\ Moves(reporterindex[a], agentindex[a], q)
      BY <1>4, <2>2, <2>4 DEF Move, AtStart, Moves
    <3>2. /\ reporterindex[a] # agentindex[a] /\ Filled(data[a], sent[a], reporterindex[a], agentindex[a])
          /\ sent[a] - got[a] = Held(reporterindex[a], agentindex[a])
      BY <1>1, <2>2 DEF Ring, Contents, Taken, Moved
    <3>3. /\ q # agentindex[a] /\ Held(q, agentindex[a]) = Held(reporterindex[a], agentindex[a]) - 1
          /\ Filled(data[a], sent[a], q, agentindex[a])
          /\ data[a][q] = sent[a] - Held(q, agentindex[a])
      BY <2>1, <2>2, <3>1, <3>2, Advance
    <3>4. Held(q, agentindex[a]) \in Int
      BY <2>2, <3>1 DEF Held
    <3>5. Moved(a)' /\ Taken(a)' = got[a] + 1 /\ reporterindex'[a] = q
      BY <1>1, <1>4, <3>1 DEF Moved, Taken, Subject, Current, RingInv, RingTypes
    <3>6. Ring(a)'
      BY <1>1, <2>2, <3>2, <3>3, <3>4, <3>5 DEF Ring, Contents
    <3>7. Copy(a)'
      <4>1. ASSUME pc[a] \in {"wrap", "lap", "publish"}
            PROVE  Held(q, agentindex[a]) <= Held(index[a], agentindex[a])
        <5>1. /\ Held(reporterindex[a], agentindex[a]) <= Held(index[a], agentindex[a])
              /\ index[a] \in 0 .. N - 1
          BY <2>2, <4>1 DEF Copy
        <5>2. Held(index[a], agentindex[a]) \in Int /\ Held(reporterindex[a], agentindex[a]) \in Int
          BY <2>2, <5>1 DEF Held
        <5> QED BY <3>3, <5>1, <5>2
      <4> QED BY <1>1, <2>2, <3>5, <4>1 DEF Copy
    <3>8. Progress(a)' /\ Reading(a)'
      BY <1>1, <2>2, <3>1, <3>5 DEF Progress, Reading, NumPackets
    <3>9. RingTypes'
      BY <1>1, <3>1 DEF RingInv, RingTypes
    <3> QED BY <1>2, <1>4, <3>6, <3>7, <3>8, <3>9 DEF RingInv, AgentInv
  <2> QED BY <2>3, <2>4
<1> QED BY <1>3, <1>4
(* The packet read is the next one: it is in the slot, and it was sent.          *)
LEMMA ReadsNext ==
  ASSUME RingInv, NEW a \in Agent, rpc = "handle", a = Subject
  PROVE  /\ data[a][reporterindex[a]] = got[a] + 1
         /\ got[a] < sent[a]
         /\ reporterindex[a] # -1
<1>1. reporterindex[a] # -1 /\ Moved(a)
  BY DEF RingInv, AgentInv, Reading, OnReport, Moved
<1>2. /\ reporterindex[a] \in 0 .. N - 1 /\ agentindex[a] \in 0 .. N /\ Ring(a)
      /\ got[a] \in Nat /\ sent[a] \in Int
  BY <1>1, OpenRing
<1>3. Held(reporterindex[a], agentindex[a]) >= 0
  BY <1>2, RingAssumption DEF Held, Ring
<1> QED BY <1>1, <1>2, <1>3 DEF Ring, Taken

LEMMA HandleKeepsRing ==
  ASSUME RingInv, Handle
  PROVE  RingInv'
<1>1. /\ UNCHANGED <<run, pc, index, agentindex, reporterindex, data, sent, todo>>
      /\ rpc = "handle" /\ rpc' \in {"final", "interval"}
  BY DEF Handle, ReporterOnly, listVars
<1>2. ASSUME NEW b \in Agent, b # Subject PROVE AgentInv(b)'
  <2>1. SameRing(b)
    BY <1>1, <1>2 DEF Handle, SameRing, RingInv, RingTypes
  <2> QED BY <1>1, <1>2, <2>1, NotTheSubject
<1>3. CASE Subject \notin Agent
  <2>1. got' = got
    BY <1>3 DEF Handle, RingInv, RingTypes
  <2> QED BY <1>1, <1>2, <1>3, <2>1 DEF RingInv, RingTypes
<1>4. ASSUME NEW a \in Agent, a = Subject PROVE RingInv'
  <2>1. /\ data[a][reporterindex[a]] = got[a] + 1 /\ got[a] < sent[a]
        /\ reporterindex[a] # -1
    BY <1>1, <1>4, ReadsNext
  <2>2. /\ got' = [got EXCEPT ![a] = got[a] + 1]
        /\ rpc' = IF PacketOf(a, got[a] + 1).id < 0 THEN "final" ELSE "interval"
    BY <1>4, <2>1 DEF Handle
  <2>3. got[a] \in Nat /\ sent[a] \in Nat /\ got'[a] = got[a] + 1
    BY <2>2 DEF RingInv, RingTypes
  <2>4. Progress(a) /\ Ring(a) /\ Copy(a)
    BY <2>1, OpenRing
  <2>5. rpc' = "final" => got'[a] = NumPackets(a)
    <3>1. run \in Scenario /\ NumPackets(a) \in Nat /\ sent[a] <= NumPackets(a)
      BY <2>4, SomePackets DEF RingInv, RingTypes, Progress
    <3>2. got[a] + 1 \in DOMAIN run.packets[a]
      BY <2>1, <2>3, <3>1, ScenarioAssumption DEF NumPackets
    <3>3. run.packets[a][got[a] + 1].id < 0 <=> got[a] + 1 = Len(run.packets[a])
      BY <3>1, <3>2, ScenarioAssumption
    <3> QED BY <2>2, <2>3, <3>3 DEF PacketOf, NumPackets
  <2>6. Progress(a)' /\ Copy(a)'
    BY <1>1, <2>4 DEF Progress, Copy, NumPackets
  <2>7. Taken(a)' = Taken(a) /\ ~Moved(a)'
    BY <1>1, <1>4, <2>3 DEF Taken, Moved
  <2>8. Ring(a)'
    BY <1>1, <2>4, <2>7 DEF Ring, Contents
  <2>9. Reading(a)'
    BY <1>1, <2>1, <2>5 DEF Reading, NumPackets
  <2>10. RingTypes'
    BY <1>1, <2>2, <2>3 DEF RingInv, RingTypes
  <2> QED BY <1>2, <1>4, <2>6, <2>8, <2>9, <2>10 DEF RingInv, AgentInv
<1> QED BY <1>3, <1>4

(* The report is closed once all that was sent is read.                          *)
LEMMA ClosingKeepsRing ==
  ASSUME RingInv, Closing
  PROVE  RingInv'
<1>1. /\ UNCHANGED <<run, pc, index, agentindex, got, data, sent, todo>>
      /\ rpc = "closing" /\ rpc' = "check"
      /\ reporterindex' = [reporterindex EXCEPT ![Subject] = -1]
  BY DEF Closing, ReporterOnly, listVars
<1>2. ASSUME NEW b \in Agent, b # Subject PROVE AgentInv(b)'
  <2>1. SameRing(b)
    BY <1>1, <1>2 DEF SameRing, RingInv, RingTypes
  <2> QED BY <1>1, <1>2, <2>1, NotTheSubject
<1>3. RingTypes'
  <2>1. -1 \in -1 .. N - 1
    BY RingAssumption
  <2>2. reporterindex' \in [Agent -> -1 .. N - 1]
    BY <1>1, <2>1 DEF RingInv, RingTypes
  <2> QED BY <1>1, <2>2 DEF RingInv, RingTypes
<1>4. ASSUME NEW a \in Agent, a = Subject PROVE AgentInv(a)'
  <2>1. got[a] = NumPackets(a) /\ reporterindex[a] # -1
    BY <1>1, <1>4 DEF RingInv, AgentInv, Reading, OnReport
  <2>2. /\ reporterindex[a] \in 0 .. N - 1 /\ agentindex[a] \in 0 .. N
        /\ Progress(a) /\ Ring(a) /\ sent[a] \in Int /\ got[a] \in Nat
    BY <2>1, OpenRing
  <2>3. Held(reporterindex[a], agentindex[a]) >= 0
    BY <2>2, RingAssumption DEF Held, Ring
  <2>4. sent[a] - got[a] >= 0
    BY <1>1, <2>2, <2>3 DEF Ring, Taken, Moved
  <2>5. sent[a] = NumPackets(a)
    BY <2>1, <2>2, <2>4 DEF Progress
  <2>6. reporterindex'[a] = -1 /\ Progress(a)'
    BY <1>1, <1>4, <2>2, <2>5 DEF Progress, NumPackets, RingInv, RingTypes
  <2> QED BY <1>1, <2>6 DEF AgentInv, Reading, OnReport
<1> QED BY <1>2, <1>3, <1>4 DEF RingInv

LEMMA ReporterStepKeepsRing ==
  ASSUME RingInv, ReporterStep
  PROVE  RingInv'
BY QuietKeepsRing, MoveKeepsRing, HandleKeepsRing, ClosingKeepsRing DEF ReporterStep, Quiet

--------------------------------------------------------------------------------
LEMMA StutterKeepsRing ==
  ASSUME RingInv, UNCHANGED <<run, pc, ringVars, rpc, todo>>
  PROVE  RingInv'
<1>1. RingTypes'
  BY DEF RingInv, RingTypes, ringVars
<1>2. ASSUME NEW b \in Agent PROVE AgentInv(b)'
  BY RingUntouched DEF RingInv, SameRing, ringVars, MovesOn, ReporterStays
<1> QED BY <1>1, <1>2 DEF RingInv

(* Why the ring needs no lock: an agent never stands on the slot the reporter    *)
(* reads, its old copy of the reporter's index only makes it wait too early, and *)
(* the reporter closes the report after the last packet only.                    *)
THEOREM RingIsSafe == Spec => []RingInv
<1>1. Init => RingInv
  BY InitRing
<1>2. RingInv /\ [Next]_vars => RingInv'
  <2> SUFFICES ASSUME RingInv, [Next]_vars PROVE RingInv'
    OBVIOUS
  <2>1. ASSUME NEW a \in Agent, AgentStep(a) PROVE RingInv'
    BY <2>1, AgentStepKeepsRing
  <2>2. CASE ReporterStep
    BY <2>2, ReporterStepKeepsRing
  <2>3. CASE JoinAll
    BY <2>3, StutterKeepsRing DEF JoinAll, listVars
  <2>4. CASE UNCHANGED vars
    BY <2>4, StutterKeepsRing DEF vars, listVars
  <2> QED BY <2>1, <2>2, <2>3, <2>4 DEF Next
<1> QED BY <1>1, <1>2, PTL DEF Spec

(* A packet is only published when the channel has room.                         *)
LEMMA PublishPuts ==
  ASSUME RingInv, NEW a \in Agent, Publish(a)
  PROVE  Channel!Put(a)
<1>1. pc[a] = "publish" /\ pc[a] \in InRing
  BY DEF Publish, InRing
<1>2. /\ reporterindex[a] \in 0 .. N - 1 /\ Ring(a) /\ Copy(a)
      /\ sent[a] \in Nat /\ got[a] \in Nat
  BY <1>1, StillOpen
<1>3. /\ agentindex[a] \in 0 .. N /\ agentindex[a] < N /\ reporterindex[a] # agentindex[a]
      /\ sent[a] - Taken(a) = Held(reporterindex[a], agentindex[a])
      /\ index[a] \in 0 .. N - 1 /\ index[a] # agentindex[a] /\ index[a] - 1 # agentindex[a]
      /\ Held(reporterindex[a], agentindex[a]) <= Held(index[a], agentindex[a])
  BY <1>1, <1>2 DEF Ring, Copy
<1>4. Held(reporterindex[a], agentindex[a]) <= N - 2
  BY <1>2, <1>3, Room
<1>5. sent[a] - got[a] < N
  <2>1. Held(reporterindex[a], agentindex[a]) \in Int
    BY <1>2, <1>3, RingAssumption DEF Held
  <2>2. Taken(a) \in Nat /\ Taken(a) <= got[a] + 1
    BY <1>2 DEF Taken
  <2> QED BY <1>2, <1>3, <1>4, <2>1, <2>2, RingAssumption
<1> QED BY <1>5 DEF Publish, AgentOnly, Channel!Put

(* Only Publish sends, and only Handle takes.                                    *)
LEMMA OtherAgentSteps ==
  ASSUME NEW a \in Agent, AgentStep(a), ~Publish(a)
  PROVE  UNCHANGED <<sent, got>>
BY DEF AgentStep, Scheduled, ReportPacket, Start, InitConnection, Barrier, LeaveBarrier,
       ReturnEarly, CountIn, CountedIn,
       InitReport, ReadIndex, Wrap, Full, Sleep, Write, ReportServerUDP, GetReport, EndReport,
       AgentOnly, ringVars

LEMMA OtherReporterSteps ==
  ASSUME ReporterStep, ~Handle
  PROVE  UNCHANGED <<sent, got>>
BY DEF ReporterStep, Top, Wake, Again, Process, ProcessTransfer, Loop, Move, PrintInterval,
       NoInterval, PrintFinal, Closing, Check, ReporterOnly

LEMMA StepOfChannel ==
  ASSUME RingInv, [Next]_vars
  PROVE  [Channel!Next]_<<sent, got>>
<1>1. ASSUME NEW a \in Agent, AgentStep(a) PROVE [Channel!Next]_<<sent, got>>
  <2>1. CASE Publish(a)
    BY <2>1, PublishPuts DEF Channel!Next
  <2> QED BY <1>1, <2>1, OtherAgentSteps
<1>2. CASE ReporterStep
  <2>1. CASE Handle /\ Subject \in Agent
    <3>1. data[Subject][reporterindex[Subject]] = got[Subject] + 1 /\ got[Subject] < sent[Subject]
      BY <2>1, ReadsNext DEF Handle
    <3>2. Channel!Get(Subject)
      BY <2>1, <3>1 DEF Handle, ReporterOnly, Channel!Get
    <3> QED BY <2>1, <3>2 DEF Channel!Next
  <2>2. CASE Handle /\ Subject \notin Agent
    BY <2>2 DEF Handle, ReporterOnly, RingInv, RingTypes
  <2> QED BY <1>2, <2>1, <2>2, OtherReporterSteps
<1>3. CASE JoinAll \/ UNCHANGED vars
  BY <1>3 DEF JoinAll, vars, ringVars
<1> QED BY <1>1, <1>2, <1>3 DEF Next

(* Without a lock, every packet a thread reports reaches the reporter, once and  *)
(* in order, and at most N wait: the ring implements PacketChannel.              *)
THEOREM RingImplementsChannel == Spec => RingIsChannel
<1>1. Init => Channel!Init
  BY DEF Init, Channel!Init
<1>2. RingInv /\ [Next]_vars => [Channel!Next]_<<sent, got>>
  BY StepOfChannel
<1> QED BY <1>1, <1>2, RingIsSafe, PTL DEF Spec, RingIsChannel, Channel!Spec
--------------------------------------------------------------------------------
(* The barrier of a group of clients.                                            *)

Outside == {a \in Agent : pc[a] \in {"barrier", "leave"}}
NotHere == {"start", "init", "barrier"}

(* threads counts the clients that are not at the barrier or about to leave it,  *)
(* those that could not connect included.  Until the last one comes, only those  *)
(* that returned early are past it; from then on all are.                        *)
BarrierInv ==
    /\ run \in Scenario
    /\ pc \in [Agent -> BeforeRing \cup InRing \cup AfterRing]
    /\ started \in BOOLEAN /\ early \in SUBSET Agent
    /\ \A a \in Agent \ run.agents : pc[a] = "gone"
    /\ ~run.data => \A a \in Agent : pc[a] \in {"start", "init", "gone"}
    /\ ~Grouped => \A a \in Agent : pc[a] \notin {"barrier", "leave"}
    /\ Grouped =>
        /\ \A a \in Agent : pc[a] # "count"
        /\ threads = Cardinality(run.agents \ Outside)
        /\ started => \A a \in Agent : pc[a] \notin NotHere
        /\ ~started => \A a \in Agent : pc[a] \in NotHere \cup {"gone"} \/ a \in early

(* The client that finds threads at one is the only one not at the barrier.      *)
LEMMA LastOne ==
  ASSUME NEW S, IsFiniteSet(S), Cardinality(S) = 1, NEW x \in S
  PROVE  S = {x}
<1>1. IsFiniteSet(S \ {x}) /\ Cardinality(S \ {x}) = 0
  BY FS_RemoveElement
<1>2. S \ {x} = {}
  BY <1>1, FS_EmptySet
<1> QED BY <1>2

LEMMA BarrierKeeps ==
  ASSUME BarrierInv, NEW a \in Agent, Barrier(a)
  PROVE  BarrierInv'
<1>1. /\ run' = run /\ early' = early /\ pc[a] = "init" /\ Grouped /\ a \in run.agents
      /\ a \notin Outside /\ run \in Scenario /\ IsFiniteSet(run.agents)
      /\ threads = Cardinality(run.agents \ Outside)
  BY ScenarioAssumption DEF Barrier, Grouped, Outside, BarrierInv
<1>2. IsFiniteSet(run.agents \ Outside)
  BY <1>1, FS_Difference
<1>3. ~started
  BY <1>1 DEF BarrierInv, NotHere
<1>4. CASE threads = 1
  <2>1. run.agents \ Outside = {a}
    <3> DEFINE S == run.agents \ Outside
    <3>1. IsFiniteSet(S) /\ Cardinality(S) = 1 /\ a \in S
      BY <1>1, <1>2, <1>4
    <3> HIDE DEF S
    <3>2. S = {a}
      BY <3>1, LastOne
    <3> QED BY <3>2 DEF S
  <2>2. /\ pc' = [b \in Agent |-> IF b = a THEN "post"
                                  ELSE IF pc[b] = "barrier" THEN "leave" ELSE pc[b]]
        /\ started' = TRUE /\ threads' = threads
    BY <1>4 DEF Barrier, LastAtBarrier
  <2>3. \A b \in Agent : pc'[b] \notin NotHere
    BY <2>1, <2>2 DEF Outside, NotHere, BarrierInv
  <2>4. Outside' = Outside
    BY <1>1, <2>2 DEF Outside
  <2> QED BY <1>1, <2>2, <2>3, <2>4 DEF BarrierInv, Grouped, BeforeRing, InRing, AfterRing
<1>5. CASE threads # 1
  <2>1. threads' = threads - 1 /\ pc' = [pc EXCEPT ![a] = "barrier"] /\ started' = started
    BY <1>5 DEF Barrier, LastAtBarrier
  <2>2. run.agents \ Outside' = (run.agents \ Outside) \ {a}
    BY <2>1 DEF Outside, BarrierInv
  <2>3. Cardinality(run.agents \ Outside') = threads - 1
    <3> DEFINE S == run.agents \ Outside
    <3>1. IsFiniteSet(S) /\ Cardinality(S) = threads /\ a \in S
      BY <1>1, <1>2
    <3>2. run.agents \ Outside' = S \ {a}
      BY <2>2
    <3> HIDE DEF S
    <3>3. Cardinality(S \ {a}) = Cardinality(S) - 1
      BY <3>1, FS_RemoveElement
    <3> QED BY <3>1, <3>2, <3>3
  <2> QED BY <1>1, <1>3, <2>1, <2>3
      DEF BarrierInv, Grouped, NotHere, BeforeRing, InRing, AfterRing
<1> QED BY <1>4, <1>5

(* Whoever leaves, signalled or not, counts itself back in.                      *)
LEMMA LeavingKeeps ==
  ASSUME BarrierInv, NEW a \in Agent, ReturnEarly(a) \/ LeaveBarrier(a)
  PROVE  BarrierInv'
<1>1. /\ run' = run /\ started' = started /\ Grouped /\ a \in run.agents /\ a \in Outside
      /\ run \in Scenario /\ IsFiniteSet(run.agents)
      /\ threads = Cardinality(run.agents \ Outside)
  BY ScenarioAssumption DEF ReturnEarly, LeaveBarrier, Grouped, Outside, BarrierInv
<1>2. CASE ReturnEarly(a)
  <2>1. /\ pc' = [pc EXCEPT ![a] = "leave"] /\ early' = early \cup {a}
        /\ threads' = threads /\ pc[a] = "barrier"
    BY <1>2 DEF ReturnEarly
  <2>2. Outside' = Outside
    BY <2>1 DEF Outside, BarrierInv
  <2> QED BY <1>1, <2>1, <2>2
      DEF BarrierInv, Grouped, NotHere, BeforeRing, InRing, AfterRing
<1>3. CASE LeaveBarrier(a)
  <2>1. /\ pc' = [pc EXCEPT ![a] = "post"] /\ early' = early
        /\ threads' = threads + 1 /\ pc[a] = "leave"
    BY <1>3 DEF LeaveBarrier
  <2>2. run.agents \ Outside' = (run.agents \ Outside) \cup {a}
    BY <1>1, <2>1 DEF Outside, BarrierInv
  <2>3. Cardinality(run.agents \ Outside') = threads + 1
    <3> DEFINE S == run.agents \ Outside
    <3>1. IsFiniteSet(S) /\ Cardinality(S) = threads /\ a \notin S
      BY <1>1, FS_Difference
    <3>2. run.agents \ Outside' = S \cup {a}
      BY <2>2
    <3> HIDE DEF S
    <3>3. Cardinality(S \cup {a}) = Cardinality(S) + 1
      BY <3>1, FS_AddElement
    <3> QED BY <3>1, <3>2, <3>3
  <2> QED BY <1>1, <2>1, <2>3
      DEF BarrierInv, Grouped, NotHere, BeforeRing, InRing, AfterRing
<1> QED BY <1>2, <1>3

(* The other steps of an agent: none leads to the barrier or from it, and none   *)
(* but those of a server's thread change the count.                              *)
LEMMA AgentKeepsBarrier ==
  ASSUME BarrierInv, NEW a \in Agent, AgentStep(a),
         ~Barrier(a), ~ReturnEarly(a), ~LeaveBarrier(a)
  PROVE  BarrierInv'
<1> USE DEF BeforeRing, InRing, AfterRing, NotHere
<1>1. UNCHANGED <<run, started, early>>
  BY DEF AgentStep, Scheduled, ReportPacket, Start, InitConnection, CountIn,
         CountedIn, InitReport, ReadIndex, Wrap, Full, Sleep, Write, Publish, ReportServerUDP,
         GetReport, EndReport, AgentOnly, groupVars
<1>2. CASE Start(a) \/ InitConnection(a)
  <2>1. PICK q \in {"init", "gone"} : pc' = [pc EXCEPT ![a] = q]
    BY <1>2 DEF Start, InitConnection
  <2>2. threads' = threads /\ pc[a] \in {"start", "init"}
    BY <1>2 DEF Start, InitConnection, groupVars
  <2>3. Outside' = Outside
    BY <2>1, <2>2 DEF Outside, BarrierInv
  <2>4. a \in run.agents
    BY <2>2 DEF BarrierInv
  <2> QED BY <1>1, <2>1, <2>2, <2>3, <2>4 DEF BarrierInv, Grouped
<1>3. CASE CountIn(a) \/ CountedIn(a)
  <2>1. PICK q \in {"count", "post"} : pc' = [pc EXCEPT ![a] = q]
    BY <1>3 DEF CountIn, CountedIn
  <2>2. pc[a] \in {"init", "count"} /\ (pc[a] = "init" => ~Grouped /\ run.data)
    BY <1>3 DEF CountIn, CountedIn, Grouped
  <2>3. run.data
    BY <2>2 DEF BarrierInv
  <2>4. ~Grouped
    BY <1>3, <2>2
    DEF CountIn, CountedIn, BarrierInv
  <2> QED BY <1>1, <2>1, <2>2, <2>3, <2>4 DEF BarrierInv, Grouped
<1>4. CASE InitReport(a) \/ ReportPacket(a) \/ ReportServerUDP(a) \/ GetReport(a) \/ EndReport(a)
  <2>1. PICK q \in InRing \cup AfterRing : pc' = [pc EXCEPT ![a] = q]
    BY <1>4 DEF InitReport, ReportPacket, ReadIndex, Wrap, Full, Sleep, Write, Publish,
                ReportServerUDP, GetReport, EndReport
  <2>2. /\ pc[a] \in InRing \cup {"init", "post", "close", "end"}
        /\ pc[a] = "init" => ~Grouped /\ run.data
        /\ threads' = threads
    BY <1>4 DEF InitReport, ReportPacket, ReadIndex, Wrap, Full, Sleep, Write, Publish,
                ReportServerUDP, GetReport, EndReport, AgentOnly, groupVars, Grouped
  <2>3. Outside' = Outside
    BY <2>1, <2>2 DEF Outside, BarrierInv
  <2>4. run.data /\ a \in run.agents
    BY <2>2 DEF BarrierInv
  <2> QED BY <1>1, <2>1, <2>2, <2>3, <2>4 DEF BarrierInv, Grouped
<1> QED BY <1>2, <1>3, <1>4 DEF AgentStep, Scheduled

LEMMA InitBarrier == Init => BarrierInv
<1> SUFFICES ASSUME Init PROVE BarrierInv
  OBVIOUS
<1>1. Outside = {}
  BY DEF Init, Outside
<1>2. run.agents \ Outside = run.agents
  BY <1>1
<1> QED BY <1>2 DEF Init, BarrierInv, Grouped, NotHere, BeforeRing, AfterRing

LEMMA StutterKeepsBarrier ==
  ASSUME BarrierInv, UNCHANGED <<run, pc, threads, started, early>>
  PROVE  BarrierInv'
BY DEF BarrierInv, Grouped, Outside

(* threads of a group counts the clients that are not at the barrier or leaving  *)
(* it, whether they were woken or returned early.                                *)
THEOREM BarrierIsKept == Spec => []BarrierInv
<1>1. BarrierInv /\ [Next]_vars => BarrierInv'
  <2> SUFFICES ASSUME BarrierInv, [Next]_vars PROVE BarrierInv'
    OBVIOUS
  <2>1. ASSUME NEW a \in Agent, AgentStep(a) PROVE BarrierInv'
    BY <2>1, BarrierKeeps, LeavingKeeps, AgentKeepsBarrier
  <2>2. CASE ReporterStep
    <3>1. UNCHANGED <<run, pc, threads, started, early>>
      BY <2>2 DEF ReporterStep, Top, Wake, Again, Process, ProcessTransfer, Loop, Move, Handle,
             PrintInterval, NoInterval, PrintFinal, Closing, Check, ReporterOnly, groupVars
    <3> QED BY <3>1, StutterKeepsBarrier
  <2>3. CASE JoinAll \/ UNCHANGED vars
    BY <2>3, StutterKeepsBarrier DEF JoinAll, vars, groupVars
  <2> QED BY <2>1, <2>2, <2>3 DEF Next
<1> QED BY <1>1, InitBarrier, PTL DEF Spec

(* Whatever the number of clients, however late each of them is, and whichever   *)
(* waits return early: threads is right, the start time is only set when none of *)
(* a group is still to come, and no client starts without it but one whose wait  *)
(* returned early.                                                               *)
THEOREM ClientsStartTogether == Spec => []StartTogether
<1>1. BarrierInv => StartTogether
  <2> SUFFICES ASSUME BarrierInv, Grouped PROVE StartTogether
    BY DEF StartTogether
  <2>1. run.agents \subseteq Agent
    BY ScenarioAssumption DEF BarrierInv
  <2>2. run.agents \ Outside = {a \in run.agents : pc[a] \notin {"barrier", "leave"}}
    BY <2>1 DEF Outside
  <2>3. \A a \in Agent : Started(a) => pc[a] \notin NotHere \cup {"gone"}
    BY DEF Started, Using, NotHere
  <2> QED BY <2>1, <2>2, <2>3 DEF BarrierInv, StartTogether, NotHere
<1> QED BY <1>1, BarrierIsKept, PTL

--------------------------------------------------------------------------------
(* Sequences without repetition.                                                 *)
OnceIn(s, S) == s \in Seq(S) /\ IsInjective(s)

LEMMA InFront ==
  ASSUME NEW S, NEW s, OnceIn(s, S), NEW e \in S
  PROVE  /\ ToSet(Cons(e, s)) = {e} \cup ToSet(s)
         /\ e \notin ToSet(s) => OnceIn(Cons(e, s), S)
<1>1. /\ s \in Seq(S) /\ Len(s) \in Nat /\ DOMAIN s = 1 .. Len(s)
      /\ <<e>> \in Seq(S) /\ Len(<<e>>) = 1
      /\ \A i, j \in DOMAIN s : s[i] = s[j] => i = j
  BY LenProperties DEF OnceIn, IsInjective
<1>2. e \notin ToSet(s) => \A i \in DOMAIN s : s[i] # e
  BY DEF ToSet
<1> DEFINE t == <<e>> \o s
<1>3. /\ t \in Seq(S) /\ Len(t) = Len(s) + 1
      /\ t[1] = e /\ \A i \in 1 .. Len(s) : t[i + 1] = s[i]
  BY <1>1
<1> HIDE DEF t
<1>4. DOMAIN t = 1 .. Len(s) + 1
  BY <1>3, LenProperties
<1>5. \A i \in DOMAIN t : i = 1 \/ (i - 1 \in 1 .. Len(s) /\ t[i] = s[i - 1])
  <2> SUFFICES ASSUME NEW i \in DOMAIN t, i # 1 PROVE i - 1 \in 1 .. Len(s) /\ t[i] = s[i - 1]
    OBVIOUS
  <2>1. i - 1 \in 1 .. Len(s) /\ (i - 1) + 1 = i
    BY <1>1, <1>4
  <2> QED BY <1>3, <2>1
<1>6. e \notin ToSet(s) => IsInjective(t)
  BY <1>1, <1>2, <1>3, <1>4, <1>5 DEF IsInjective
<1>7. ToSet(t) = {e} \cup ToSet(s)
  <2>1. \A i \in DOMAIN t : t[i] = e \/ t[i] \in ToSet(s)
    BY <1>1, <1>3, <1>5 DEF ToSet
  <2>2. e \in ToSet(t)
    BY <1>1, <1>3, <1>4 DEF ToSet
  <2>3. \A i \in DOMAIN s : s[i] \in ToSet(t)
    BY <1>1, <1>3, <1>4 DEF ToSet
  <2> QED BY <2>1, <2>2, <2>3 DEF ToSet
<1> QED BY <1>3, <1>6, <1>7 DEF OnceIn, Cons, t

LEMMA LastAndFront ==
  ASSUME NEW S, NEW s, OnceIn(s, S), s # <<>>
  PROVE  /\ Len(s) \in Nat /\ Len(s) >= 1
         /\ Last(s) \in ToSet(s) /\ Last(s) \in S
         /\ OnceIn(Front(s), S) /\ ToSet(Front(s)) = ToSet(s) \ {Last(s)}
         /\ Front(s) = <<>> <=> Len(s) = 1
<1>1. /\ s \in Seq(S) /\ Len(s) \in Nat /\ DOMAIN s = 1 .. Len(s)
      /\ \A i, j \in DOMAIN s : s[i] = s[j] => i = j
      /\ \A i \in DOMAIN s : s[i] \in S
      /\ Len(s) # 0
  BY LenProperties, EmptySeq DEF OnceIn, IsInjective
<1> DEFINE t == SubSeq(s, 1, Len(s) - 1)
<1>2. /\ t \in Seq(S) /\ Len(t) = Len(s) - 1
      /\ \A i \in 1 .. Len(s) - 1 : t[i] = s[i]
  BY <1>1
<1> HIDE DEF t
<1>3. DOMAIN t = 1 .. Len(s) - 1 /\ (t = <<>> <=> Len(t) = 0)
  BY <1>2, LenProperties, EmptySeq
<1>4. IsInjective(t)
  BY <1>1, <1>2, <1>3 DEF IsInjective
<1>5. ToSet(t) = ToSet(s) \ {s[Len(s)]}
  <2>1. \A i \in DOMAIN t : i \in DOMAIN s /\ t[i] = s[i] /\ s[i] # s[Len(s)]
    BY <1>1, <1>2, <1>3
  <2>2. \A i \in DOMAIN s : s[i] = s[Len(s)] \/ (i \in DOMAIN t /\ t[i] = s[i])
    BY <1>1, <1>2, <1>3
  <2> QED BY <2>1, <2>2 DEF ToSet
<1>6. s[Len(s)] \in S /\ s[Len(s)] \in ToSet(s)
  BY <1>1 DEF ToSet
<1> QED BY <1>1, <1>2, <1>3, <1>4, <1>5, <1>6 DEF OnceIn, Front, Last, t

LEMMA AfterIt ==
  ASSUME NEW S, NEW s \in Seq(S), NEW k \in 1 .. Len(s)
  PROVE  /\ SubSeq(s, k + 1, Len(s)) \in Seq(S)
         /\ Len(SubSeq(s, k + 1, Len(s))) = Len(s) - k
         /\ \A i \in 1 .. Len(s) - k : SubSeq(s, k + 1, Len(s))[i] = s[k + i]
<1>1. \A i \in k + 1 .. Len(s) : s[i] \in S
  BY ElementOfSeq
<1>2. SubSeq(s, k + 1, Len(s)) \in Seq(S)
  BY <1>1, SubSeqProperties
<1>3. Len(SubSeq(s, k + 1, Len(s))) = Len(s) - k
  OBVIOUS
<1>4. \A i \in 1 .. Len(s) - k : SubSeq(s, k + 1, Len(s))[i] = s[k + i]
  OBVIOUS
<1> QED BY <1>2, <1>3, <1>4

LEMMA WithoutFirst ==
  ASSUME NEW S, NEW s, OnceIn(s, S), NEW e, e \in ToSet(s)
  PROVE  OnceIn(RemoveFirst(s, e), S) /\ ToSet(RemoveFirst(s, e)) = ToSet(s) \ {e}
<1>1. /\ s \in Seq(S) /\ Len(s) \in Nat /\ DOMAIN s = 1 .. Len(s)
      /\ \A i, j \in DOMAIN s : s[i] = s[j] => i = j
  BY LenProperties DEF OnceIn, IsInjective
<1>2. PICK k \in 1 .. Len(s) : s[k] = e
  BY <1>1 DEF ToSet
<1> DEFINE I == {i \in 1 .. Len(s) : s[i] = e}
<1>3. I = {k}
  BY <1>1, <1>2
<1>4. Min({k}) = k
  BY DEF Min
<1>5. RemoveFirst(s, e) = RemoveAt(s, k)
  BY <1>2, <1>3, <1>4 DEF RemoveFirst, SelectInSeq
<1> DEFINE p == SubSeq(s, 1, k - 1)
           q == SubSeq(s, k + 1, Len(s))
           t == p \o q
<1>6. p \in Seq(S) /\ Len(p) = k - 1 /\ \A i \in 1 .. k - 1 : p[i] = s[i]
  BY <1>1, <1>2
<1>7. q \in Seq(S) /\ Len(q) = Len(s) - k /\ \A i \in 1 .. Len(s) - k : q[i] = s[k + i]
  <2>1. s \in Seq(S)
    BY <1>1
  <2>2. /\ SubSeq(s, k + 1, Len(s)) \in Seq(S)
        /\ Len(SubSeq(s, k + 1, Len(s))) = Len(s) - k
        /\ \A i \in 1 .. Len(s) - k : SubSeq(s, k + 1, Len(s))[i] = s[k + i]
    BY <2>1, AfterIt
  <2> QED BY <2>2
<1> HIDE DEF p, q
<1>8. t \in Seq(S) /\ Len(t) = Len(s) - 1
  <2>1. t \in Seq(S) /\ Len(t) = Len(p) + Len(q)
    BY <1>6, <1>7, ConcatProperties
  <2> QED BY <1>1, <1>2, <1>6, <1>7, <2>1
<1>9. \A i \in 1 .. Len(s) - 1 : t[i] = IF i < k THEN s[i] ELSE s[i + 1]
  <2>1. ASSUME NEW i \in 1 .. Len(s) - 1, i < k PROVE t[i] = s[i]
    BY <1>1, <1>2, <1>6, <1>7, <2>1
  <2>2. ASSUME NEW i \in 1 .. Len(s) - 1, ~(i < k) PROVE t[i] = s[i + 1]
    <3>1. t[i] = q[i - (k - 1)]
      BY <1>1, <1>2, <1>6, <1>7, <2>2
    <3>2. q[i - (k - 1)] = s[k + (i - (k - 1))]
      BY <1>1, <1>2, <1>7, <2>2
    <3>3. k + (i - (k - 1)) = i + 1
      BY <1>2
    <3> QED BY <3>1, <3>2, <3>3
  <2> QED BY <2>1, <2>2
<1> HIDE DEF t
<1>10. DOMAIN t = 1 .. Len(s) - 1
  BY <1>8, LenProperties
<1> DEFINE At(i) == IF i < k THEN i ELSE i + 1
<1>11. \A i \in DOMAIN t : At(i) \in DOMAIN s \ {k} /\ t[i] = s[At(i)]
  BY <1>1, <1>2, <1>9, <1>10
<1>12. IsInjective(t)
  <2>1. \A i, j \in DOMAIN t : At(i) = At(j) => i = j
    BY <1>1, <1>2, <1>10
  <2> QED BY <1>1, <1>11, <2>1 DEF IsInjective
<1>13. ToSet(t) = ToSet(s) \ {e}
  <2>1. \A i \in DOMAIN t : t[i] \in ToSet(s) \ {e}
    BY <1>1, <1>2, <1>11 DEF ToSet
  <2>2. ASSUME NEW i \in DOMAIN s, i # k PROVE s[i] \in ToSet(t)
    <3>1. CASE i < k
      BY <1>1, <1>2, <1>9, <1>10, <2>2, <3>1 DEF ToSet
    <3>2. CASE ~(i < k)
      <4>1. i - 1 \in DOMAIN t /\ (i - 1) + 1 = i /\ ~(i - 1 < k)
        BY <1>1, <1>2, <1>10, <2>2, <3>2
      <4>2. t[i - 1] = s[i]
        BY <1>9, <1>10, <4>1
      <4> QED BY <4>1, <4>2 DEF ToSet
    <3> QED BY <3>1, <3>2
  <2>3. \A i \in DOMAIN s : s[i] = e \/ s[i] \in ToSet(t)
    BY <1>2, <2>2
  <2> QED BY <2>1, <2>3 DEF ToSet
<1> QED BY <1>5, <1>8, <1>12, <1>13 DEF OnceIn, RemoveAt, t, p, q

--------------------------------------------------------------------------------
(* The list of reports has no report twice, and a pass works on a part of it.    *)
OnList == {"scan", "check"} \cup OnReport
ListTypes ==
    /\ OnceIn(root, Report) /\ OnceIn(todo, Report)
    /\ ToSet(todo) \subseteq ToSet(root)
    /\ rpc \in ReporterPC
    /\ todo # <<>> <=> rpc \in OnList
    /\ rpc \in {"check"} \cup OnReport => Current[1] = "transfer"
    /\ rpc = "asleep" => root = <<>>

(* Which reports of an agent are in the list, by its place in the program.       *)
Listed(a) ==
    /\ Using(a) => Transfer(a) \in ToSet(root)
    /\ pc[a] \in BeforeRing => Transfer(a) \notin ToSet(root)
    /\ pc[a] = "start" => <<"settings", a>> \notin ToSet(root)
    /\ pc[a] # "gone" => <<"connection", a>> \notin ToSet(root)
    /\ pc[a] \notin {"end", "gone"} => <<"relay", a>> \notin ToSet(root)
    /\ pc[a] # "gone" => agentindex[a] # -1

ListInv == ListTypes /\ \A a \in Agent : Listed(a)

(* What the subject of the reporter is.                                          *)
LEMMA CurrentReport ==
  ASSUME ListTypes, todo # <<>>
  PROVE  /\ Current \in ToSet(root) /\ Current \in Report
         /\ Subject \in Agent /\ Current = <<Current[1], Subject>>
<1>1. Current \in ToSet(todo) /\ Current \in Report
  BY LastAndFront DEF ListTypes, Current
<1> QED BY <1>1 DEF ListTypes, Report, Subject

LEMMA OnSubject ==
  ASSUME ListInv, rpc \in {"check"} \cup OnReport
  PROVE  Subject \in Agent /\ Current = Transfer(Subject) /\ todo # <<>>
BY CurrentReport DEF ListInv, ListTypes, OnList, Transfer

LEMMA NothingOnce == ASSUME NEW S PROVE OnceIn(<<>>, S) /\ ToSet(<<>>) = {}
BY EmptySeq DEF OnceIn, IsInjective, ToSet

LEMMA InitList == Init => ListInv
<1> SUFFICES ASSUME Init PROVE ListInv
  OBVIOUS
<1>1. root = <<>> /\ todo = <<>> /\ rpc = "top"
  BY DEF Init
<1>2. ListTypes
  BY <1>1, NothingOnce DEF ListTypes, OnList, OnReport, ReporterPC
<1>3. ASSUME NEW a \in Agent PROVE Listed(a)
  <2>1. pc[a] \in {"start", "gone"} /\ agentindex[a] = 0 /\ ToSet(root) = {}
    BY <1>1, NothingOnce DEF Init
  <2> QED BY <2>1 DEF Listed, Using
<1> QED BY <1>2, <1>3 DEF ListInv

(* A new report, which is not in the list.                                       *)
LEMMA Posted ==
  ASSUME ListTypes, NEW r \in Report, r \notin ToSet(root), Post(r)
  PROVE  /\ ListTypes' /\ ToSet(root') = {r} \cup ToSet(root)
<1>1. /\ OnceIn(root', Report) /\ ToSet(root') = {r} \cup ToSet(root) /\ todo' = todo
  BY InFront DEF Post, ListTypes
<1>2. rpc' = IF rpc = "asleep" THEN "woken" ELSE rpc
  BY DEF Post, SignalReporter
<1>3. Current' = Current
  BY <1>1 DEF Current
<1> QED BY <1>1, <1>2, <1>3 DEF ListTypes, OnList, OnReport, ReporterPC

LEMMA ListAlone ==
  ASSUME ListTypes, listVars' = listVars, rpc' = rpc \/ SignalReporter
  PROVE  ListTypes' /\ ToSet(root') = ToSet(root)
<1>1. root' = root /\ todo' = todo /\ Current' = Current
  BY DEF listVars, Current
<1>2. rpc' = rpc \/ (rpc = "asleep" /\ rpc' = "woken")
  BY DEF SignalReporter
<1> QED BY <1>1, <1>2 DEF ListTypes, OnList, OnReport, ReporterPC

(* How an agent goes on without making a report.                                 *)
GoesOn(p, q) ==
    \/ q = p
    \/ p \in BeforeRing /\ q \in (BeforeRing \ {"start"}) \cup {"gone"}
    \/ p \in InRing /\ q \in InRing \cup {"close"}
    \/ p = "close" /\ q = "end"
    \/ p = "end" /\ q = "gone"
LEMMA ListedStill ==
  ASSUME NEW b \in Agent, Listed(b), ToSet(root') = ToSet(root),
         GoesOn(pc[b], pc'[b]), pc'[b] # "gone" => agentindex'[b] # -1
  PROVE  Listed(b)'
BY DEF Listed, GoesOn, Using, Transfer, BeforeRing, InRing

(* Another report of the list, ...                                               *)
LEMMA OthersListed ==
  ASSUME NEW b \in Agent, Listed(b), NEW k \in Kind, NEW a \in Agent, a # b,
         ToSet(root') = {<<k, a>>} \cup ToSet(root),
         pc'[b] = pc[b], agentindex'[b] = agentindex[b]
  PROVE  Listed(b)'
BY DEF Listed, Using, Transfer

Silent(a) ==
    \/ Barrier(a) \/ LeaveBarrier(a) \/ ReturnEarly(a) \/ CountIn(a) \/ CountedIn(a)
    \/ ReportPacket(a) \/ GetReport(a) \/ EndReport(a)

LEMMA SilentKeepsList ==
  ASSUME RingInv, ListInv, NEW a \in Agent, Silent(a)
  PROVE  ListInv'
<1>1. listVars' = listVars /\ (rpc' = rpc \/ SignalReporter)
  BY DEF Silent, ReportPacket, Barrier, LeaveBarrier, ReturnEarly, CountIn, CountedIn,
         GetReport, EndReport,
         ReadIndex, Wrap, Full, Sleep, Write, Publish, AgentOnly
<1>2. ListTypes' /\ ToSet(root') = ToSet(root)
  BY <1>1, ListAlone DEF ListInv
<1>3. ASSUME NEW b \in Agent PROVE Listed(b)'
  <2>1. GoesOn(pc[b], pc'[b])
    BY DEF RingInv, RingTypes, Silent, ReportPacket, Barrier, LeaveBarrier, ReturnEarly,
           CountIn, CountedIn,
           GetReport, EndReport, ReadIndex, Wrap, Full, Sleep, Write, Publish, GoesOn,
           BeforeRing, InRing
  <2>2. pc'[b] # "gone" => agentindex'[b] # -1
    <3>4. pc'[b] # "gone" => agentindex[b] # -1
      BY <2>1 DEF ListInv, Listed, GoesOn, BeforeRing, InRing
    <3>1. CASE Publish(a)
      <4>1. agentindex[a] \in 0 .. N
        BY <3>1, StillOpen DEF Publish, InRing, Ring
      <4>2. agentindex' = [agentindex EXCEPT ![a] = agentindex[a] + 1]
        BY <3>1 DEF Publish
      <4>3. agentindex[a] + 1 # -1
        BY <4>1, RingAssumption
      <4> QED BY <3>4, <4>2, <4>3 DEF RingInv, RingTypes
    <3>2. CASE Wrap(a) \/ EndReport(a)
      <4>1. pc' = [pc EXCEPT ![a] = "gone"] \/ agentindex' = [agentindex EXCEPT ![a] = 0]
        BY <3>2 DEF Wrap, EndReport
      <4>2. \A c \in Agent : c # a => agentindex'[c] = agentindex[c]
        BY <3>2 DEF Wrap, EndReport, RingInv, RingTypes
      <4> QED BY <3>4, <4>1, <4>2 DEF RingInv, RingTypes
    <3>3. CASE ~(Publish(a) \/ Wrap(a) \/ EndReport(a))
      <4>1. agentindex' = agentindex
        BY <3>3 DEF Silent, ReportPacket, Barrier, LeaveBarrier, ReturnEarly, CountIn,
               CountedIn, GetReport,
               ReadIndex, Full, Sleep, Write, ringVars
      <4>2. pc[b] = "gone" => pc'[b] = "gone"
        BY <2>1 DEF GoesOn, BeforeRing, InRing
      <4> QED BY <4>1, <4>2 DEF ListInv, Listed
    <3> QED BY <3>1, <3>2, <3>3
  <2> QED BY <1>2, <2>1, <2>2, ListedStill DEF ListInv
<1> QED BY <1>2, <1>3 DEF ListInv

(* The steps that make a report.                                                 *)
Speaks(a) == Start(a) \/ InitConnection(a) \/ InitReport(a) \/ ReportServerUDP(a)

LEMMA SpeaksKeepsList ==
  ASSUME RingInv, ListInv, NEW a \in Agent, Speaks(a)
  PROVE  ListInv'
<1>1. agentindex' = agentindex
  BY DEF Speaks, Start, InitConnection, InitReport, ReportServerUDP, ringVars
<1>2. PICK q \in BeforeRing \cup InRing \cup AfterRing :
        /\ pc' = [pc EXCEPT ![a] = q]
        /\ pc[a] = "start" => q \in {"init", "gone"}
        /\ pc[a] \in {"init", "post"} => q \in {"enter", "gone"}
        /\ pc[a] = "close" => q = "end"
        /\ pc[a] \in {"start", "init", "post", "close"}
  BY DEF Speaks, Start, InitConnection, InitReport, ReportServerUDP, BeforeRing, InRing, AfterRing
<1>3. pc'[a] = q /\ \A b \in Agent : b # a => pc'[b] = pc[b]
  BY <1>2 DEF RingInv, RingTypes
<1>4. CASE UNCHANGED <<listVars, rpc>> /\ pc[a] \in {"start", "close"}
  <2>1. ListTypes' /\ ToSet(root') = ToSet(root)
    BY <1>4, ListAlone DEF ListInv
  <2>2. ASSUME NEW b \in Agent PROVE Listed(b)'
    <3>1. GoesOn(pc[b], pc'[b])
      BY <1>2, <1>3, <1>4 DEF GoesOn, BeforeRing
    <3>2. pc'[b] # "gone" => agentindex'[b] # -1
      BY <1>1, <1>2, <1>3 DEF ListInv, Listed
    <3> QED BY <2>1, <3>1, <3>2, ListedStill DEF ListInv
  <2> QED BY <2>1, <2>2 DEF ListInv
<1>5. ASSUME NEW k \in Kind, Post(<<k, a>>),
             \/ k = "settings" /\ pc[a] = "start"
             \/ k = "connection" /\ pc[a] = "init" /\ q = "gone"
             \/ k = "transfer" /\ pc[a] \in {"init", "post"} /\ q = "enter"
             \/ k = "relay" /\ pc[a] = "close"
      PROVE  ListInv'
  <2>1. Listed(a) /\ <<k, a>> \in Report
    BY DEF ListInv, Report
  <2>2. <<k, a>> \notin ToSet(root)
    BY <1>5, <2>1 DEF Listed, Transfer, BeforeRing
  <2>3. ListTypes' /\ ToSet(root') = {<<k, a>>} \cup ToSet(root)
    BY <1>5, <2>1, <2>2, Posted DEF ListInv
  <2>4. Listed(a)'
    BY <1>1, <1>2, <1>3, <1>5, <2>1, <2>3 DEF Listed, Transfer, Using, BeforeRing, InRing
  <2>5. ASSUME NEW b \in Agent, b # a PROVE Listed(b)'
    BY <1>1, <1>3, <2>3, <2>5, OthersListed DEF ListInv
  <2> QED BY <2>3, <2>4, <2>5 DEF ListInv
<1>6. CASE Start(a)
  BY <1>4, <1>5, <1>6 DEF Start, Kind
<1>7. CASE InitConnection(a)
  <2>1. q = "gone"
    BY <1>3, <1>7 DEF InitConnection, RingInv, RingTypes
  <2> QED BY <1>5, <1>7, <2>1 DEF InitConnection, Kind
<1>8. CASE InitReport(a)
  <2>1. q = "enter"
    BY <1>3, <1>8 DEF InitReport, RingInv, RingTypes
  <2> QED BY <1>5, <1>8, <2>1 DEF InitReport, Kind, Transfer
<1>9. CASE ReportServerUDP(a)
  BY <1>4, <1>5, <1>9 DEF ReportServerUDP, Kind
<1> QED BY <1>6, <1>7, <1>8, <1>9 DEF Speaks

(* The reporter is done with a report.                                           *)
LEMMA FinishKeepsTypes ==
  ASSUME ListTypes, todo # <<>>, NEW free \in BOOLEAN, Finish(free)
  PROVE  /\ ListTypes'
         /\ ToSet(root') = IF free THEN ToSet(root) \ {Current} ELSE ToSet(root)
<1>1. /\ Current \in ToSet(root)
      /\ OnceIn(Front(todo), Report) /\ ToSet(Front(todo)) = ToSet(todo) \ {Current}
      /\ Front(todo) = <<>> <=> Len(todo) = 1
  BY CurrentReport, LastAndFront DEF ListTypes, Current
<1>2. /\ OnceIn(root', Report)
      /\ ToSet(root') = IF free THEN ToSet(root) \ {Current} ELSE ToSet(root)
  <2>1. OnceIn(RemoveFirst(root, Current), Report) /\ ToSet(RemoveFirst(root, Current)) = ToSet(root) \ {Current}
    BY <1>1, WithoutFirst DEF ListTypes
  <2> QED BY <2>1 DEF Finish, ListTypes
<1>3. todo' = Front(todo) /\ rpc' \in {"scan", "again", "top"} /\ (rpc' = "scan" <=> Len(todo) # 1)
  BY DEF Finish
<1>4. ToSet(todo') \subseteq ToSet(root')
  BY <1>1, <1>2, <1>3 DEF ListTypes
<1> QED BY <1>1, <1>2, <1>3, <1>4 DEF ListTypes, OnList, OnReport, ReporterPC

LEMMA ProcessKeepsList ==
  ASSUME ListInv, Process \/ Check
  PROVE  ListInv'
<1>1. pc' = pc /\ agentindex' = agentindex /\ todo # <<>>
  BY DEF Process, Check, ReporterOnly, ListInv, ListTypes, OnList
<1>2. Subject \in Agent /\ Current = <<Current[1], Subject>>
  BY <1>1, CurrentReport DEF ListInv
<1>3. PICK free \in BOOLEAN : Finish(free) /\ (free /\ Current[1] = "transfer" => agentindex[Subject] = -1)
  BY DEF Process, Check, OneShot, HandedOver
<1>4. /\ ListTypes'
      /\ ToSet(root') = IF free THEN ToSet(root) \ {Current} ELSE ToSet(root)
  BY <1>1, <1>3, FinishKeepsTypes DEF ListInv
<1>5. ASSUME NEW a \in Agent PROVE Listed(a)'
  <2>1. Listed(a) /\ ToSet(root') \subseteq ToSet(root)
    BY <1>4 DEF ListInv
  <2>2. Using(a) => Transfer(a) \in ToSet(root')
    <3> SUFFICES ASSUME Using(a), free, Current = Transfer(a) PROVE FALSE
      BY <1>4, <2>1 DEF Listed
    <3>1. Subject = a /\ Current[1] = "transfer"
      BY DEF Subject, Transfer
    <3> QED BY <1>3, <2>1, <3>1 DEF Listed, Using
  <2> QED BY <1>1, <2>1, <2>2 DEF Listed, Using, Transfer
<1> QED BY <1>4, <1>5 DEF ListInv

LEMMA OtherStepsKeepList ==
  ASSUME ListInv, ReporterStep, ~Process, ~Check
  PROVE  ListInv'
<1>1. pc' = pc /\ agentindex' = agentindex /\ root' = root
  BY DEF ReporterStep, Top, Wake, Again, ProcessTransfer, Loop, Move, Handle, PrintInterval,
         NoInterval, PrintFinal, Closing, ReporterOnly, listVars
<1>2. ListTypes'
  <2>1. CASE Again
    BY <1>1, <2>1, NothingOnce DEF Again, ListInv, ListTypes, OnList, OnReport, ReporterPC
  <2>2. CASE Top \/ Wake
    BY <1>1, <2>2 DEF Top, Wake, listVars, ListInv, ListTypes, OnList, OnReport, ReporterPC
  <2>3. CASE ~(Again \/ Top \/ Wake)
    <3>1. todo' = todo /\ rpc \in {"scan"} \cup OnReport /\ rpc' \in {"check"} \cup OnReport
      BY <2>3 DEF ReporterStep, ProcessTransfer, Loop, Move, Handle, PrintInterval,
                  NoInterval, PrintFinal, Closing, listVars, OnReport
    <3>2. Current' = Current /\ (rpc = "scan" => Current[1] = "transfer")
      BY <2>3, <3>1 DEF Current, ReporterStep, ProcessTransfer, Loop, Move, Handle, PrintInterval,
                        NoInterval, PrintFinal, Closing, OneShot
    <3> QED BY <1>1, <3>1, <3>2 DEF ListInv, ListTypes, OnList, OnReport, ReporterPC
  <2> QED BY <2>1, <2>2, <2>3
<1> QED BY <1>1, <1>2 DEF ListInv, Listed, Using

(* The list never has a report twice, and one is only freed after the agent has  *)
(* handed it over, which is the last thing the agent does with it.               *)
THEOREM ListIsSafe == Spec => []ListInv
<1>1. RingInv /\ ListInv /\ [Next]_vars => ListInv'
  <2> SUFFICES ASSUME RingInv, ListInv, [Next]_vars PROVE ListInv'
    OBVIOUS
  <2>1. ASSUME NEW a \in Agent, AgentStep(a) PROVE ListInv'
    BY <2>1, SilentKeepsList, SpeaksKeepsList DEF AgentStep, Scheduled, Silent, Speaks
  <2>2. CASE ReporterStep
    BY <2>2, ProcessKeepsList, OtherStepsKeepList
  <2>3. CASE JoinAll \/ UNCHANGED vars
    <3>1. UNCHANGED <<pc, agentindex, root, todo, rpc>>
      BY <2>3 DEF JoinAll, vars, ringVars, listVars
    <3> QED BY <3>1 DEF ListInv, ListTypes, Listed, Using, Current
  <2> QED BY <2>1, <2>2, <2>3 DEF Next
<1> QED BY <1>1, InitList, RingIsSafe, PTL DEF Spec

(* No report is freed while its agent still uses it or the reporter still has to *)
(* process it, although agents add reports while a pass over the list goes on.   *)
THEOREM NothingUsedAfterFree == Spec => []NoUseAfterFree
<1>1. ListInv => NoUseAfterFree
  BY DEF ListInv, ListTypes, Listed, NoUseAfterFree
<1> QED BY <1>1, ListIsSafe, PTL

--------------------------------------------------------------------------------
(* What may be left when the reporter lets main go.                              *)
Waiters ==
    /\ ended \in BOOLEAN /\ ignored \in BOOLEAN
    /\ ended => ignored /\ \A a \in Agent : pc[a] = "gone"
    /\ ignored => rpc \in {"asleep", "woken"}
    /\ \A a \in Agent \ run.agents : pc[a] = "gone"
LeftOpen(a) ==
    /\ ignored /\ Using(a) => reporterindex[a] # -1
    /\ run.data /\ a \in run.agents \ run.failed /\ pc[a] = "gone" => reporterindex[a] = -1
    /\ UDPServer /\ pc[a] = "end" => reporterindex[a] = -1
NoneOfTheGone == ignored /\ run.data => \A r \in ToSet(root) : pc[r[2]] # "gone"

PendingInv == Waiters /\ NoneOfTheGone /\ \A a \in Agent : LeftOpen(a)

LEMMA InitPending == Init => PendingInv
<1> SUFFICES ASSUME Init PROVE PendingInv
  OBVIOUS
<1>1. Waiters /\ NoneOfTheGone
  BY DEF Init, Waiters, NoneOfTheGone
<1>2. ASSUME NEW a \in Agent PROVE LeftOpen(a)
  BY DEF Init, LeftOpen
<1> QED BY <1>1, <1>2 DEF PendingInv

(* No agent makes a report or goes away.                                         *)
LEMMA NoneGoes ==
  ASSUME PendingInv, ListInv, run' = run, pc' = pc, ended' = ended,
         ToSet(root') \subseteq ToSet(root),
         \/ ignored' = ignored /\ (ignored => rpc' = rpc /\ reporterindex' = reporterindex)
         \/ ignored' = FALSE /\ ~ended
         \/ ignored' = TRUE /\ rpc' = "asleep" /\ root = <<>> /\ reporterindex' = reporterindex,
         \A a \in Agent : reporterindex[a] = -1 => reporterindex'[a] = -1
  PROVE  PendingInv'
<1>1. Waiters'
  <2>1. Waiters
    BY DEF PendingInv
  <2>2. ended' \in BOOLEAN /\ ignored' \in BOOLEAN
    BY <2>1, Zenon DEF Waiters
  <2>3. ended => ignored /\ ignored' /\ \A a \in Agent : pc[a] = "gone"
    BY <2>1, Zenon DEF Waiters
  <2>4. ignored' => rpc' \in {"asleep", "woken"}
    BY <2>1, Zenon DEF Waiters
  <2> QED BY <2>1, <2>2, <2>3, <2>4, Zenon DEF Waiters
<1>2. NoneOfTheGone'
  BY NothingOnce DEF PendingInv, NoneOfTheGone
<1>3. root = <<>> => \A a \in Agent : ~Using(a)
  BY NothingOnce DEF ListInv, Listed
<1>4. ASSUME NEW a \in Agent PROVE LeftOpen(a)'
  BY <1>3 DEF PendingInv, LeftOpen, Using, UDPServer
<1> QED BY <1>1, <1>2, <1>4 DEF PendingInv

(* A closed report stays closed.                                                 *)
LEMMA ClosedStays ==
  ASSUME RingInv, ListInv, ReporterStep, NEW a \in Agent, reporterindex[a] = -1
  PROVE  reporterindex'[a] = -1
<1>1. CASE Move
  <2>1. rpc = "move" /\ Subject \in Agent /\ reporterindex[Subject] # -1
    BY <1>1, OnSubject DEF Move, OnReport, RingInv, AgentInv, Reading
  <2> QED BY <1>1, <2>1 DEF Move, RingInv, RingTypes
<1>2. CASE Closing
  BY <1>2 DEF Closing, RingInv, RingTypes
<1>3. CASE ~Move /\ ~Closing
  BY <1>3 DEF ReporterStep, Top, Wake, Again, Process, ProcessTransfer, Loop, Handle,
         PrintInterval, NoInterval, PrintFinal, Check
<1> QED BY <1>1, <1>2, <1>3

LEMMA ReporterKeepsPending ==
  ASSUME RingInv, ListInv, PendingInv, ~ended, ReporterStep
  PROVE  PendingInv'
<1>1. run' = run /\ pc' = pc /\ ended' = ended
  BY DEF ReporterStep, Top, Wake, Again, Process, ProcessTransfer, Loop, Move, Handle,
         PrintInterval, NoInterval, PrintFinal, Closing, Check, ReporterOnly
<1>2. ToSet(root') \subseteq ToSet(root)
  <2>1. CASE Process \/ Check
    <3>1. PICK free \in BOOLEAN : Finish(free)
      BY <2>1 DEF Process, Check, HandedOver
    <3>2. todo # <<>>
      BY <2>1 DEF Process, Check, ListInv, ListTypes, OnList
    <3> QED BY <3>1, <3>2, FinishKeepsTypes DEF ListInv
  <2>2. CASE ~(Process \/ Check)
    BY <2>2 DEF ReporterStep, Top, Wake, Again, ProcessTransfer, Loop, Move, Handle,
           PrintInterval, NoInterval, PrintFinal, Closing, listVars
  <2> QED BY <2>1, <2>2
<1>3. \/ ignored' = ignored /\ (ignored => rpc' = rpc /\ reporterindex' = reporterindex)
      \/ ignored' = FALSE /\ ~ended
      \/ ignored' = TRUE /\ rpc' = "asleep" /\ root = <<>> /\ reporterindex' = reporterindex
  BY DEF ReporterStep, Top, Wake, Again, Process, ProcessTransfer, Loop, Move, Handle,
         PrintInterval, NoInterval, PrintFinal, Closing, Check, PendingInv, Waiters
<1>4. \A a \in Agent : reporterindex[a] = -1 => reporterindex'[a] = -1
  BY ClosedStays
<1> QED BY <1>1, <1>2, <1>3, <1>4, NoneGoes

(* An agent only goes away when it has no report in the list, or when the        *)
(* reporter has closed it.                                                       *)
Leaves(a) == pc[a] # "gone" /\ pc'[a] = "gone"
LEMMA LeavesNothing ==
  ASSUME RingInv, ListInv, PendingInv, NEW a \in Agent, AgentStep(a), Leaves(a), run.data
  PROVE  /\ ignored => \A r \in ToSet(root) : r[2] # a
         /\ a \in run.agents \ run.failed => reporterindex[a] = -1
         /\ root' = root
<1>1. Start(a) \/ EndReport(a)
  BY DEF AgentStep, Scheduled, Leaves, ReportPacket, Start, InitConnection, Barrier,
         LeaveBarrier, ReturnEarly, CountIn,
         CountedIn, InitReport, ReadIndex, Wrap, Full, Sleep, Write, Publish, ReportServerUDP,
         GetReport, EndReport, RingInv, RingTypes
<1>2. CASE Start(a)
  <2>1. a \in run.failed /\ root' = root /\ pc[a] = "start"
    BY <1>2 DEF Start, Leaves, listVars, RingInv, RingTypes
  <2>2. \A k \in Kind : <<k, a>> \notin ToSet(root)
    BY <2>1 DEF Kind, ListInv, Listed, BeforeRing, Transfer
  <2>3. ToSet(root) \subseteq Report
    BY ElementOfSeq DEF ListInv, ListTypes, OnceIn, ToSet
  <2> QED BY <2>1, <2>2, <2>3 DEF Report
<1>3. CASE EndReport(a)
  BY <1>3 DEF EndReport, PendingInv, LeftOpen, Using, AgentOnly, listVars
<1> QED BY <1>1, <1>2, <1>3

LEMMA AgentKeepsPending ==
  ASSUME RingInv, ListInv, PendingInv, ~ended, NEW a \in Agent, AgentStep(a)
  PROVE  PendingInv'
<1>1. run' = run /\ ended' = ended /\ ignored' = ignored /\ reporterindex' = reporterindex
  BY DEF AgentStep, Scheduled, ReportPacket, Start, InitConnection, Barrier, LeaveBarrier,
         ReturnEarly, CountIn,
         CountedIn, InitReport, ReadIndex, Wrap, Full, Sleep, Write, Publish, ReportServerUDP,
         GetReport, EndReport, AgentOnly, Post, ringVars
<1>2. rpc' = rpc \/ SignalReporter
  BY DEF AgentStep, Scheduled, ReportPacket, Start, InitConnection, Barrier, LeaveBarrier,
         ReturnEarly, CountIn,
         CountedIn, InitReport, ReadIndex, Wrap, Full, Sleep, Write, Publish, ReportServerUDP,
         GetReport, EndReport, AgentOnly, Post
<1>3. \A b \in Agent : pc[b] = "gone" => pc'[b] = "gone"
  BY DEF AgentStep, Scheduled, ReportPacket, Start, InitConnection, Barrier, LeaveBarrier,
         ReturnEarly, CountIn,
         CountedIn, InitReport, ReadIndex, Wrap, Full, Sleep, Write, Publish, ReportServerUDP,
         GetReport, EndReport, RingInv, RingTypes
<1>4. \A b \in Agent \ {a} : pc'[b] = pc[b] \/ (pc[b] = "barrier" /\ pc'[b] = "leave")
  BY DEF AgentStep, Scheduled, ReportPacket, Start, InitConnection, Barrier, LeaveBarrier,
         ReturnEarly, CountIn,
         CountedIn, InitReport, ReadIndex, Wrap, Full, Sleep, Write, Publish, ReportServerUDP,
         GetReport, EndReport, RingInv, RingTypes
<1>5. Waiters'
  BY <1>1, <1>2, <1>3 DEF PendingInv, Waiters, SignalReporter
<1>6. NoneOfTheGone'
  <2> SUFFICES ASSUME ignored, run.data, NEW r \in ToSet(root') PROVE pc'[r[2]] # "gone"
    BY <1>1 DEF NoneOfTheGone
  <2>1. r \in ToSet(root) => r[2] \in Agent /\ pc[r[2]] # "gone"
    <3>1. ToSet(root) \subseteq Report
      BY ElementOfSeq DEF ListInv, ListTypes, OnceIn, ToSet
    <3> QED BY <3>1 DEF PendingInv, NoneOfTheGone, Report
  <2>2. CASE Leaves(a)
    BY <1>4, <2>1, <2>2, LeavesNothing
  <2>3. CASE ~Leaves(a)
    <3>1. pc'[a] # "gone"
      BY <2>3 DEF Leaves, AgentStep, Scheduled, ReportPacket, Start, InitConnection, Barrier,
             LeaveBarrier, ReturnEarly,
             CountIn, CountedIn, InitReport, ReadIndex, Wrap, Full, Sleep, Write, Publish,
             ReportServerUDP, GetReport, EndReport
    <3>2. r \in ToSet(root) \/ r[2] = a
      <4>1. root' = root \/ \E k \in Kind : Post(<<k, a>>)
        BY DEF AgentStep, Scheduled, ReportPacket, Start, InitConnection, Barrier,
             LeaveBarrier, ReturnEarly,
             CountIn, CountedIn, InitReport, ReadIndex, Wrap, Full, Sleep, Write, Publish,
             ReportServerUDP, GetReport, EndReport, AgentOnly, listVars, Kind, Transfer
      <4>2. ASSUME NEW k \in Kind, Post(<<k, a>>) PROVE r \in ToSet(root) \/ r = <<k, a>>
        <5>1. <<k, a>> \in Report /\ root' = Cons(<<k, a>>, root) /\ OnceIn(root, Report)
          BY <4>2 DEF Report, Post, ListInv, ListTypes
        <5>2. ToSet(root') \subseteq {<<k, a>>} \cup ToSet(root)
          BY <5>1, InFront
        <5> QED BY <5>2
      <4>3. ASSUME NEW k \in Kind PROVE <<k, a>>[2] = a
        OBVIOUS
      <4> QED BY <4>1, <4>2, <4>3
    <3> QED BY <1>4, <2>1, <3>1, <3>2
  <2> QED BY <2>2, <2>3
<1>7. ASSUME NEW b \in Agent PROVE LeftOpen(b)'
  <2>0. LeftOpen(b)
    BY DEF PendingInv
  <2>1. ignored /\ Using(b)' => reporterindex[b] # -1
    <3>1. CASE Using(b)
      BY <2>0, <3>1 DEF LeftOpen
    <3>2. CASE Using(b)' /\ ~Using(b)
      <4>1. pc[b] \in BeforeRing
        BY <1>3, <3>2 DEF Using, RingInv, RingTypes, BeforeRing, InRing, AfterRing
      <4> QED BY <4>1, SomePackets DEF RingInv, AgentInv, Progress
    <3> QED BY <3>1, <3>2
  <2>2. run.data /\ b \in run.agents \ run.failed /\ pc'[b] = "gone" => reporterindex[b] = -1
    <3>1. CASE b = a
      BY <2>0, <3>1, LeavesNothing DEF LeftOpen, Leaves
    <3>2. CASE b # a
      BY <1>4, <2>0, <3>2 DEF LeftOpen
    <3> QED BY <3>1, <3>2
  <2>3. UDPServer /\ pc'[b] = "end" => reporterindex[b] = -1
    <3>1. pc[b] = "end" \/ ~(UDPServer /\ pc'[b] = "end") \/ (b = a /\ GetReport(a))
      BY <1>4 DEF AgentStep, Scheduled, ReportPacket, Start, InitConnection, Barrier,
             LeaveBarrier, ReturnEarly,
             CountIn, CountedIn, InitReport, ReadIndex, Wrap, Full, Sleep, Write, Publish,
             ReportServerUDP, EndReport, RingInv, RingTypes
    <3> QED BY <2>0, <3>1 DEF LeftOpen, GetReport, TotalsReady
  <2> QED BY <1>1, <2>1, <2>2, <2>3 DEF LeftOpen, UDPServer
<1> QED BY <1>5, <1>6, <1>7 DEF PendingInv

(* When main is let go, no thread has a report that the reporter is through with *)
(* and it does not know: each is either closed, or its thread still counts.      *)
THEOREM PendingIsKnown == Spec => []PendingInv
<1>1. RingInv /\ ListInv /\ PendingInv /\ [Next]_vars => PendingInv'
  <2> SUFFICES ASSUME RingInv, ListInv, PendingInv, [Next]_vars PROVE PendingInv'
    OBVIOUS
  <2>1. ASSUME ~ended, NEW a \in Agent, AgentStep(a) PROVE PendingInv'
    BY <2>1, AgentKeepsPending
  <2>2. CASE ~ended /\ ReporterStep
    BY <2>2, ReporterKeepsPending
  <2>3. CASE JoinAll \/ UNCHANGED vars
    <3>1. UNCHANGED <<run, pc, reporterindex, root, rpc, ignored>>
      BY <2>3 DEF JoinAll, vars, ringVars, listVars
    <3>2. ended' = ended \/ (ended' = TRUE /\ ignored /\ \A a \in Agent : pc[a] = "gone")
      BY <2>3 DEF JoinAll, vars
    <3>3. Waiters'
      <4>1. ended' \in BOOLEAN /\ ignored' \in BOOLEAN
        BY <3>1, <3>2, Zenon DEF PendingInv, Waiters
      <4>2. ended' => ignored /\ \A a \in Agent : pc[a] = "gone"
        BY <3>1, <3>2, Zenon DEF PendingInv, Waiters
      <4> QED BY <3>1, <4>1, <4>2, Zenon DEF PendingInv, Waiters
    <3> QED BY <3>1, <3>3 DEF PendingInv, NoneOfTheGone, LeftOpen, Using, UDPServer
  <2> QED BY <2>1, <2>2, <2>3 DEF Next
<1> QED BY <1>1, InitPending, RingIsSafe, ListIsSafe, PTL DEF Spec

--------------------------------------------------------------------------------
(* What is known of the packets of an agent.                                     *)
Stream(ps) ==
    /\ ps \in Seq(Packet) /\ Len(ps) \in Nat /\ Len(ps) > 0
    /\ \A i \in 1 .. Len(ps) :
        /\ ps[i].id \in Int /\ ps[i].time \in Nat /\ ps[i].len \in Nat /\ ps[i].empty \in BOOLEAN
        /\ ps[i].id < 0 <=> i = Len(ps)
    /\ ps[Len(ps)].len = 0

LEMMA Streams ==
  ASSUME RingTypes, NEW a \in Agent
  PROVE  Stream(run.packets[a]) /\ NumPackets(a) = Len(run.packets[a]) /\ run.interval \in Nat
<1>1. run \in Scenario
  BY DEF RingTypes
<1>2. /\ run.packets[a] \in Seq(Packet) /\ run.packets[a] # <<>> /\ run.interval \in Nat
      /\ \A i \in DOMAIN run.packets[a] : run.packets[a][i].id < 0 <=> i = Len(run.packets[a])
      /\ run.packets[a][Len(run.packets[a])].len = 0
  BY <1>1, ScenarioAssumption
<1> DEFINE ps == run.packets[a]
<1> HIDE DEF ps
<1>3. ps \in Seq(Packet) /\ ps # <<>>
  BY <1>2 DEF ps
<1>4. Len(ps) \in Nat /\ Len(ps) > 0 /\ DOMAIN ps = 1 .. Len(ps)
  BY <1>3, LenProperties, EmptySeq
<1>5. ASSUME NEW i \in 1 .. Len(ps)
      PROVE  ps[i].id \in Int /\ ps[i].time \in Nat /\ ps[i].len \in Nat /\ ps[i].empty \in BOOLEAN
  <2>1. ps[i] \in Packet
    BY <1>3, ElementOfSeq
  <2> QED BY <2>1 DEF Packet
<1> QED BY <1>2, <1>3, <1>4, <1>5 DEF Stream, ps, NumPackets

(* What the first n packets of a stream carry, and which of them arrived.        *)
Load(p) == IF p.empty THEN 0 ELSE p.len
Loads(ps) == [i \in 1 .. Len(ps) |-> Load(ps[i])]
Carried(ps, n) == SumFunctionOnSet(Loads(ps), 1 .. n)
ArrivalsIn(ps, n) == {i \in 1 .. n : ps[i].id >= 0 /\ ~ps[i].empty}
NumbersIn(ps, n) == {0} \cup {ps[i].id : i \in ArrivalsIn(ps, n)}

LEMMA CarriedNext ==
  ASSUME NEW ps, Stream(ps), NEW n \in Nat, n < Len(ps)
  PROVE  /\ Carried(ps, n + 1) = Carried(ps, n) + Load(ps[n + 1])
         /\ Carried(ps, n) \in Int /\ Load(ps[n + 1]) \in Nat
<1>1. \A i \in 1 .. Len(ps) : Loads(ps)[i] = Load(ps[i]) /\ Load(ps[i]) \in Nat
  BY DEF Stream, Loads, Load
<1>2. \A x \in 1 .. n : Loads(ps)[x] \in Int
  BY <1>1 DEF Stream
<1>3. IsFiniteSet(1 .. n) /\ n + 1 \notin 1 .. n /\ (1 .. n) \cup {n + 1} = 1 .. n + 1
  <2>1. IsFiniteSet(1 .. n)
    BY FS_Interval
  <2> QED BY <2>1
<1>4. Loads(ps)[n + 1] \in Int /\ Loads(ps)[n + 1] = Load(ps[n + 1]) /\ Load(ps[n + 1]) \in Nat
  BY <1>1 DEF Stream
<1> DEFINE f == Loads(ps)
           S == 1 .. n
           y == n + 1
<1>5. IsFiniteSet(S) /\ y \notin S /\ f[y] \in Int
  BY <1>2, <1>3, <1>4
<1>6. \A x \in S : f[x] \in Int
  BY <1>2
<1> HIDE DEF f, S, y
<1>7. SumFunctionOnSet(f, S \cup {y}) = f[y] + SumFunctionOnSet(f, S)
  BY <1>5, <1>6, SumWith
<1>8. SumFunctionOnSet(f, S) \in Int
  BY <1>5, <1>6, SumIsInt
<1>9. Carried(ps, n) = SumFunctionOnSet(f, S) /\ S \cup {y} = 1 .. n + 1
  BY <1>3 DEF Carried, f, S, y
<1>10. Carried(ps, n + 1) = SumFunctionOnSet(f, S \cup {y})
  BY <1>9 DEF Carried, f
<1>11. f[y] = Load(ps[n + 1])
  BY <1>4 DEF f, y
<1> QED BY <1>4, <1>7, <1>8, <1>9, <1>10, <1>11

LEMMA ArrivalsNext ==
  ASSUME NEW ps, Stream(ps), NEW n \in Nat, n < Len(ps), NEW p, p = ps[n + 1]
  PROVE  /\ IsFiniteSet(ArrivalsIn(ps, n)) /\ Cardinality(ArrivalsIn(ps, n)) \in Nat
         /\ p.id >= 0 /\ ~p.empty =>
              /\ Cardinality(ArrivalsIn(ps, n + 1)) = Cardinality(ArrivalsIn(ps, n)) + 1
              /\ NumbersIn(ps, n + 1) = NumbersIn(ps, n) \cup {p.id}
         /\ ~(p.id >= 0 /\ ~p.empty) =>
              /\ ArrivalsIn(ps, n + 1) = ArrivalsIn(ps, n)
              /\ NumbersIn(ps, n + 1) = NumbersIn(ps, n)
<1> DEFINE A == ArrivalsIn(ps, n)
           B == ArrivalsIn(ps, n + 1)
<1>1. A \subseteq 1 .. n /\ IsFiniteSet(1 .. n) /\ n + 1 \notin 1 .. n
  BY FS_Interval DEF ArrivalsIn
<1>2. IsFiniteSet(A) /\ Cardinality(A) \in Nat /\ n + 1 \notin A
  BY <1>1, FS_Subset, FS_CardinalityType
<1>3. p.id >= 0 /\ ~p.empty => B = A \cup {n + 1}
  BY DEF ArrivalsIn
<1>4. ~(p.id >= 0 /\ ~p.empty) => B = A
  BY DEF ArrivalsIn
<1>5. p.id >= 0 /\ ~p.empty => NumbersIn(ps, n + 1) = NumbersIn(ps, n) \cup {p.id}
  BY <1>3 DEF NumbersIn
<1> HIDE DEF A, B
<1>6. Cardinality(A \cup {n + 1}) = Cardinality(A) + 1
  BY <1>2, FS_AddElement
<1> QED BY <1>2, <1>3, <1>4, <1>5, <1>6 DEF A, B, NumbersIn

--------------------------------------------------------------------------------
(* What reporter_handle_packet counts.                                           *)
Counts == [total : Nat, cnt : Nat, err : Nat, ooo : Nat]
Stats == [total : Nat, cnt : Nat, err : Nat, ooo : Nat, id : Nat, time : Nat, end : Nat,
          next : Nat, last : Counts]

(* The fields of a record that is no other than s but for what was counted.      *)
OnlyCounts(s, t) == t.end = s.end /\ t.next = s.next /\ t.last = s.last

LEMMA NumberedCounts ==
  ASSUME NEW s \in Stats, NEW p \in Packet, p.id >= 0
  PROVE  LET t == Numbered(s, p) IN
         /\ t \in Stats /\ OnlyCounts(s, t) /\ t.ooo >= s.ooo
         /\ t.total = s.total /\ t.time = s.time /\ t.cnt = s.cnt
         /\ t.id = Largest(p.id, s.id)
         /\ t.err - t.ooo = s.err - s.ooo + (t.id - s.id) - 1
<1> DEFINE o == IF p.id < s.id + 1 THEN s.ooo + 1 ELSE s.ooo
           e == IF p.id > s.id + 1 THEN s.err + p.id - s.id - 1 ELSE s.err
           d == Largest(p.id, s.id)
           t == [s EXCEPT !.ooo = o, !.err = e, !.id = d]
<1>1. s.id \in Nat /\ s.ooo \in Nat /\ s.err \in Nat /\ p.id \in Nat
  BY DEF Stats, Packet
<1>2. /\ o \in Nat /\ e \in Nat /\ d \in Nat /\ o >= s.ooo
      /\ e - o = s.err - s.ooo + (d - s.id) - 1
  BY <1>1 DEF Largest
<1>3. Numbered(s, p) = t
  BY DEF Numbered
<1> HIDE DEF o, e, d
<1>4. /\ t \in Stats /\ OnlyCounts(s, t) /\ t.ooo = o /\ t.err = e /\ t.id = d
      /\ t.total = s.total /\ t.time = s.time /\ t.cnt = s.cnt
  BY <1>2 DEF Stats, OnlyCounts
<1> HIDE DEF t
<1> QED BY <1>2, <1>3, <1>4 DEF d

LEMMA AccountCounts ==
  ASSUME NEW s \in Stats, NEW p \in Packet, p.id < 0 => p.len = 0
  PROVE  LET t == Account(s, p) IN
         /\ t \in Stats /\ OnlyCounts(s, t) /\ t.ooo >= s.ooo
         /\ t.total = s.total + Load(p) /\ t.time = p.time
         /\ UDPServer /\ p.id >= 0 /\ ~p.empty =>
              /\ t.id = Largest(p.id, s.id)
              /\ t.err - t.ooo = s.err - s.ooo + (t.id - s.id) - 1
         /\ ~(p.id >= 0 /\ ~p.empty) =>
              t.id = s.id /\ t.err = s.err /\ t.ooo = s.ooo
<1> DEFINE u == [s EXCEPT !.time = p.time]
           v == [u EXCEPT !.total = s.total + p.len]
           w == [u EXCEPT !.total = s.total + p.len, !.cnt = s.cnt + 1]
<1>1. p.time \in Nat /\ p.len \in Nat /\ p.id \in Int /\ p.empty \in BOOLEAN /\ s.total \in Nat /\ s.cnt \in Nat /\ s.ooo \in Nat
  BY DEF Packet, Stats
<1>2. /\ u \in Stats /\ OnlyCounts(s, u) /\ u.total = s.total /\ u.time = p.time
      /\ u.id = s.id /\ u.err = s.err /\ u.ooo = s.ooo /\ u.cnt = s.cnt
  BY <1>1 DEF Stats, OnlyCounts
<1>3. /\ v \in Stats /\ OnlyCounts(s, v) /\ v.total = s.total + p.len /\ v.time = p.time
      /\ v.id = s.id /\ v.err = s.err /\ v.ooo = s.ooo
  <2> HIDE DEF u
  <2> QED BY <1>1, <1>2 DEF Stats, OnlyCounts
<1>4. /\ w \in Stats /\ OnlyCounts(s, w) /\ w.total = s.total + p.len /\ w.time = p.time
      /\ w.id = s.id /\ w.err = s.err /\ w.ooo = s.ooo
  <2>1. w = [v EXCEPT !.cnt = s.cnt + 1]
    BY <1>2 DEF Stats
  <2> HIDE DEF u, v, w
  <2> QED BY <1>1, <1>3, <2>1 DEF Stats, OnlyCounts
<1>5. CASE p.id < 0
  <2>1. Account(s, p) = [u EXCEPT !.total = IF run.server THEN u.total + p.len ELSE u.total]
    BY <1>5 DEF Account
  <2>2. Account(s, p) = u
    <3>1. (IF run.server THEN u.total + p.len ELSE u.total) = u.total
      BY <1>1, <1>2, <1>5
    <3>2. [u EXCEPT !.total = u.total] = u
      BY <1>2 DEF Stats
    <3> QED BY <2>1, <3>1, <3>2
  <2>3. s.total + Load(p) = s.total
    BY <1>1, <1>5 DEF Load
  <2> HIDE DEF u
  <2> QED BY <1>1, <1>2, <1>5, <2>2, <2>3
<1>6. CASE p.id >= 0 /\ p.empty
  <2>1. Account(s, p) = u
    BY <1>1, <1>6 DEF Account
  <2>2. s.total + Load(p) = s.total
    BY <1>1, <1>6 DEF Load
  <2> HIDE DEF u
  <2> QED BY <1>1, <1>2, <1>6, <2>1, <2>2
<1>7. CASE p.id >= 0 /\ ~p.empty
  <2>1. PICK x \in {v, w} : Account(s, p) = IF UDPServer THEN Numbered(x, p) ELSE x
    <3>1. CASE run.udp
      <4>1. w = [u EXCEPT !.total = u.total + p.len, !.cnt = u.cnt + 1]
        BY <1>2
      <4>2. Account(s, p) = IF UDPServer THEN Numbered(w, p) ELSE w
        BY <1>1, <1>7, <3>1, <4>1 DEF Account
      <4> QED BY <4>2
    <3>2. CASE ~run.udp
      <4>1. v = [u EXCEPT !.total = u.total + p.len, !.cnt = u.cnt]
        BY <1>2, <1>3 DEF Stats
      <4>2. Account(s, p) = IF UDPServer THEN Numbered(v, p) ELSE v
        BY <1>1, <1>7, <3>2, <4>1 DEF Account
      <4> QED BY <4>2
    <3> QED BY <3>1, <3>2
  <2>2. /\ x \in Stats /\ OnlyCounts(s, x) /\ x.total = s.total + p.len /\ x.time = p.time
        /\ x.id = s.id /\ x.err = s.err /\ x.ooo = s.ooo
    BY <1>3, <1>4
  <2>3. Load(p) = p.len
    BY <1>7 DEF Load
  <2> HIDE DEF u, v, w
  <2>4. CASE UDPServer
    <3>1. Account(s, p) = Numbered(x, p)
      BY <2>1, <2>4
    <3> DEFINE t == Numbered(x, p)
    <3>2. /\ t \in Stats /\ OnlyCounts(x, t) /\ t.ooo >= x.ooo
          /\ t.total = x.total /\ t.time = x.time
          /\ t.id = Largest(p.id, x.id)
          /\ t.err - t.ooo = x.err - x.ooo + (t.id - x.id) - 1
      BY <1>7, <2>2, NumberedCounts
    <3> HIDE DEF t
    <3> QED BY <1>7, <2>2, <2>3, <3>1, <3>2 DEF OnlyCounts, t
  <2>5. CASE ~UDPServer
    BY <1>1, <1>7, <2>1, <2>2, <2>3, <2>5
  <2> QED BY <2>4, <2>5
<1> QED BY <1>1, <1>5, <1>6, <1>7

(* s accounts for the first g packets; a UDP server's err also counts, less ooo, *)
(* the numbers up to the largest one, less the datagrams that arrived.           *)
Counted(ps, g, s) ==
    /\ g \in 0 .. Len(ps) /\ s \in Stats
    /\ s.total = Carried(ps, g)
    /\ g > 0 => s.time = ps[g].time
Told(ps, g, s) ==
    /\ s.id \in NumbersIn(ps, g)
    /\ \A x \in NumbersIn(ps, g) : x <= s.id
    /\ s.err - s.ooo = s.id - Cardinality(ArrivalsIn(ps, g))

LEMMA FirstCount ==
  ASSUME NEW ps, Stream(ps), run.interval \in Nat
  PROVE  Counted(ps, 0, NewStats(run)) /\ Told(ps, 0, NewStats(run))
<1>1. 1 .. 0 = {}
  OBVIOUS
<1>2. Carried(ps, 0) = 0
  BY <1>1, SumOfNone DEF Carried
<1>3. ArrivalsIn(ps, 0) = {} /\ Cardinality({}) = 0
  BY <1>1, FS_EmptySet DEF ArrivalsIn
<1>4. NewStats(run) \in Stats
  BY DEF NewStats, Stats, NoCounts, Counts
<1>5. NewStats(run).total = 0 /\ NewStats(run).id = 0 /\ NewStats(run).err = 0 /\ NewStats(run).ooo = 0
  BY DEF NewStats
<1>6. NumbersIn(ps, 0) = {0}
  BY <1>3 DEF NumbersIn
<1>7. Counted(ps, 0, NewStats(run))
  BY <1>2, <1>4, <1>5 DEF Counted, Stream
<1>8. Told(ps, 0, NewStats(run))
  BY <1>3, <1>5, <1>6 DEF Told
<1> QED BY <1>7, <1>8

LEMMA CountNext ==
  ASSUME NEW ps, Stream(ps), NEW g \in Nat, g < Len(ps), NEW s, Counted(ps, g, s)
  PROVE  LET t == Account(s, ps[g + 1]) IN
         /\ Counted(ps, g + 1, t) /\ OnlyCounts(s, t)
         /\ t.ooo >= s.ooo /\ t.total >= s.total
         /\ UDPServer /\ Told(ps, g, s) => Told(ps, g + 1, t)
<1> DEFINE p == ps[g + 1]
           t == Account(s, p)
<1>1. p \in Packet /\ (p.id < 0 => p.len = 0) /\ s \in Stats
  <2>1. g + 1 \in 1 .. Len(ps)
    BY DEF Stream
  <2>2. p \in Packet
    BY <2>1, ElementOfSeq DEF Stream
  <2> QED BY <2>1, <2>2 DEF Stream, Counted
<1>2. /\ t \in Stats /\ OnlyCounts(s, t) /\ t.ooo >= s.ooo
      /\ t.total = s.total + Load(p) /\ t.time = p.time
      /\ UDPServer /\ p.id >= 0 /\ ~p.empty =>
           /\ t.id = Largest(p.id, s.id)
           /\ t.err - t.ooo = s.err - s.ooo + (t.id - s.id) - 1
      /\ ~(p.id >= 0 /\ ~p.empty) =>
           t.id = s.id /\ t.err = s.err /\ t.ooo = s.ooo
  BY <1>1, AccountCounts
<1>3. /\ Carried(ps, g + 1) = Carried(ps, g) + Load(p)
      /\ Carried(ps, g) \in Int /\ Load(p) \in Nat
  BY CarriedNext
<1> DEFINE A == ArrivalsIn(ps, g)
           B == ArrivalsIn(ps, g + 1)
<1>4. /\ IsFiniteSet(A) /\ Cardinality(A) \in Nat
      /\ p.id >= 0 /\ ~p.empty =>
           /\ Cardinality(B) = Cardinality(A) + 1
           /\ NumbersIn(ps, g + 1) = NumbersIn(ps, g) \cup {p.id}
      /\ ~(p.id >= 0 /\ ~p.empty) =>
           B = A /\ NumbersIn(ps, g + 1) = NumbersIn(ps, g)
  BY ArrivalsNext
<1>5. p.id \in Int /\ s.id \in Nat /\ s.err \in Nat /\ s.ooo \in Nat /\ t.id \in Nat /\ t.err \in Nat /\ t.ooo \in Nat
  BY <1>1, <1>2 DEF Packet, Stats
<1> HIDE DEF t, A, B
<1>6. Counted(ps, g + 1, t) /\ t.total >= s.total
  <2>1. g + 1 \in 0 .. Len(ps) /\ g + 1 > 0
    BY DEF Stream
  <2>2. s.total = Carried(ps, g)
    BY DEF Counted
  <2> HIDE DEF p
  <2>3. t.total = Carried(ps, g + 1) /\ t.total >= s.total
    BY <1>2, <1>3, <2>2
  <2> QED BY <1>2, <2>1, <2>3 DEF Counted, p
<1>7. ASSUME UDPServer, Told(ps, g, s) PROVE Told(ps, g + 1, t)
  <2>1. /\ s.id \in NumbersIn(ps, g) /\ \A x \in NumbersIn(ps, g) : x <= s.id
        /\ s.err - s.ooo = s.id - Cardinality(A)
    BY <1>7 DEF Told, A
  <2>2. \A x \in NumbersIn(ps, g) : x \in Int
    BY DEF NumbersIn, ArrivalsIn, Stream
  <2> HIDE DEF p
  <2>3. CASE p.id >= 0 /\ ~p.empty
    <3>1. /\ t.id \in NumbersIn(ps, g) \cup {p.id}
          /\ \A x \in NumbersIn(ps, g) \cup {p.id} : x <= t.id
      BY <1>2, <1>5, <1>7, <2>1, <2>2, <2>3 DEF Largest
    <3>2. t.err - t.ooo = t.id - Cardinality(B)
      <4>1. t.err - t.ooo = s.err - s.ooo + (t.id - s.id) - 1
        BY <1>2, <1>7, <2>3
      <4>2. Cardinality(B) = Cardinality(A) + 1 /\ Cardinality(A) \in Nat
        BY <1>4, <2>3
      <4>3. s.err - s.ooo = s.id - Cardinality(A)
        BY <2>1
      <4>4. t.err - t.ooo = (s.id - Cardinality(A)) + (t.id - s.id) - 1
        BY <4>1, <4>3
      <4>5. (s.id - Cardinality(A)) + (t.id - s.id) - 1 = t.id - (Cardinality(A) + 1)
        <5>1. \A u, v, c \in Nat : (u - c) + (v - u) - 1 = v - (c + 1)
          OBVIOUS
        <5>2. s.id \in Nat /\ t.id \in Nat
          BY <1>5
        <5>3. Cardinality(A) \in Nat
          BY <4>2
        <5> DEFINE c == Cardinality(A)
        <5> HIDE DEF c
        <5>4. (s.id - c) + (t.id - s.id) - 1 = t.id - (c + 1)
          BY <5>1, <5>2, <5>3 DEF c
        <5> QED BY <5>4 DEF c
      <4> QED BY <4>2, <4>4, <4>5
    <3> QED BY <1>4, <2>3, <3>1, <3>2 DEF Told, B
  <2>4. CASE ~(p.id >= 0 /\ ~p.empty)
    BY <1>2, <1>4, <2>1, <2>4 DEF Told, B
  <2> QED BY <2>3, <2>4
<1> QED BY <1>2, <1>6, <1>7 DEF t, p

--------------------------------------------------------------------------------
(* The reports printed.                                                          *)
Line == [final : BOOLEAN, start : Nat, end : Nat, len : Nat, cnt : Int, ooo : Nat, err : Nat]
FinalsIn(rs) == {i \in DOMAIN rs : rs[i].final}
Widths(rs) == [i \in DOMAIN rs |-> rs[i].len]
PrintedIn(rs, n) == SumFunctionOnSet(Widths(rs), 1 .. n)
FirstIn(ps, t) == Min({i \in 1 .. Len(ps) : ps[i].time > t})

(* The first k reports of rs are for the intervals of width w, up to s.end.      *)
Tiles(ps, rs, s, k, w) ==
    /\ k \in 0 .. Len(rs)
    /\ s.end = k * w /\ s.next = s.end + w
    /\ s.last.total = PrintedIn(rs, k)
    /\ s.last.total <= s.total /\ s.last.ooo <= s.ooo
    /\ \A i \in 1 .. k :
        /\ rs[i].start = (i - 1) * w
        /\ rs[i].end = i * w
        /\ PrintedIn(rs, i) = Carried(ps, FirstIn(ps, rs[i].end))
NotOver(ps, g, t) == \A i \in 1 .. g : i < Len(ps) => ps[i].time <= t

(* qs is rs with one line more.                                                  *)
Extends(qs, rs, x) ==
    /\ qs \in Seq(Line) /\ Len(rs) \in Nat /\ Len(qs) = Len(rs) + 1
    /\ qs[Len(rs) + 1] = x /\ Last(qs) = x
    /\ \A i \in 1 .. Len(rs) : qs[i] = rs[i]
    /\ FinalsIn(qs) = FinalsIn(rs) \cup {i \in {Len(rs) + 1} : x.final}
    /\ \A n \in 0 .. Len(rs) : PrintedIn(qs, n) = PrintedIn(rs, n)
    /\ PrintedIn(qs, Len(rs) + 1) = PrintedIn(rs, Len(rs)) + x.len
    /\ PrintedIn(rs, Len(rs)) \in Int

LEMMA OneMoreLine ==
  ASSUME NEW rs, rs \in Seq(Line), NEW x, x \in Line, NEW qs, qs = Append(rs, x)
  PROVE  Extends(qs, rs, x)
<1>1. /\ qs \in Seq(Line) /\ Len(rs) \in Nat /\ Len(qs) = Len(rs) + 1
      /\ qs[Len(rs) + 1] = x
      /\ \A i \in 1 .. Len(rs) : qs[i] = rs[i]
  BY AppendProperties, LenProperties
<1>2. DOMAIN rs = 1 .. Len(rs) /\ DOMAIN qs = 1 .. Len(rs) + 1
  BY <1>1, LenProperties
<1>3. FinalsIn(qs) = FinalsIn(rs) \cup {i \in {Len(rs) + 1} : x.final}
  BY <1>1, <1>2 DEF FinalsIn
<1> DEFINE L == Len(rs)
           f == Widths(rs)
           h == Widths(qs)
<1>4. x.len \in Nat /\ \A i \in 1 .. L : rs[i].len \in Nat
  <2>1. \A i \in 1 .. L : rs[i] \in Line
    BY ElementOfSeq
  <2> QED BY <2>1 DEF Line
<1>5. /\ \A i \in 1 .. L : f[i] = rs[i].len /\ h[i] = rs[i].len
      /\ h[L + 1] = x.len
  BY <1>1, <1>2 DEF Widths
<1>6. ASSUME NEW n \in 0 .. L
      PROVE  SumFunctionOnSet(h, 1 .. n) = SumFunctionOnSet(f, 1 .. n)
  <2>1. IsFiniteSet(1 .. n)
    BY <1>1, FS_Interval
  <2>2. \A i \in 1 .. n : h[i] = f[i]
    BY <1>1, <1>5
  <2> HIDE DEF f, h
  <2> QED BY <2>1, <2>2, SumOfSame
<1>7. /\ SumFunctionOnSet(h, 1 .. L + 1) = h[L + 1] + SumFunctionOnSet(h, 1 .. L)
      /\ SumFunctionOnSet(h, 1 .. L) \in Int
  <2> DEFINE S == 1 .. L
             y == L + 1
  <2>1. IsFiniteSet(S)
    BY <1>1, FS_Interval
  <2>2. y \notin S /\ S \cup {y} = 1 .. L + 1
    BY <1>1
  <2>3. (\A i \in S : h[i] \in Int) /\ h[y] \in Int
    BY <1>4, <1>5
  <2> HIDE DEF S, y, h, f, L
  <2>4. SumFunctionOnSet(h, S \cup {y}) = h[y] + SumFunctionOnSet(h, S)
    BY <2>1, <2>2, <2>3, SumWith
  <2>5. SumFunctionOnSet(h, S) \in Int
    BY <2>1, <2>3, SumIsInt
  <2> QED BY <2>2, <2>4, <2>5 DEF S, y
<1>8. Last(qs) = x
  BY <1>1 DEF Last
<1>9. L \in 0 .. L
  BY <1>1
<1> HIDE DEF f, h
<1>10. /\ \A n \in 0 .. L : PrintedIn(qs, n) = PrintedIn(rs, n)
       /\ PrintedIn(qs, L + 1) = PrintedIn(rs, L) + x.len
       /\ PrintedIn(rs, L) \in Int
  <2>1. SumFunctionOnSet(h, 1 .. L) = SumFunctionOnSet(f, 1 .. L)
    BY <1>6, <1>9
  <2>2. SumFunctionOnSet(h, 1 .. L + 1) = SumFunctionOnSet(f, 1 .. L) + x.len
    BY <1>4, <1>5, <1>7, <2>1
  <2> QED BY <1>6, <1>7, <2>1, <2>2 DEF PrintedIn, f, h
<1> QED BY <1>1, <1>3, <1>8, <1>10 DEF Extends

LEMMA StatFields ==
  ASSUME NEW s \in Stats
  PROVE  /\ s.total \in Nat /\ s.cnt \in Nat /\ s.err \in Nat /\ s.ooo \in Nat /\ s.id \in Nat
         /\ s.time \in Nat /\ s.end \in Nat /\ s.next \in Nat /\ s.last \in Counts
         /\ s.last.total \in Nat /\ s.last.cnt \in Nat /\ s.last.err \in Nat /\ s.last.ooo \in Nat
BY DEF Stats, Counts

LEMMA FinalLine ==
  ASSUME NEW s \in Stats
  PROVE  LET x == FinalReport(s) IN
         /\ x \in Line /\ x.final /\ x.len = s.total /\ x.err = Largest(0, s.err - s.ooo)
<1>1. Datagrams(s) \in Int /\ Largest(0, s.err - s.ooo) \in Nat
  BY StatFields DEF Datagrams, Largest
<1> QED BY <1>1, StatFields DEF FinalReport, Line

LEMMA IntervalLine ==
  ASSUME NEW s \in Stats, s.last.total <= s.total, s.last.ooo <= s.ooo
  PROVE  LET x == IntervalReport(s) IN
         /\ x \in Line /\ ~x.final
         /\ x.len = s.total - s.last.total /\ x.start = s.end /\ x.end = s.next
<1> DEFINE e == Largest(0, (s.err - s.last.err) - (s.ooo - s.last.ooo))
           c == Datagrams(s) - s.last.cnt
<1>1. e \in Nat /\ c \in Int
  BY StatFields DEF Datagrams, Largest
<1>2. s.total - s.last.total \in Nat /\ s.ooo - s.last.ooo \in Nat
  BY StatFields
<1>3. IntervalReport(s) = [final |-> FALSE, start |-> s.end, end |-> s.next,
        len |-> s.total - s.last.total, cnt |-> c, ooo |-> s.ooo - s.last.ooo, err |-> e]
  BY DEF IntervalReport
<1> HIDE DEF e, c
<1> QED BY <1>1, <1>2, <1>3, StatFields DEF Line

LEMMA NextFields ==
  ASSUME NEW s \in Stats, run.interval \in Nat
  PROVE  LET t == NextInterval(s) IN
         /\ t \in Stats /\ t.total = s.total /\ t.time = s.time /\ t.id = s.id
         /\ t.err = s.err /\ t.ooo = s.ooo
         /\ t.end = s.next /\ t.next = s.next + run.interval
         /\ t.last.total = s.total /\ t.last.ooo = s.ooo
<1> DEFINE c == [total |-> s.total, cnt |-> Datagrams(s), err |-> s.err, ooo |-> s.ooo]
           n == s.next + run.interval
           t == [s EXCEPT !.last = c, !.end = s.next, !.next = n]
<1>1. NextInterval(s) = t
  BY DEF NextInterval
<1>2. c \in Counts /\ c.total = s.total /\ c.ooo = s.ooo /\ n \in Nat
  BY StatFields DEF Counts, Datagrams
<1> HIDE DEF c, n
<1>3. /\ t \in Stats /\ t.total = s.total /\ t.time = s.time /\ t.id = s.id
      /\ t.err = s.err /\ t.ooo = s.ooo /\ t.end = s.next /\ t.next = n /\ t.last = c
  BY <1>2, StatFields DEF Stats
<1> HIDE DEF t
<1> QED BY <1>1, <1>2, <1>3 DEF n

(* The first packet after t is packet g.                                         *)
LEMMA FirstPacket ==
  ASSUME NEW ps, Stream(ps), NEW g \in 1 .. Len(ps) - 1, NEW t \in Nat,
         NotOver(ps, g - 1, t), ps[g].time > t
  PROVE  FirstIn(ps, t) = g
<1> DEFINE I == {i \in 1 .. Len(ps) : ps[i].time > t}
<1>1. g \in I /\ \A i \in I : g <= i
  <2> SUFFICES ASSUME NEW i \in I PROVE g <= i
    BY DEF Stream
  <2>1. i \in 1 .. g - 1 => i < Len(ps) /\ ps[i].time <= t
    BY DEF NotOver, Stream
  <2>2. i \in 1 .. Len(ps) /\ ps[i].time > t /\ ps[i].time \in Nat
    BY DEF Stream
  <2> QED BY <2>1, <2>2 DEF Stream
<1>2. \A i \in I : i \in Int
  BY DEF Stream
<1> HIDE DEF I
<1>3. Min(I) = g
  BY <1>1, <1>2 DEF Min
<1> QED BY <1>3 DEF FirstIn, I

(* What holds of the agent's reports after an interval report ...                *)
LEMMA TilesNext ==
  ASSUME NEW ps, Stream(ps), run.interval \in Nat,
         NEW rs, rs \in Seq(Line), FinalsIn(rs) = {},
         NEW g \in 1 .. Len(ps) - 1, NEW s, Counted(ps, g, s),
         Tiles(ps, rs, s, Len(rs), run.interval), NotOver(ps, g - 1, s.next), IntervalOver(s)
  PROVE  LET qs == Append(rs, IntervalReport(s))
             t == NextInterval(s)
         IN  /\ qs \in Seq(Line) /\ FinalsIn(qs) = {}
             /\ Counted(ps, g, t) /\ (Told(ps, g, s) => Told(ps, g, t))
             /\ Tiles(ps, qs, t, Len(qs), run.interval)
             /\ NotOver(ps, g - 1, t.next)
<1> DEFINE w == run.interval
           x == IntervalReport(s)
           t == NextInterval(s)
           qs == Append(rs, x)
           L == Len(rs)
<1>1. /\ s \in Stats /\ s.total = Carried(ps, g) /\ s.time = ps[g].time
      /\ s.end = L * w /\ s.next = s.end + w /\ L \in Nat
      /\ s.last.total = PrintedIn(rs, L)
      /\ s.last.total <= s.total /\ s.last.ooo <= s.ooo
      /\ s.next < s.time
  <2>1. L \in Nat
    BY LenProperties
  <2> QED BY <2>1 DEF Counted, Tiles, IntervalOver
<1>2. /\ x \in Line /\ ~x.final
      /\ x.len = s.total - s.last.total /\ x.start = s.end /\ x.end = s.next
  BY <1>1, IntervalLine
<1>3. /\ t \in Stats /\ t.total = s.total /\ t.time = s.time /\ t.id = s.id
      /\ t.err = s.err /\ t.ooo = s.ooo
      /\ t.end = s.next /\ t.next = s.next + w
      /\ t.last.total = s.total /\ t.last.ooo = s.ooo
  BY <1>1, NextFields
<1> HIDE DEF x, t
<1>4. /\ qs \in Seq(Line) /\ Len(qs) = L + 1
      /\ qs[L + 1] = x
      /\ \A i \in 1 .. L : qs[i] = rs[i]
      /\ FinalsIn(qs) = FinalsIn(rs) \cup {i \in {L + 1} : x.final}
      /\ \A n \in 0 .. L : PrintedIn(qs, n) = PrintedIn(rs, n)
      /\ PrintedIn(qs, L + 1) = PrintedIn(rs, L) + x.len
      /\ PrintedIn(rs, L) \in Int
  <2>1. Extends(qs, rs, x)
    BY <1>2, OneMoreLine
  <2> HIDE DEF qs
  <2> QED BY <2>1 DEF Extends
<1> HIDE DEF qs
<1>5. FinalsIn(qs) = {}
  BY <1>2, <1>4
<1>6. Counted(ps, g, t) /\ (Told(ps, g, s) => Told(ps, g, t))
  BY <1>3 DEF Counted, Told
<1>7. PrintedIn(qs, L + 1) = s.total
  <2>1. PrintedIn(qs, L + 1) = s.last.total + (s.total - s.last.total)
    BY <1>1, <1>2, <1>4
  <2> QED BY <1>1, <2>1, StatFields
<1>8. FirstIn(ps, s.next) = g
  BY <1>1, FirstPacket, StatFields
<1>9. t.end = (L + 1) * w /\ t.next = t.end + w
  <2>1. \A l, v \in Nat : l * v + v = (l + 1) * v
    OBVIOUS
  <2>2. L * w + w = (L + 1) * w
    BY <1>1, <2>1
  <2> QED BY <1>1, <1>3, <2>2
<1>10. ASSUME NEW i \in 1 .. L + 1
       PROVE  /\ qs[i].start = (i - 1) * w /\ qs[i].end = i * w
              /\ PrintedIn(qs, i) = Carried(ps, FirstIn(ps, qs[i].end))
  <2>1. CASE i = L + 1
    <3>1. i - 1 = L
      BY <1>1, <2>1
    <3>2. qs[i].start = L * w /\ qs[i].end = s.next
      BY <1>1, <1>2, <1>4, <2>1
    <3>3. s.next = i * w
      BY <1>3, <1>9, <2>1
    <3> QED BY <1>1, <1>7, <1>8, <2>1, <3>1, <3>2, <3>3
  <2>2. CASE i # L + 1
    <3>1. i \in 1 .. L /\ i \in 0 .. L
      BY <1>1, <2>2
    <3>2. rs[i].start = (i - 1) * w /\ rs[i].end = i * w /\ PrintedIn(rs, i) = Carried(ps, FirstIn(ps, rs[i].end))
      BY <3>1 DEF Tiles
    <3> QED BY <1>4, <3>1, <3>2
  <2> QED BY <2>1, <2>2
<1>11. Tiles(ps, qs, t, Len(qs), w)
  <2>1. Len(qs) \in 0 .. Len(qs)
    BY <1>1, <1>4
  <2>2. t.last.total <= t.total /\ t.last.ooo <= t.ooo
    <3>1. s.total \in Nat /\ s.ooo \in Nat
      BY <1>1, StatFields
    <3> QED BY <1>3, <3>1
  <2> QED BY <1>3, <1>4, <1>7, <1>9, <1>10, <2>1, <2>2 DEF Tiles
<1>12. NotOver(ps, g - 1, t.next)
  <2>1. s.next \in Nat /\ w \in Nat /\ t.next = s.next + w
    BY <1>1, <1>3, StatFields
  <2> SUFFICES ASSUME NEW i \in 1 .. g - 1, i < Len(ps) PROVE ps[i].time <= t.next
    BY DEF NotOver
  <2>2. ps[i].time <= s.next /\ ps[i].time \in Nat
    BY DEF NotOver, Stream
  <2> HIDE DEF w
  <2> QED BY <2>1, <2>2
<1> QED BY <1>4, <1>5, <1>6, <1>11, <1>12 DEF t, x, qs

(* ... and after the totals.                                                     *)
WithTotals(ps, qs, s) ==
    /\ qs \in Seq(Line) /\ Len(qs) - 1 \in Nat
    /\ FinalsIn(qs) = {Len(qs)} /\ Last(qs) = FinalReport(s)
    /\ Tiles(ps, qs, s, Len(qs) - 1, run.interval)
LEMMA TilesFinal ==
  ASSUME NEW ps, NEW rs, rs \in Seq(Line), FinalsIn(rs) = {}, NEW s, s \in Stats,
         Tiles(ps, rs, s, Len(rs), run.interval)
  PROVE  WithTotals(ps, Append(rs, FinalReport(s)), s)
<1> DEFINE x == FinalReport(s)
           qs == Append(rs, x)
           L == Len(rs)
<1>1. x \in Line /\ x.final
  BY FinalLine
<1> HIDE DEF x
<1>2. /\ qs \in Seq(Line) /\ L \in Nat /\ Len(qs) = L + 1 /\ Last(qs) = x
      /\ \A i \in 1 .. L : qs[i] = rs[i]
      /\ FinalsIn(qs) = FinalsIn(rs) \cup {i \in {L + 1} : x.final}
      /\ \A n \in 0 .. L : PrintedIn(qs, n) = PrintedIn(rs, n)
  <2>1. Extends(qs, rs, x)
    BY <1>1, OneMoreLine
  <2> HIDE DEF qs
  <2> QED BY <2>1 DEF Extends
<1> HIDE DEF qs
<1>3. FinalsIn(qs) = {Len(qs)} /\ Len(qs) - 1 = L
  BY <1>1, <1>2
<1>4. L \in 0 .. Len(qs) /\ L \in 0 .. L
  BY <1>2
<1>5. PrintedIn(qs, L) = PrintedIn(rs, L)
  BY <1>2, <1>4
<1>6. \A i \in 1 .. L : i \in 0 .. L
  BY <1>2
<1>7. Tiles(ps, qs, s, L, run.interval)
  BY <1>2, <1>4, <1>5, <1>6 DEF Tiles
<1> QED BY <1>2, <1>3, <1>7 DEF qs, x, WithTotals

--------------------------------------------------------------------------------
(* The totals of an agent are printed; the reporter is at its intervals.         *)
Ended(a) == reporterindex[a] = -1 \/ (rpc = "closing" /\ Subject = a)
Printing(a) == rpc = "interval" /\ Subject = a

ReadSoFar(a) ==
    /\ Counted(run.packets[a], got[a], stats[a])
    /\ UDPServer => Told(run.packets[a], got[a], stats[a])
    /\ Ended(a) => got[a] = Len(run.packets[a])
    /\ Printing(a) => got[a] \in 1 .. Len(run.packets[a]) - 1
Printed(a) ==
    /\ reports[a] \in Seq(Line)
    /\ ~Ended(a) =>
        /\ FinalsIn(reports[a]) = {}
        /\ Tiles(run.packets[a], reports[a], stats[a], Len(reports[a]), run.interval)
    /\ Ended(a) =>
        /\ FinalsIn(reports[a]) = {Len(reports[a])} /\ Len(reports[a]) - 1 \in Nat
        /\ Last(reports[a]) = FinalReport(stats[a])
        /\ Tiles(run.packets[a], reports[a], stats[a], Len(reports[a]) - 1, run.interval)
UpToDate(a) ==
    run.interval # 0 =>
        /\ Printing(a) => NotOver(run.packets[a], got[a] - 1, stats[a].next)
        /\ ~Printing(a) => NotOver(run.packets[a], got[a], stats[a].next)
AgentStats(a) == ReadSoFar(a) /\ Printed(a) /\ UpToDate(a)

StatInv ==
    /\ stats \in [Agent -> Stats] /\ reports \in [Agent -> Seq(Line)]
    /\ \A a \in Agent : AgentStats(a)

LEMMA InitStats == Init => StatInv
<1> SUFFICES ASSUME Init PROVE StatInv
  OBVIOUS
<1>1. RingTypes /\ rpc = "top"
  BY InitRing DEF RingInv, Init
<1>2. ASSUME NEW a \in Agent PROVE AgentStats(a)
  <2>1. /\ Stream(run.packets[a]) /\ run.interval \in Nat
        /\ got[a] = 0 /\ stats[a] = NewStats(run) /\ reports[a] = <<>>
    BY <1>1, Streams DEF Init
  <2>2. ~Ended(a) /\ ~Printing(a)
    BY <1>1, RingAssumption DEF Init, Ended, Printing
  <2>3. Counted(run.packets[a], 0, NewStats(run)) /\ Told(run.packets[a], 0, NewStats(run))
    BY <2>1, FirstCount
  <2>4. ReadSoFar(a)
    BY <2>1, <2>2, <2>3 DEF ReadSoFar
  <2>5. reports[a] \in Seq(Line) /\ Len(reports[a]) = 0 /\ FinalsIn(reports[a]) = {}
    BY <2>1, EmptySeq DEF FinalsIn
  <2>6. PrintedIn(reports[a], 0) = 0
    <3>1. 1 .. 0 = {}
      OBVIOUS
    <3> QED BY <3>1, SumOfNone DEF PrintedIn
  <2>7. /\ NewStats(run).end = 0 /\ NewStats(run).next = run.interval
        /\ NewStats(run).last.total = 0 /\ NewStats(run).last.ooo = 0
        /\ NewStats(run).total = 0 /\ NewStats(run).ooo = 0
    BY DEF NewStats, NoCounts
  <2>8. Tiles(run.packets[a], reports[a], NewStats(run), 0, run.interval)
    BY <2>1, <2>5, <2>6, <2>7 DEF Tiles
  <2>9. NotOver(run.packets[a], 0, stats[a].next)
    BY DEF NotOver
  <2> QED BY <2>1, <2>2, <2>4, <2>5, <2>8, <2>9 DEF AgentStats, Printed, UpToDate
<1>3. stats \in [Agent -> Stats] /\ reports \in [Agent -> Seq(Line)]
  <2>1. \A a \in Agent : NewStats(run) \in Stats /\ <<>> \in Seq(Line)
    BY <1>1, Streams, FirstCount DEF Counted
  <2> QED BY <2>1 DEF Init
<1> QED BY <1>2, <1>3 DEF StatInv

(* Nothing happens to the statistics of a.                                       *)
SameLines(a) ==
    /\ stats'[a] = stats[a] /\ reports'[a] = reports[a] /\ got'[a] = got[a]
    /\ Ended(a)' <=> Ended(a)
    /\ Printing(a)' <=> Printing(a)

LEMMA LinesKept ==
  ASSUME NEW a \in Agent, AgentStats(a), run' = run, SameLines(a)
  PROVE  AgentStats(a)'
<1>1. ReadSoFar(a)'
  BY DEF AgentStats, ReadSoFar, SameLines, UDPServer
<1>2. FinalReport(stats[a])' = FinalReport(stats[a])
  BY DEF SameLines, FinalReport, Datagrams, UDPServer
<1>3. Printed(a)'
  BY <1>2 DEF AgentStats, Printed, SameLines
<1>4. UpToDate(a)'
  BY DEF AgentStats, UpToDate, SameLines
<1> QED BY <1>1, <1>3, <1>4 DEF AgentStats

(* Steps that print and read nothing.                                            *)
LEMMA AgentKeepsLines ==
  ASSUME NEW a \in Agent, AgentStep(a), NEW b
  PROVE  run' = run /\ SameLines(b)
<1>1. UNCHANGED <<run, todo, stats, reports, got, reporterindex>>
  BY DEF AgentStep, Scheduled, ReportPacket, Start, InitConnection, Barrier, LeaveBarrier,
         ReturnEarly, CountIn,
         CountedIn, InitReport, ReadIndex, Wrap, Full, Sleep, Write, Publish, ReportServerUDP,
         GetReport, EndReport, AgentOnly, Post, ringVars, printVars, listVars
<1>2. rpc' = rpc \/ SignalReporter
  BY DEF AgentStep, Scheduled, ReportPacket, Start, InitConnection, Barrier, LeaveBarrier,
         ReturnEarly, CountIn,
         CountedIn, InitReport, ReadIndex, Wrap, Full, Sleep, Write, Publish, ReportServerUDP,
         GetReport, EndReport, AgentOnly, Post
<1>3. Subject' = Subject
  BY <1>1 DEF Subject, Current
<1> QED BY <1>1, <1>2, <1>3 DEF SameLines, Ended, Printing, SignalReporter

LEMMA AgentKeepsStats ==
  ASSUME StatInv, NEW a \in Agent, AgentStep(a)
  PROVE  StatInv'
<1>1. UNCHANGED <<stats, reports>>
  BY DEF AgentStep, Scheduled, ReportPacket, Start, InitConnection, Barrier, LeaveBarrier,
         ReturnEarly, CountIn,
         CountedIn, InitReport, ReadIndex, Wrap, Full, Sleep, Write, Publish, ReportServerUDP,
         GetReport, EndReport, AgentOnly, Post, printVars
<1>2. \A b \in Agent : AgentStats(b)'
  BY AgentKeepsLines, LinesKept DEF StatInv
<1> QED BY <1>1, <1>2 DEF StatInv

(* The reporter's steps, but for the four below.                                 *)
Looks == Top \/ Wake \/ Again \/ Process \/ ProcessTransfer \/ Loop \/ Move \/ Check

LEMMA LooksKeepLines ==
  ASSUME RingInv, ListInv, Looks, NEW b \in Agent
  PROVE  run' = run /\ SameLines(b)
<1>1. UNCHANGED <<run, stats, reports, got>>
  BY DEF Looks, Top, Wake, Again, Process, ProcessTransfer, Loop, Move, Check, ReporterOnly, printVars
<1>2. rpc \notin {"interval", "closing"} /\ rpc' \notin {"interval", "closing"}
  BY DEF Looks, Top, Wake, Again, Process, ProcessTransfer, Loop, Move, Check, Finish
<1>3. reporterindex'[b] = -1 <=> reporterindex[b] = -1
  <2>1. CASE Move
    <3>1. Subject \in Agent /\ reporterindex[Subject] # -1
      BY <2>1, OnSubject DEF Move, OnReport, RingInv, AgentInv, Reading
    <3>2. reporterindex[Subject] \in 0 .. N - 1
      BY <3>1, OpenRing
    <3>3. PICK q \in Nat : reporterindex' = reporterindex \/ reporterindex' = [reporterindex EXCEPT ![Subject] = q]
      BY <2>1, <3>2 DEF Move
    <3> QED BY <3>1, <3>3 DEF RingInv, RingTypes
  <2>2. CASE ~Move
    BY <2>2 DEF Looks, Top, Wake, Again, Process, ProcessTransfer, Loop, Check
  <2> QED BY <2>1, <2>2
<1> QED BY <1>1, <1>2, <1>3 DEF SameLines, Ended, Printing

LEMMA LooksKeepStats ==
  ASSUME RingInv, ListInv, StatInv, Looks
  PROVE  StatInv'
<1>1. UNCHANGED <<stats, reports>>
  BY DEF Looks, Top, Wake, Again, Process, ProcessTransfer, Loop, Move, Check, ReporterOnly, printVars
<1>2. \A b \in Agent : AgentStats(b)'
  BY LooksKeepLines, LinesKept DEF StatInv
<1> QED BY <1>1, <1>2 DEF StatInv

(* Handle, PrintInterval, NoInterval, PrintFinal and Closing: other agents.      *)
LEMMA OtherLines ==
  ASSUME StatInv, run' = run, todo' = todo, NEW b \in Agent, Subject # b,
         stats'[b] = stats[b], reports'[b] = reports[b], got'[b] = got[b],
         reporterindex'[b] = reporterindex[b]
  PROVE  AgentStats(b)'
<1>1. Subject' # b
  BY DEF Subject, Current
<1>2. SameLines(b)
  BY <1>1 DEF SameLines, Ended, Printing
<1> QED BY <1>2, LinesKept DEF StatInv

(* A step of the reporter on the report of its subject a.                        *)
StepOn(a) ==
    /\ a \in Agent /\ Subject = a /\ Subject' = a
    /\ run' = run /\ todo' = todo
    /\ \A b \in Agent \ {a} :
        /\ stats'[b] = stats[b] /\ reports'[b] = reports[b] /\ got'[b] = got[b]
        /\ reporterindex'[b] = reporterindex[b]
    /\ Stream(run.packets[a]) /\ NumPackets(a) = Len(run.packets[a]) /\ run.interval \in Nat

OnePacket == Handle \/ PrintInterval \/ NoInterval \/ PrintFinal \/ Closing

LEMMA OnSubjectOnly ==
  ASSUME RingInv, ListInv, StatInv, OnePacket
  PROVE  StepOn(Subject)
<1>1. Subject \in Agent
  BY OnSubject DEF OnePacket, Handle, PrintInterval, NoInterval, PrintFinal, Closing, OnReport
<1>2. run' = run /\ todo' = todo
  BY DEF OnePacket, Handle, PrintInterval, NoInterval, PrintFinal, Closing, ReporterOnly, listVars
<1>3. Subject' = Subject
  BY <1>2 DEF Subject, Current
<1>4. ASSUME NEW b \in Agent \ {Subject}
      PROVE  /\ stats'[b] = stats[b] /\ reports'[b] = reports[b] /\ got'[b] = got[b]
             /\ reporterindex'[b] = reporterindex[b]
  <2>1. /\ DOMAIN stats = Agent /\ DOMAIN reports = Agent /\ DOMAIN got = Agent
        /\ DOMAIN reporterindex = Agent
    BY DEF StatInv, RingInv, RingTypes
  <2> QED BY <2>1 DEF OnePacket, Handle, PrintInterval, NoInterval, PrintFinal, Closing, printVars
<1>5. RingTypes
  BY DEF RingInv
<1> QED BY <1>1, <1>2, <1>3, <1>4, <1>5, Streams DEF StepOn

(* Its state when the step begins.                                               *)
Before(a, ps, g, s, rs) ==
    /\ StepOn(a) /\ AgentStats(a)
    /\ ps = run.packets[a] /\ g = got[a] /\ s = stats[a] /\ rs = reports[a]

LEMMA SubjectStats ==
  ASSUME StatInv, NEW a \in Agent, StepOn(a), AgentStats(a)',
         stats' \in [Agent -> Stats], reports' \in [Agent -> Seq(Line)]
  PROVE  StatInv'
<1>1. ASSUME NEW b \in Agent, b # a PROVE AgentStats(b)'
  BY <1>1, OtherLines DEF StepOn
<1> QED BY <1>1 DEF StatInv

LEMMA HandleKeepsStats ==
  ASSUME RingInv, ListInv, StatInv, NEW a \in Agent, NEW ps, NEW g, NEW s, NEW rs,
         Before(a, ps, g, s, rs), Handle
  PROVE  StatInv'
<1> DEFINE t == Account(s, ps[g + 1])
<1>1. /\ StepOn(a) /\ Subject = a /\ AgentStats(a)
      /\ ps = run.packets[a] /\ g = got[a] /\ s = stats[a] /\ rs = reports[a]
  BY DEF Before, StepOn
<1> USE <1>1
<1>2. /\ data[a][reporterindex[a]] = g + 1 /\ g < sent[a] /\ reporterindex[a] # -1
  BY <1>1, ReadsNext DEF Handle
<1>3. g \in Nat /\ g < Len(ps) /\ Stream(ps)
  <2>1. sent[a] <= NumPackets(a) /\ sent[a] \in Nat /\ g \in Nat
    BY <1>1 DEF RingInv, RingTypes, AgentInv, Progress
  <2> QED BY <1>1, <1>2, <2>1 DEF StepOn, Stream
<1>4. /\ got' = [got EXCEPT ![a] = g + 1] /\ stats' = [stats EXCEPT ![a] = t]
      /\ rpc = "handle" /\ rpc' = IF ps[g + 1].id < 0 THEN "final" ELSE "interval"
      /\ reports' = reports /\ reporterindex' = reporterindex /\ run' = run
  BY <1>2 DEF Handle, PacketOf, ReporterOnly
<1>5. got'[a] = g + 1 /\ stats'[a] = t /\ reports'[a] = reports[a] /\ reporterindex'[a] = reporterindex[a]
  BY <1>1, <1>4 DEF RingInv, RingTypes, StatInv
<1>6. ~Ended(a) /\ ~Printing(a) /\ ~Ended(a)' /\ (Printing(a)' => rpc' = "interval")
  BY <1>2, <1>4, <1>5 DEF Ended, Printing
<1>7. AgentStats(a)
  BY <1>1
<1>8. Counted(ps, g, s) /\ (UDPServer => Told(ps, g, s))
  BY <1>7 DEF AgentStats, ReadSoFar
<1>9. /\ Counted(ps, g + 1, t) /\ OnlyCounts(s, t)
      /\ t.ooo >= s.ooo /\ t.total >= s.total
      /\ UDPServer /\ Told(ps, g, s) => Told(ps, g + 1, t)
  BY <1>3, <1>8, CountNext
<1> HIDE DEF t
<1>10. rpc' = "interval" => g + 1 \in 1 .. Len(ps) - 1
  BY <1>3, <1>4 DEF Stream
<1>11. ReadSoFar(a)'
  <2>1. run.packets'[a] = ps /\ (UDPServer' <=> UDPServer)
    BY <1>4 DEF UDPServer
  <2> QED BY <1>4, <1>5, <1>6, <1>8, <1>9, <1>10, <2>1 DEF ReadSoFar
<1>12. Printed(a)'
  <2>1. /\ reports[a] \in Seq(Line) /\ FinalsIn(reports[a]) = {}
        /\ Tiles(ps, reports[a], s, Len(reports[a]), run.interval)
    BY <1>6, <1>7 DEF AgentStats, Printed
  <2>2. Tiles(ps, reports[a], t, Len(reports[a]), run.interval)
    <3>1. s \in Stats /\ t \in Stats
      BY <1>8, <1>9 DEF Counted
    <3>2. /\ s.last.total \in Nat /\ s.last.ooo \in Nat /\ s.total \in Nat /\ s.ooo \in Nat
          /\ t.total \in Nat /\ t.ooo \in Nat
      BY <3>1, StatFields
    <3>3. s.last.total <= s.total /\ s.last.ooo <= s.ooo
      BY <2>1 DEF Tiles
    <3>4. t.last = s.last /\ t.last.total <= t.total /\ t.last.ooo <= t.ooo
      BY <1>9, <3>2, <3>3 DEF OnlyCounts
    <3> QED BY <1>9, <2>1, <3>4 DEF Tiles, OnlyCounts
  <2> QED BY <1>4, <1>5, <1>6, <2>1, <2>2 DEF Printed
<1>13. UpToDate(a)'
  <2> SUFFICES ASSUME run.interval # 0
               PROVE  /\ NotOver(ps, (g + 1) - 1, t.next)
                      /\ ~Printing(a)' => NotOver(ps, g + 1, t.next)
    BY <1>4, <1>5 DEF UpToDate
  <2>1. NotOver(ps, g, s.next) /\ t.next = s.next
    BY <1>6, <1>7, <1>9 DEF AgentStats, UpToDate, OnlyCounts
  <2>2. (g + 1) - 1 = g
    BY <1>3
  <2>3. ~Printing(a)' => g + 1 = Len(ps)
    BY <1>1, <1>3, <1>4 DEF Printing, StepOn, Stream
  <2>4. g + 1 = Len(ps) => NotOver(ps, g + 1, s.next)
    <3> SUFFICES ASSUME g + 1 = Len(ps), NEW i \in 1 .. g + 1, i < Len(ps) PROVE ps[i].time <= s.next
      BY DEF NotOver
    <3>1. i \in 1 .. g
      BY <1>3
    <3> QED BY <2>1, <3>1 DEF NotOver
  <2> QED BY <2>1, <2>2, <2>3, <2>4
<1>14. stats' \in [Agent -> Stats] /\ reports' \in [Agent -> Seq(Line)]
  BY <1>4, <1>9 DEF StatInv, Counted
<1> QED BY <1>1, <1>11, <1>12, <1>13, <1>14, SubjectStats DEF AgentStats

LEMMA PrintIntervalKeepsStats ==
  ASSUME RingInv, ListInv, StatInv, NEW a \in Agent, NEW ps, NEW g, NEW s, NEW rs,
         Before(a, ps, g, s, rs), PrintInterval
  PROVE  StatInv'
<1> DEFINE t == NextInterval(s)
           qs == Append(rs, IntervalReport(s))
<1>1. /\ StepOn(a) /\ Subject = a /\ AgentStats(a)
      /\ ps = run.packets[a] /\ g = got[a] /\ s = stats[a] /\ rs = reports[a]
  BY DEF Before, StepOn
<1> USE <1>1
<1>2. /\ stats' = [stats EXCEPT ![a] = t] /\ reports' = [reports EXCEPT ![a] = qs]
      /\ rpc = "interval" /\ rpc' = rpc /\ IntervalOver(s)
      /\ got' = got /\ reporterindex' = reporterindex /\ run' = run
  BY DEF PrintInterval, ReporterOnly
<1>3. stats'[a] = t /\ reports'[a] = qs /\ got'[a] = g /\ reporterindex'[a] = reporterindex[a]
  BY <1>1, <1>2 DEF StatInv
<1>4. reporterindex[a] # -1
  BY <1>1, <1>2 DEF RingInv, AgentInv, Reading, OnReport
<1>5. ~Ended(a) /\ Printing(a) /\ ~Ended(a)' /\ Printing(a)'
  BY <1>1, <1>2, <1>4 DEF Ended, Printing, StepOn
<1>6. AgentStats(a)
  BY <1>1
<1>7. /\ Counted(ps, g, s) /\ (UDPServer => Told(ps, g, s)) /\ g \in 1 .. Len(ps) - 1
      /\ rs \in Seq(Line) /\ FinalsIn(rs) = {}
      /\ Tiles(ps, rs, s, Len(rs), run.interval)
  BY <1>5, <1>6 DEF AgentStats, ReadSoFar, Printed
<1>8. NotOver(ps, g - 1, s.next)
  BY <1>2, <1>5, <1>6 DEF AgentStats, UpToDate, IntervalOver
<1>9. /\ qs \in Seq(Line) /\ FinalsIn(qs) = {}
      /\ Counted(ps, g, t) /\ (Told(ps, g, s) => Told(ps, g, t))
      /\ Tiles(ps, qs, t, Len(qs), run.interval)
      /\ NotOver(ps, g - 1, t.next)
  <2>1. Stream(ps) /\ run.interval \in Nat
    BY <1>1 DEF StepOn
  <2> QED BY <1>2, <1>7, <1>8, <2>1, TilesNext
<1> HIDE DEF t, qs
<1>10. ReadSoFar(a)'
  <2>1. UDPServer' <=> UDPServer
    BY <1>2 DEF UDPServer
  <2> QED BY <1>2, <1>3, <1>5, <1>7, <1>9, <2>1 DEF ReadSoFar
<1>11. Printed(a)' /\ UpToDate(a)'
  BY <1>2, <1>3, <1>5, <1>9 DEF Printed, UpToDate
<1>12. stats' \in [Agent -> Stats] /\ reports' \in [Agent -> Seq(Line)]
  BY <1>2, <1>9 DEF StatInv, Counted
<1> QED BY <1>1, <1>10, <1>11, <1>12, SubjectStats DEF AgentStats

LEMMA NoIntervalKeepsStats ==
  ASSUME RingInv, ListInv, StatInv, NEW a \in Agent, NEW ps, NEW g, NEW s, NEW rs,
         Before(a, ps, g, s, rs), NoInterval
  PROVE  StatInv'
<1>1. /\ StepOn(a) /\ Subject = a /\ AgentStats(a)
      /\ ps = run.packets[a] /\ g = got[a] /\ s = stats[a] /\ rs = reports[a]
  BY DEF Before, StepOn
<1> USE <1>1
<1>2. /\ stats' = stats /\ reports' = reports /\ got' = got /\ reporterindex' = reporterindex
      /\ run' = run /\ rpc = "interval" /\ rpc' = "loop" /\ ~IntervalOver(s)
  BY DEF NoInterval, ReporterOnly, printVars
<1>3. Printing(a) /\ ~Printing(a)' /\ (Ended(a)' <=> Ended(a))
  BY <1>2 DEF Printing, Ended
<1>4. AgentStats(a)
  BY <1>1
<1>5. ReadSoFar(a)'
  BY <1>2, <1>3, <1>4 DEF AgentStats, ReadSoFar, UDPServer
<1>6. Printed(a)'
  <2>1. FinalReport(stats[a])' = FinalReport(stats[a])
    BY <1>2 DEF FinalReport, Datagrams, UDPServer
  <2> QED BY <1>2, <1>3, <1>4, <2>1 DEF AgentStats, Printed
<1>7. UpToDate(a)'
  <2> SUFFICES ASSUME run.interval # 0 PROVE NotOver(ps, g, s.next)
    BY <1>2, <1>3 DEF UpToDate
  <2>1. NotOver(ps, g - 1, s.next) /\ g \in 1 .. Len(ps) - 1 /\ Counted(ps, g, s)
    BY <1>3, <1>4 DEF AgentStats, UpToDate, ReadSoFar
  <2>2. s.time = ps[g].time /\ s \in Stats
    BY <2>1 DEF Counted
  <2>3. ~(s.next < s.time) /\ s.next \in Nat /\ s.time \in Nat
    BY <1>2, <2>2, StatFields DEF IntervalOver
  <2>4. ps[g].time <= s.next
    BY <2>2, <2>3
  <2>5. Len(ps) \in Nat
    BY <1>1 DEF StepOn, Stream
  <2> QED BY <2>1, <2>4, <2>5 DEF NotOver
<1> QED BY <1>1, <1>2, <1>5, <1>6, <1>7, SubjectStats DEF AgentStats, StatInv

LEMMA PrintFinalKeepsStats ==
  ASSUME RingInv, ListInv, StatInv, NEW a \in Agent, NEW ps, NEW g, NEW s, NEW rs,
         Before(a, ps, g, s, rs), PrintFinal
  PROVE  StatInv'
<1> DEFINE qs == Append(rs, FinalReport(s))
<1>1. /\ StepOn(a) /\ Subject = a /\ AgentStats(a)
      /\ ps = run.packets[a] /\ g = got[a] /\ s = stats[a] /\ rs = reports[a]
  BY DEF Before, StepOn
<1> USE <1>1
<1>2. /\ stats' = stats /\ reports' = [reports EXCEPT ![a] = qs]
      /\ rpc = "final" /\ rpc' = "closing"
      /\ got' = got /\ reporterindex' = reporterindex /\ run' = run
  BY DEF PrintFinal, ReporterOnly
<1>3. stats'[a] = s /\ reports'[a] = qs /\ got'[a] = g
  BY <1>1, <1>2 DEF StatInv
<1>4. reporterindex[a] # -1 /\ g = Len(ps)
  BY <1>1, <1>2 DEF RingInv, AgentInv, Reading, OnReport, StepOn
<1>5. ~Ended(a) /\ ~Printing(a) /\ Ended(a)' /\ ~Printing(a)'
  BY <1>1, <1>2, <1>4 DEF Ended, Printing, StepOn
<1>6. AgentStats(a)
  BY <1>1
<1>7. /\ s \in Stats /\ rs \in Seq(Line) /\ FinalsIn(rs) = {}
      /\ Tiles(ps, rs, s, Len(rs), run.interval)
  BY <1>5, <1>6 DEF AgentStats, ReadSoFar, Printed, Counted
<1>8. /\ qs \in Seq(Line) /\ Len(qs) - 1 \in Nat
      /\ FinalsIn(qs) = {Len(qs)} /\ Last(qs) = FinalReport(s)
      /\ Tiles(ps, qs, s, Len(qs) - 1, run.interval)
  <2>1. WithTotals(ps, Append(rs, FinalReport(s)), s)
    BY <1>7, TilesFinal
  <2> QED BY <2>1 DEF WithTotals
<1>9. FinalReport(s)' = FinalReport(s)
  BY <1>2 DEF FinalReport, Datagrams, UDPServer
<1> HIDE DEF qs
<1>10. ReadSoFar(a)'
  BY <1>2, <1>3, <1>4, <1>5, <1>6 DEF AgentStats, ReadSoFar, UDPServer
<1>11. Printed(a)' /\ UpToDate(a)'
  BY <1>2, <1>3, <1>5, <1>6, <1>8, <1>9 DEF AgentStats, Printed, UpToDate
<1>12. stats' \in [Agent -> Stats] /\ reports' \in [Agent -> Seq(Line)]
  BY <1>2, <1>8 DEF StatInv
<1> QED BY <1>1, <1>10, <1>11, <1>12, SubjectStats DEF AgentStats

LEMMA ClosingKeepsStats ==
  ASSUME RingInv, ListInv, StatInv, NEW a \in Agent, NEW ps, NEW g, NEW s, NEW rs,
         Before(a, ps, g, s, rs), Closing
  PROVE  StatInv'
<1>1. /\ StepOn(a) /\ Subject = a /\ AgentStats(a)
      /\ ps = run.packets[a] /\ g = got[a] /\ s = stats[a] /\ rs = reports[a]
  BY DEF Before, StepOn
<1> USE <1>1
<1>2. /\ stats' = stats /\ reports' = reports /\ got' = got /\ run' = run
      /\ rpc = "closing" /\ rpc' = "check" /\ reporterindex' = [reporterindex EXCEPT ![a] = -1]
  BY DEF Closing, ReporterOnly, printVars
<1>3. SameLines(a)
  <2>1. reporterindex'[a] = -1
    BY <1>1, <1>2 DEF RingInv, RingTypes
  <2> QED BY <1>2, <2>1 DEF SameLines, Ended, Printing
<1>4. AgentStats(a)'
  BY <1>1, <1>2, <1>3, LinesKept DEF StatInv
<1> QED BY <1>1, <1>2, <1>4, SubjectStats DEF StatInv

(* What the reporter prints is what it counted, and it counts what it reads.     *)
THEOREM StatisticsAreKept == Spec => []StatInv
<1>1. RingInv /\ ListInv /\ StatInv /\ [Next]_vars => StatInv'
  <2> SUFFICES ASSUME RingInv, ListInv, StatInv, [Next]_vars PROVE StatInv'
    OBVIOUS
  <2>1. ASSUME NEW a \in Agent, AgentStep(a) PROVE StatInv'
    BY <2>1, AgentKeepsStats
  <2>2. CASE ReporterStep
    <3>1. CASE OnePacket
      <4>1. StepOn(Subject)
        BY <3>1, OnSubjectOnly
      <4>2. PICK a \in Agent : StepOn(a) /\ AgentStats(a)
        BY <4>1 DEF StepOn, StatInv
      <4>3. PICK ps, g, s, rs : Before(a, ps, g, s, rs)
        BY <4>2 DEF Before
      <4> QED BY <3>1, <4>3, HandleKeepsStats, PrintIntervalKeepsStats, NoIntervalKeepsStats,
                 PrintFinalKeepsStats, ClosingKeepsStats
              DEF OnePacket
    <3>2. CASE Looks
      BY <3>2, LooksKeepStats
    <3> QED BY <2>2, <3>1, <3>2 DEF ReporterStep, Looks, OnePacket
  <2>3. CASE JoinAll \/ UNCHANGED vars
    <3>1. UNCHANGED <<run, stats, reports, got, reporterindex, rpc, todo>>
      BY <2>3 DEF JoinAll, vars, printVars, ringVars, listVars
    <3>2. ASSUME NEW a \in Agent PROVE SameLines(a)
      BY <3>1 DEF SameLines, Ended, Printing, Subject, Current
    <3> QED BY <3>1, <3>2, LinesKept DEF StatInv
  <2> QED BY <2>1, <2>2, <2>3 DEF Next
<1> QED BY <1>1, InitStats, RingIsSafe, ListIsSafe, PTL DEF Spec

--------------------------------------------------------------------------------
(* The statistics under the names they have in the properties.                   *)
LEMMA SameNames ==
  ASSUME NEW a \in Agent
  PROVE  /\ NumPackets(a) = Len(run.packets[a]) /\ FinalsOf(a) = FinalsIn(reports[a])
         /\ \A n : /\ LengthUpTo(a, n) = Carried(run.packets[a], n)
                   /\ LengthPrinted(a, n) = PrintedIn(reports[a], n)
                   /\ Arrivals(a, n) = ArrivalsIn(run.packets[a], n)
                   /\ Numbers(a, n) = NumbersIn(run.packets[a], n)
         /\ \A t : FirstAfter(a, t) = FirstIn(run.packets[a], t)
<1>1. NumPackets(a) = Len(run.packets[a]) /\ FinalsOf(a) = FinalsIn(reports[a])
  BY DEF NumPackets, FinalsOf, FinalsIn
<1>2. Length(a) = Loads(run.packets[a])
  BY <1>1 DEF Length, Loads, Load, PacketOf
<1>3. \A n : LengthUpTo(a, n) = Carried(run.packets[a], n)
  BY <1>2 DEF LengthUpTo, Carried
<1>4. \A n : LengthPrinted(a, n) = PrintedIn(reports[a], n)
  BY DEF LengthPrinted, PrintedIn, Widths
<1>5. \A n : Arrivals(a, n) = ArrivalsIn(run.packets[a], n)
  BY DEF Arrivals, ArrivalsIn, PacketOf
<1>6. \A n : Numbers(a, n) = NumbersIn(run.packets[a], n)
  BY <1>5 DEF Numbers, NumbersIn, PacketOf
<1>7. \A t : FirstAfter(a, t) = FirstIn(run.packets[a], t)
  BY <1>1 DEF FirstAfter, FirstIn, PacketOf
<1> QED BY <1>1, <1>3, <1>4, <1>5, <1>6, <1>7

(* When the process ends nothing is left in the list, and of each thread that    *)
(* reported the totals are printed, once and last.  Only without data reports    *)
(* can main have ended before the reporter, already woken, got to the list.      *)
THEOREM NothingIsPending == Spec => []NothingPending
<1>1. RingInv /\ ListInv /\ PendingInv /\ StatInv => NothingPending
  <2>0. ASSUME ListInv, PendingInv, ended, ~run.data PROVE NothingPending
    <3>1. rpc = "asleep" => root = <<>>
      BY <2>0 DEF ListInv, ListTypes
    <3>2. rpc \in {"asleep", "woken"}
      BY <2>0 DEF PendingInv, Waiters
    <3> QED BY <2>0, <3>1, <3>2 DEF NothingPending
  <2> SUFFICES ASSUME RingInv, ListInv, PendingInv, StatInv, ended, run.data
               PROVE  root = <<>> /\ \A a \in run.agents \ run.failed : TotalsPrinted(a)
    BY <2>0 DEF NothingPending
  <2>1. ignored /\ \A a \in Agent : pc[a] = "gone"
    BY DEF PendingInv, Waiters
  <2>2. root = <<>>
    <3>1. root \in Seq(Report) /\ \A r \in Report : r[2] \in Agent
      BY DEF ListInv, ListTypes, OnceIn, Report
    <3>2. \A r \in ToSet(root) : pc[r[2]] # "gone"
      BY <2>1 DEF PendingInv, NoneOfTheGone
    <3>3. ASSUME NEW i \in DOMAIN root PROVE FALSE
      <4>1. root[i] \in Report /\ root[i] \in ToSet(root)
        BY <3>1 DEF ToSet
      <4> QED BY <2>1, <3>1, <3>2, <4>1
    <3>4. Len(root) \in Nat /\ DOMAIN root = 1 .. Len(root)
      BY <3>1, LenProperties
    <3>5. Len(root) = 0
      <4>1. Len(root) >= 1 => 1 \in DOMAIN root
        BY <3>4
      <4> QED BY <3>3, <3>4, <4>1
    <3> QED BY <3>1, <3>5, EmptySeq
  <2>3. ASSUME NEW a \in run.agents \ run.failed PROVE TotalsPrinted(a)
    <3>1. a \in Agent
      BY ScenarioAssumption DEF RingInv, RingTypes
    <3>2. Ended(a)
      BY <2>1, <3>1 DEF PendingInv, LeftOpen, Ended
    <3>3. FinalsIn(reports[a]) = {Len(reports[a])}
      BY <3>1, <3>2 DEF StatInv, AgentStats, Printed
    <3> QED BY <3>1, <3>3, SameNames DEF TotalsPrinted
  <2> QED BY <2>2, <2>3
<1> QED BY <1>1, RingIsSafe, ListIsSafe, PendingIsKnown, StatisticsAreKept, PTL

(* A UDP server's answer is made when the reporter has read all it received, and *)
(* the totals in it are the sum of what the packets carried.                     *)
THEOREM AnswersAreFinal == Spec => []AnswerIsFinal
<1>1. RingInv /\ PendingInv /\ StatInv => AnswerIsFinal
  <2> SUFFICES ASSUME RingInv, PendingInv, StatInv,
                      NEW a \in run.agents \ run.failed, UDPServer, run.data, pc[a] \in {"end", "gone"}
               PROVE  /\ TotalsPrinted(a)
                      /\ Last(reports[a]).len = LengthUpTo(a, NumPackets(a))
                      /\ got[a] = sent[a]
    BY DEF AnswerIsFinal
  <2>1. a \in Agent /\ run.agents \subseteq Agent
    BY ScenarioAssumption DEF RingInv, RingTypes
  <2>2. reporterindex[a] = -1 /\ Ended(a)
    BY <2>1 DEF PendingInv, LeftOpen, Ended
  <2>3. ReadSoFar(a) /\ Printed(a)
    BY <2>1 DEF StatInv, AgentStats
  <2>4. got[a] = Len(run.packets[a])
    BY <2>2, <2>3 DEF ReadSoFar
  <2>5. sent[a] = got[a]
    BY <2>1, <2>2, <2>4, SameNames DEF RingInv, AgentInv, Progress
  <2>6. TotalsPrinted(a)
    BY <2>1, <2>2, <2>3, SameNames DEF Printed, TotalsPrinted
  <2>7. stats[a] \in Stats /\ stats[a].total = Carried(run.packets[a], Len(run.packets[a]))
    BY <2>3, <2>4 DEF ReadSoFar, Counted
  <2>8. Last(reports[a]).len = stats[a].total
    BY <2>2, <2>3, <2>7, FinalLine DEF Printed
  <2> QED BY <2>1, <2>5, <2>6, <2>7, <2>8, SameNames
<1> QED BY <1>1, RingIsSafe, PendingIsKnown, StatisticsAreKept, PTL

(* The interval reports of a thread follow each other without gap or overlap,    *)
(* and together say what arrived, up to the first packet after the interval.     *)
THEOREM IntervalsFollow == Spec => []IntervalsTile
<1>1. RingInv /\ StatInv => IntervalsTile
  <2> SUFFICES ASSUME RingInv, StatInv, NEW a \in Agent, NEW i \in DOMAIN reports[a] \ FinalsOf(a)
               PROVE  /\ reports[a][i].start = (i - 1) * run.interval
                      /\ reports[a][i].end = i * run.interval
                      /\ LengthPrinted(a, i) = LengthUpTo(a, FirstAfter(a, reports[a][i].end))
    BY DEF IntervalsTile
  <2>1. Printed(a) /\ reports[a] \in Seq(Line)
    BY DEF StatInv, AgentStats, Printed
  <2>2. DOMAIN reports[a] = 1 .. Len(reports[a]) /\ Len(reports[a]) \in Nat
    BY <2>1, LenProperties
  <2>3. i \notin FinalsIn(reports[a])
    BY SameNames
  <2>4. PICK k \in Nat : i \in 1 .. k /\ Tiles(run.packets[a], reports[a], stats[a], k, run.interval)
    BY <2>1, <2>2, <2>3 DEF Printed
  <2>5. /\ reports[a][i].start = (i - 1) * run.interval
        /\ reports[a][i].end = i * run.interval
        /\ PrintedIn(reports[a], i) = Carried(run.packets[a], FirstIn(run.packets[a], reports[a][i].end))
    BY <2>4 DEF Tiles
  <2> QED BY <2>5, SameNames
<1> QED BY <1>1, RingIsSafe, StatisticsAreKept, PTL

(* The losses: of the numbers up to the largest, m are missing.                  *)
LEMMA MissingNumbers ==
  ASSUME NEW ps, Stream(ps), NEW s, s.id \in NumbersIn(ps, Len(ps)), s.id \in Nat,
         \A x \in NumbersIn(ps, Len(ps)) : x <= s.id
  PROVE  LET arrived == NumbersIn(ps, Len(ps)) IN
         /\ Max(arrived) = s.id
         /\ Cardinality(arrived) \in Nat /\ Cardinality((0 .. Max(arrived)) \ arrived) \in Nat
         /\ Cardinality((0 .. Max(arrived)) \ arrived) + Cardinality(arrived) = s.id + 1
<1> DEFINE T == NumbersIn(ps, Len(ps))
           m == s.id
<1>1. m \in T /\ m \in Nat /\ \A x \in T : x <= m
  OBVIOUS
<1>2. \A x \in T : x \in Int /\ x >= 0
  BY DEF Stream, NumbersIn, ArrivalsIn
<1> HIDE DEF T, m
<1>3. Max(T) = m
  <2>1. m \in T /\ \A y \in T : m >= y
    BY <1>1, <1>2
  <2>2. \A x \in T : (\A y \in T : x >= y) => x = m
    <3> SUFFICES ASSUME NEW x \in T, \A y \in T : x >= y PROVE x = m
      OBVIOUS
    <3>1. x >= m /\ x <= m /\ x \in Int /\ m \in Int
      BY <1>1, <1>2
    <3> QED BY <3>1
  <2> QED BY <2>1, <2>2 DEF Max
<1>4. T \subseteq 0 .. m
  BY <1>1, <1>2
<1>5. IsFiniteSet(0 .. m) /\ Cardinality(0 .. m) = m + 1
  BY <1>1, FS_Interval
<1>6. IsFiniteSet(T) /\ Cardinality(T) \in Nat
  BY <1>4, <1>5, FS_Subset, FS_CardinalityType
<1>7. /\ IsFiniteSet((0 .. m) \ T)
      /\ Cardinality((0 .. m) \ T) = Cardinality(0 .. m) - Cardinality((0 .. m) \cap T)
  BY <1>5, FS_Difference
<1>8. (0 .. m) \cap T = T
  BY <1>4
<1>9. Cardinality((0 .. m) \ T) \in Nat
  BY <1>7, FS_CardinalityType
<1> DEFINE c == Cardinality(T)
           d == Cardinality((0 .. m) \ T)
<1>10. c \in Nat /\ d \in Nat /\ d = (m + 1) - c
  BY <1>5, <1>6, <1>7, <1>8, <1>9
<1> HIDE DEF c, d
<1>11. d + c = m + 1
  BY <1>1, <1>10
<1> QED BY <1>3, <1>6, <1>9, <1>11 DEF T, m, c, d

LEMMA AllArrivals ==
  ASSUME NEW ps, Stream(ps)
  PROVE  Cardinality(ArrivalsIn(ps, Len(ps))) \in Nat
<1>1. ArrivalsIn(ps, Len(ps)) \subseteq 1 .. Len(ps) /\ Len(ps) \in Nat
  BY DEF ArrivalsIn, Stream
<1>2. IsFiniteSet(1 .. Len(ps))
  BY <1>1, FS_Interval
<1>3. IsFiniteSet(ArrivalsIn(ps, Len(ps)))
  BY <1>1, <1>2, FS_Subset
<1> QED BY <1>3, FS_CardinalityType

(* err less ooo, which is all a UDP server keeps, is the datagrams missing less  *)
(* the duplicates, in whatever order they come.                                  *)
THEOREM LossesAreExact == Spec => []LossesExact
<1>1. RingInv /\ StatInv => LossesExact
  <2> SUFFICES ASSUME RingInv, StatInv, UDPServer, NEW a \in Agent, NEW k \in FinalsOf(a)
               PROVE  LET arrived == Numbers(a, NumPackets(a))
                          missing == Cardinality((0 .. Max(arrived)) \ arrived)
                          twice == 1 + Cardinality(Arrivals(a, NumPackets(a))) - Cardinality(arrived)
                      IN  reports[a][k].err = Largest(0, missing - twice)
    BY DEF LossesExact
  <2> DEFINE ps == run.packets[a]
             s == stats[a]
             A == ArrivalsIn(ps, Len(ps))
             T == NumbersIn(ps, Len(ps))
  <2>1. ReadSoFar(a) /\ Printed(a) /\ k \in FinalsIn(reports[a]) /\ Stream(ps)
    BY SameNames, Streams DEF StatInv, AgentStats, RingInv
  <2>2. Ended(a)
    BY <2>1 DEF Printed
  <2>3. got[a] = Len(ps) /\ Told(ps, Len(ps), s) /\ s \in Stats
    BY <2>1, <2>2 DEF ReadSoFar, Counted
  <2>4. k = Len(reports[a]) /\ reports[a][k] = FinalReport(s)
    BY <2>1, <2>2 DEF Printed, Last
  <2>5. reports[a][k].err = Largest(0, s.err - s.ooo)
    BY <2>3, <2>4, FinalLine
  <2>6. s.id \in T /\ (\A x \in T : x <= s.id) /\ s.err - s.ooo = s.id - Cardinality(A)
    BY <2>3 DEF Told
  <2>7. s.id \in Nat
    BY <2>3, StatFields
  <2>8. /\ Cardinality(T) \in Nat /\ Cardinality((0 .. Max(T)) \ T) \in Nat
        /\ Cardinality((0 .. Max(T)) \ T) + Cardinality(T) = s.id + 1
    BY <2>1, <2>6, <2>7, MissingNumbers
  <2>9. Cardinality(A) \in Nat
    BY <2>1, AllArrivals
  <2>10. ASSUME NEW c \in Nat, NEW d \in Nat, NEW e \in Nat, NEW i \in Nat, d + c = i + 1
         PROVE  d - (1 + e - c) = i - e
    BY <2>10
  <2>11. Cardinality((0 .. Max(T)) \ T) - (1 + Cardinality(A) - Cardinality(T)) = s.id - Cardinality(A)
    BY <2>7, <2>8, <2>9, <2>10
  <2>12. Numbers(a, NumPackets(a)) = T /\ Arrivals(a, NumPackets(a)) = A
    BY SameNames
  <2> HIDE DEF T, A, s
  <2> QED BY <2>5, <2>6, <2>11, <2>12
<1> QED BY <1>1, RingIsSafe, StatisticsAreKept, PTL

--------------------------------------------------------------------------------
(* The types of what the invariants above leave out.                             *)
Slot == [start : {-1} \cup Nat, end : Nat, len : Nat, cnt : Int, ooo : Nat, err : Nat, free : Nat]
SumTypes == slots \in [1 .. NumSlots(run) -> Slot] /\ sums \in Seq(Line)
RestTypes ==
    /\ index \in [Agent -> -1 .. N - 1] /\ agentindex \in [Agent -> -1 .. N]
    /\ data \in [Agent -> [0 .. N - 1 -> Nat]]
    /\ doneWait \in SUBSET Agent
    /\ threads \in Nat /\ counted \in [Agent -> Nat]

(* The slot that is looked for is the first one.                                 *)
LEMMA SlotFound ==
  ASSUME NEW n \in Nat, slots \in [1 .. n -> Slot], NEW t, SumStarted(t)
  PROVE  SlotOf(t) \in 1 .. n /\ slots[SlotOf(t)].start = t
<1> DEFINE T == {i \in 1 .. n : slots[i].start = t}
<1>1. T \subseteq Nat /\ T # {}
  BY DEF SumStarted
<1>2. PICK i \in T : \A j \in T : i <= j
  BY <1>1, LeastNumber
<1>3. SlotIs(i, t)
  <2>1. ASSUME NEW j \in 1 .. i - 1, slots[j].start = t PROVE FALSE
    <3>1. j \in T /\ j < i
      BY <1>2, <2>1
    <3> QED BY <1>2, <3>1
  <2> QED BY <1>2, <2>1 DEF SlotIs
<1>4. \E j \in DOMAIN slots : SlotIs(j, t)
  BY <1>2, <1>3
<1>5. SlotOf(t) \in DOMAIN slots /\ SlotIs(SlotOf(t), t)
  BY <1>4 DEF SlotOf
<1> QED BY <1>5 DEF SlotIs

LEMMA SlotRecords ==
  ASSUME NEW c \in Slot, NEW x \in Line
  PROVE  /\ Opened(x) \in Slot /\ Added(c, x) \in Slot /\ Added(c, x).start = c.start
         /\ \A final \in BOOLEAN : Released(c, final) \in Slot
         /\ c.start \in Nat => SumOf(c, x.final) \in Line
<1>1. /\ c.end \in Nat /\ c.len \in Nat /\ c.cnt \in Int /\ c.ooo \in Nat /\ c.err \in Nat
      /\ c.free \in Nat /\ c.start \in {-1} \cup Nat
  BY DEF Slot
<1>2. /\ x.final \in BOOLEAN /\ x.start \in Nat /\ x.end \in Nat /\ x.len \in Nat
      /\ x.cnt \in Int /\ x.ooo \in Nat /\ x.err \in Nat
  BY DEF Line
<1>3. Largest(x.end, c.end) \in Nat
  BY <1>1, <1>2 DEF Largest
<1>4. Opened(x) \in Slot
  BY <1>2 DEF Opened, Slot
<1>5. Added(c, x) \in Slot /\ Added(c, x).start = c.start
  <2>1. /\ c.len + x.len \in Nat /\ c.cnt + x.cnt \in Int /\ c.ooo + x.ooo \in Nat
        /\ c.err + x.err \in Nat /\ c.free + 1 \in Nat
    BY <1>1, <1>2
  <2>2. /\ Added(c, x).start = c.start /\ Added(c, x).end = Largest(x.end, c.end)
        /\ Added(c, x).len = c.len + x.len /\ Added(c, x).cnt = c.cnt + x.cnt
    BY DEF Slot, Added
  <2>3. /\ Added(c, x).ooo = c.ooo + x.ooo /\ Added(c, x).err = c.err + x.err
        /\ Added(c, x).free = c.free + 1
    BY DEF Slot, Added
  <2>4. DOMAIN Added(c, x) = DOMAIN c /\ Added(c, x) = [i \in DOMAIN c |-> Added(c, x)[i]]
    BY DEF Added
  <2>5. DOMAIN c = {"start", "end", "len", "cnt", "ooo", "err", "free"}
    BY DEF Slot
  <2> QED BY <1>1, <1>3, <2>1, <2>2, <2>3, <2>4, <2>5 DEF Slot
<1>6. \A final \in BOOLEAN : Released(c, final) \in Slot
  BY <1>1 DEF Released, Slot
<1>7. c.start \in Nat => SumOf(c, x.final) \in Line
  BY <1>1, <1>2 DEF SumOf, Line
<1> QED BY <1>4, <1>5, <1>6, <1>7

LEMMA SumsKeepTypes ==
  ASSUME SumTypes, NumSlots(run) \in Nat, run' = run, NEW x \in Line, AddToSum(x)
  PROVE  SumTypes'
<1> DEFINE n == NumSlots(run)
<1>1. n \in Nat /\ slots \in [1 .. n -> Slot] /\ sums \in Seq(Line)
  BY DEF SumTypes
<1>2. NumSlots(run)' = n
  BY DEF NumSlots
<1> HIDE DEF n
<1>3. CASE ~run.multi \/ threads <= 1
  BY <1>1, <1>2, <1>3 DEF AddToSum, SumTypes
<1>4. CASE ~(~run.multi \/ threads <= 1) /\ ~SumStarted(x.start)
  <2>1. sums' = sums /\ slots' = [slots EXCEPT ![SlotTaken] = Opened(x)]
    BY <1>4 DEF AddToSum
  <2>2. \A c \in Slot : Opened(x) \in Slot
    BY SlotRecords
  <2>3. slots' \in [1 .. n -> Slot]
    BY <1>1, <2>1, <2>2
  <2> QED BY <1>1, <1>2, <2>1, <2>3 DEF SumTypes
<1>5. CASE ~(~run.multi \/ threads <= 1) /\ SumStarted(x.start)
  <2> DEFINE i == SlotOf(x.start)
             c == Added(slots[i], x)
  <2>1. i \in 1 .. n /\ slots[i].start = x.start
    BY <1>1, <1>5, SlotFound
  <2>2. slots[i] \in Slot
    BY <1>1, <2>1
  <2>3. c \in Slot /\ c.start = x.start /\ x.start \in Nat /\ x.final \in BOOLEAN
    BY <2>1, <2>2, SlotRecords DEF Line
  <2>4. Released(c, x.final) \in Slot /\ SumOf(c, x.final) \in Line
    BY <2>3, SlotRecords
  <2>5. \/ slots' = [slots EXCEPT ![i] = Released(c, x.final)] /\ sums' = Append(sums, SumOf(c, x.final))
        \/ slots' = [slots EXCEPT ![i] = c] /\ sums' = sums
    BY <1>5 DEF AddToSum
  <2> HIDE DEF i, c
  <2>6. slots' \in [1 .. n -> Slot]
    BY <1>1, <2>3, <2>4, <2>5
  <2>7. sums' \in Seq(Line)
    <3>1. \A q \in Seq(Line), y \in Line : Append(q, y) \in Seq(Line)
      BY AppendProperties
    <3> QED BY <1>1, <2>4, <2>5, <3>1
  <2> QED BY <1>2, <2>6, <2>7 DEF SumTypes
<1> QED BY <1>3, <1>4, <1>5

(* The lines that are added up.                                                  *)
LEMMA ReporterKeepsSums ==
  ASSUME RingInv, ListInv, StatInv, SumTypes, NumSlots(run) \in Nat, ReporterStep
  PROVE  SumTypes'
<1>1. run' = run /\ NumSlots(run)' = NumSlots(run)
  BY DEF ReporterStep, Top, Wake, Again, Process, ProcessTransfer, Loop, Move, Handle,
         PrintInterval, NoInterval, PrintFinal, Closing, Check, ReporterOnly, NumSlots
<1>2. CASE PrintInterval
  <2>1. Subject \in Agent /\ rpc = "interval"
    BY <1>2, OnSubject DEF PrintInterval, OnReport
  <2>2. ~Ended(Subject)
    BY <2>1 DEF Ended, RingInv, AgentInv, Reading, OnReport
  <2>3. stats[Subject] \in Stats /\ stats[Subject].last.total <= stats[Subject].total
        /\ stats[Subject].last.ooo <= stats[Subject].ooo
    BY <2>1, <2>2 DEF StatInv, AgentStats, Printed, Tiles
  <2>4. IntervalReport(stats[Subject]) \in Line /\ AddToSum(IntervalReport(stats[Subject]))
    BY <1>2, <2>3, IntervalLine DEF PrintInterval
  <2> QED BY <1>1, <2>4, SumsKeepTypes
<1>3. CASE PrintFinal
  <2>1. Subject \in Agent
    BY <1>3, OnSubject DEF PrintFinal, OnReport
  <2>2. FinalReport(stats[Subject]) \in Line /\ AddToSum(FinalReport(stats[Subject]))
    BY <1>3, <2>1, FinalLine DEF PrintFinal, StatInv
  <2> QED BY <1>1, <2>2, SumsKeepTypes
<1>4. CASE ~PrintInterval /\ ~PrintFinal
  <2>1. slots' = slots /\ sums' = sums
    BY <1>4 DEF ReporterStep, Top, Wake, Again, Process, ProcessTransfer, Loop, Move, Handle,
           NoInterval, Closing, Check, printVars
  <2> QED BY <1>1, <2>1 DEF SumTypes
<1> QED BY <1>2, <1>3, <1>4

LEMMA ReporterKeepsRest ==
  ASSUME RestTypes, ReporterStep
  PROVE  RestTypes'
<1>1. UNCHANGED <<index, agentindex, data, threads, counted>>
  BY DEF ReporterStep, Top, Wake, Again, Process, ProcessTransfer, Loop, Move, Handle,
         PrintInterval, NoInterval, PrintFinal, Closing, Check, ReporterOnly, groupVars
<1>2. doneWait' = doneWait \/ \E a \in doneWait : doneWait' = doneWait \ {a}
  BY DEF ReporterStep, Top, Wake, Again, Process, ProcessTransfer, Loop, Move, Handle,
         PrintInterval, NoInterval, PrintFinal, Closing, Check, Finish, SignalAgent
<1> QED BY <1>1, <1>2 DEF RestTypes

(* Where an agent's steps take the indices.                                      *)
LEMMA RingStepsKeepRest ==
  ASSUME RingInv, RestTypes, NEW a \in Agent, ReportPacket(a) \/ EndReport(a)
  PROVE  RestTypes'
<1>1. UNCHANGED <<run, threads, counted>>
  BY DEF ReportPacket, ReadIndex, Wrap, Full, Sleep, Write, Publish, EndReport, AgentOnly, groupVars
<1>2. /\ N \in Nat /\ N >= 3 /\ 0 \in -1 .. N /\ -1 \in -1 .. N
      /\ reporterindex[a] \in -1 .. N - 1
  BY RingAssumption DEF RingInv, RingTypes
<1>3. CASE ReadIndex(a)
  BY <1>1, <1>2, <1>3 DEF ReadIndex, RestTypes
<1>4. CASE Wrap(a) \/ EndReport(a)
  BY <1>1, <1>2, <1>4 DEF Wrap, EndReport, RestTypes
<1>5. CASE Full(a) \/ Sleep(a)
  BY <1>1, <1>5 DEF Full, Sleep, RestTypes
<1>6. CASE Write(a)
  <2>1. sent[a] + 1 \in Nat
    BY DEF RingInv, RingTypes
  <2> QED BY <1>1, <1>6, <2>1 DEF Write, RestTypes
<1>7. CASE Publish(a)
  <2>1. agentindex[a] \in 0 .. N - 1
    <3>1. pc[a] = "publish"
      BY <1>7 DEF Publish
    <3>2. reporterindex[a] # -1
      BY <3>1, StillOpen DEF InRing
    <3> QED BY <1>2, <3>1, <3>2 DEF RingInv, AgentInv, Ring, Copy
  <2>2. agentindex[a] + 1 \in -1 .. N
    BY <1>2, <2>1
  <2> QED BY <1>1, <1>7, <2>2 DEF Publish, RestTypes
<1> QED BY <1>3, <1>4, <1>5, <1>6, <1>7 DEF ReportPacket

LEMMA BarrierStepsKeepRest ==
  ASSUME BarrierInv, RestTypes, NEW a \in Agent,
         \/ Start(a) \/ InitConnection(a) \/ Barrier(a) \/ LeaveBarrier(a) \/ ReturnEarly(a) \/ CountIn(a)
         \/ CountedIn(a) \/ InitReport(a) \/ ReportServerUDP(a) \/ GetReport(a)
  PROVE  RestTypes'
<1>1. UNCHANGED <<index, agentindex, data, doneWait>>
  BY DEF Start, InitConnection, Barrier, LeaveBarrier, ReturnEarly, CountIn, CountedIn,
         InitReport,
         ReportServerUDP, GetReport, ringVars
<1>2. CASE Barrier(a)
  <2>1. /\ Grouped /\ a \in run.agents /\ a \notin Outside /\ IsFiniteSet(run.agents)
    BY <1>2, ScenarioAssumption DEF Barrier, Outside, BarrierInv
  <2>2. threads = Cardinality(run.agents \ Outside)
    BY <2>1 DEF BarrierInv
  <2>3. threads - 1 \in Nat
    <3> DEFINE S == run.agents \ Outside
    <3>1. IsFiniteSet(S) /\ a \in S
      BY <2>1, FS_Difference
    <3>2. threads = Cardinality(S)
      BY <2>2
    <3> HIDE DEF S
    <3>3. Cardinality(S) \in Nat /\ Cardinality(S \ {a}) \in Nat
          /\ Cardinality(S \ {a}) = Cardinality(S) - 1
      BY <3>1, OneLess
    <3> QED BY <3>2, <3>3
  <2> QED BY <1>1, <1>2, <2>3 DEF Barrier, RestTypes, groupVars
<1>3. CASE LeaveBarrier(a) \/ ReturnEarly(a) \/ CountedIn(a)
  <2>1. counted' = counted /\ threads' \in {threads, threads + 1, counted[a] + 1}
    BY <1>3 DEF LeaveBarrier, ReturnEarly, CountedIn
  <2> QED BY <1>1, <2>1 DEF RestTypes
<1>4. CASE CountIn(a)
  BY <1>1, <1>4 DEF CountIn, RestTypes
<1>5. CASE Start(a) \/ InitConnection(a) \/ InitReport(a) \/ ReportServerUDP(a) \/ GetReport(a)
  BY <1>1, <1>5 DEF Start, InitConnection, InitReport, ReportServerUDP, GetReport, RestTypes, groupVars
<1> QED BY <1>2, <1>3, <1>4, <1>5

(* The types of the slots, the counters and the ring's indices.                  *)
THEOREM RestIsTyped == Spec => [](RestTypes /\ SumTypes)
<1>1. Init => RestTypes /\ SumTypes
  <2> SUFFICES ASSUME Init PROVE RestTypes /\ SumTypes
    OBVIOUS
  <2>1. run \in Scenario /\ IsFiniteSet(run.agents)
    BY ScenarioAssumption DEF Init
  <2>2. Cardinality(run.agents) \in Nat
    BY <2>1, FS_CardinalityType
  <2>3. RestTypes
    BY <2>2, RingAssumption DEF Init, RestTypes
  <2>4. FreeSlot \in Slot
    BY DEF FreeSlot, Slot
  <2>5. SumTypes
    BY <2>4, EmptySeq DEF Init, SumTypes
  <2> QED BY <2>3, <2>5
<1>2. RingInv => NumSlots(run) \in Nat
  <2> SUFFICES ASSUME RingInv PROVE NumSlots(run) \in Nat
    OBVIOUS
  <2>1. IsFiniteSet(run.agents)
    BY ScenarioAssumption DEF RingInv, RingTypes
  <2> QED BY <2>1, FS_CardinalityType DEF NumSlots
<1>3. RingInv /\ ListInv /\ StatInv /\ BarrierInv /\ RestTypes /\ SumTypes /\ [Next]_vars
        => RestTypes' /\ SumTypes'
  <2> SUFFICES ASSUME RingInv, ListInv, StatInv, BarrierInv, RestTypes, SumTypes, [Next]_vars
               PROVE  RestTypes' /\ SumTypes'
    OBVIOUS
  <2>1. ASSUME NEW a \in Agent, AgentStep(a) PROVE RestTypes' /\ SumTypes'
    <3>1. RestTypes'
      BY <2>1, RingStepsKeepRest, BarrierStepsKeepRest DEF AgentStep, Scheduled
    <3>2. run' = run /\ slots' = slots /\ sums' = sums
      BY <2>1 DEF AgentStep, Scheduled, ReportPacket, Start, InitConnection, Barrier,
         LeaveBarrier, ReturnEarly, CountIn,
         CountedIn, InitReport, ReadIndex, Wrap, Full, Sleep, Write, Publish, ReportServerUDP,
         GetReport, EndReport, AgentOnly, printVars
    <3> QED BY <3>1, <3>2 DEF SumTypes, NumSlots
  <2>2. CASE ReporterStep
    BY <1>2, <2>2, ReporterKeepsSums, ReporterKeepsRest
  <2>3. CASE JoinAll \/ UNCHANGED vars
    BY <2>3 DEF JoinAll, vars, ringVars, groupVars, printVars, RestTypes, SumTypes, NumSlots
  <2> QED BY <2>1, <2>2, <2>3 DEF Next
<1> QED BY <1>1, <1>3, RingIsSafe, ListIsSafe, StatisticsAreKept, BarrierIsKept, PTL DEF Spec

(* The types, the ranges of the ring's indices and of the lines that sum up a    *)
(* group among them.                                                             *)
THEOREM ReporterTypes == Spec => []TypeOK
<1>1. RingInv /\ ListInv /\ PendingInv /\ BarrierInv /\ RestTypes /\ SumTypes => TypeOK
  <2> SUFFICES ASSUME RingInv, ListInv, PendingInv, BarrierInv, RestTypes, SumTypes
               PROVE  TypeOK
    OBVIOUS
  <2>1. pc \in [Agent -> AgentPC]
    BY DEF RingInv, RingTypes, BeforeRing, InRing, AfterRing, AgentPC
  <2>2. ignored \in BOOLEAN /\ ended \in BOOLEAN
    BY Zenon DEF PendingInv, Waiters
  <2>3. root \in Seq(Report) /\ todo \in Seq(Report) /\ rpc \in ReporterPC
    BY DEF ListInv, ListTypes, OnceIn
  <2>4. run \in Scenario /\ reporterindex \in [Agent -> -1 .. N - 1]
        /\ sent \in [Agent -> Nat] /\ got \in [Agent -> Nat]
    BY DEF RingInv, RingTypes
  <2>5. started \in BOOLEAN /\ early \in SUBSET Agent
    BY Zenon DEF BarrierInv
  <2> QED BY <2>1, <2>2, <2>3, <2>4, <2>5 DEF TypeOK, RestTypes, SumTypes, Line
<1> QED BY <1>1, RingIsSafe, ListIsSafe, PendingIsKnown, BarrierIsKept, RestIsTyped, PTL

--------------------------------------------------------------------------------
(* The lines that sum up a group.                                                *)

(* The lines r printed so far: their starts, the lines of a that start at t, the  *)
(* first of them; c adds up those of the agents in S.                            *)
Starts(r) == UNION {{r[a][i].start : i \in DOMAIN r[a]} : a \in Agent}
LinesOf(r, a, t) == {i \in DOMAIN r[a] : r[a][i].start = t}
LineOf(r, a, t) == r[a][Min(LinesOf(r, a, t))]
Fields == {"len", "cnt", "ooo", "err"}
Values(r, t, f, S) == [a \in S |-> LineOf(r, a, t)[f]]
Tally(r, c, S) ==
    /\ \A a \in S : LinesOf(r, a, c.start) # {}
    /\ \A f \in Fields : c[f] = SumFunctionOnSet(Values(r, c.start, f, S), S)

OneLineMore(r, q, a, x) ==
    /\ r \in [Agent -> Seq(Line)] /\ a \in Agent /\ x \in Line
    /\ q = [r EXCEPT ![a] = Append(r[a], x)]

LEMMA FirstLine ==
  ASSUME NEW r, r \in [Agent -> Seq(Line)], NEW a \in Agent, NEW t, LinesOf(r, a, t) # {}
  PROVE  /\ Min(LinesOf(r, a, t)) \in LinesOf(r, a, t)
         /\ \A i \in LinesOf(r, a, t) : Min(LinesOf(r, a, t)) <= i
<1> DEFINE T == LinesOf(r, a, t)
<1>1. T \subseteq Nat /\ T # {}
  <2>1. r[a] \in Seq(Line)
    OBVIOUS
  <2>2. DOMAIN r[a] = 1 .. Len(r[a]) /\ Len(r[a]) \in Nat
    BY <2>1, LenProperties
  <2> QED BY <2>2 DEF LinesOf
<1> HIDE DEF T
<1>2. PICK n \in T : \A m \in T : n <= m
  BY <1>1, LeastNumber
<1>3. Min(T) \in T /\ \A m \in T : Min(T) <= m
  BY <1>2 DEF Min
<1> QED BY <1>3 DEF T

LEMMA NewLine ==
  ASSUME NEW r, NEW q, NEW a, NEW x, OneLineMore(r, q, a, x)
  PROVE  /\ q \in [Agent -> Seq(Line)] /\ DOMAIN q = Agent
         /\ \A b \in Agent : b # a => q[b] = r[b]
         /\ q[a] = Append(r[a], x) /\ Len(r[a]) \in Nat
         /\ DOMAIN r[a] = 1 .. Len(r[a]) /\ DOMAIN q[a] = 1 .. Len(r[a]) + 1
         /\ q[a][Len(r[a]) + 1] = x
         /\ \A i \in 1 .. Len(r[a]) : q[a][i] = r[a][i]
<1>1. r \in [Agent -> Seq(Line)] /\ a \in Agent /\ x \in Line
      /\ q = [r EXCEPT ![a] = Append(r[a], x)] /\ r[a] \in Seq(Line)
  BY DEF OneLineMore
<1>2. /\ Append(r[a], x) \in Seq(Line) /\ Len(r[a]) \in Nat
      /\ Len(Append(r[a], x)) = Len(r[a]) + 1
      /\ Append(r[a], x)[Len(r[a]) + 1] = x
      /\ \A i \in 1 .. Len(r[a]) : Append(r[a], x)[i] = r[a][i]
  BY <1>1, AppendProperties, LenProperties
<1>3. q[a] = Append(r[a], x)
  BY <1>1
<1>4. DOMAIN r[a] = 1 .. Len(r[a]) /\ DOMAIN q[a] = 1 .. Len(r[a]) + 1
  BY <1>1, <1>2, <1>3, LenProperties
<1>5. q \in [Agent -> Seq(Line)]
  BY <1>1, <1>2
<1> QED BY <1>1, <1>2, <1>3, <1>4, <1>5

(* A line once printed stays the one found.                                      *)
LEMMA LineStays ==
  ASSUME NEW r, NEW q, NEW a, NEW x, OneLineMore(r, q, a, x),
         NEW b \in Agent, NEW t, LinesOf(r, b, t) # {}
  PROVE  LinesOf(q, b, t) # {} /\ LineOf(q, b, t) = LineOf(r, b, t)
<1>1. CASE b # a
  <2>1. q[b] = r[b]
    BY <1>1, NewLine
  <2>2. LinesOf(q, b, t) = LinesOf(r, b, t)
    BY <2>1 DEF LinesOf
  <2> QED BY <2>1, <2>2 DEF LineOf
<1>2. CASE b = a
  <2> DEFINE L == Len(r[a])
             m == Min(LinesOf(r, a, t))
             n == Min(LinesOf(q, a, t))
  <2>1. /\ r \in [Agent -> Seq(Line)] /\ q \in [Agent -> Seq(Line)] /\ L \in Nat
        /\ DOMAIN r[a] = 1 .. L /\ DOMAIN q[a] = 1 .. L + 1
        /\ \A i \in 1 .. L : q[a][i] = r[a][i]
    BY NewLine DEF OneLineMore
  <2>2. m \in LinesOf(r, a, t) /\ \A i \in LinesOf(r, a, t) : m <= i
    BY <1>2, <2>1, FirstLine
  <2>3. m \in 1 .. L /\ r[a][m].start = t
    BY <2>1, <2>2 DEF LinesOf
  <2> HIDE DEF m, L
  <2>4. m \in LinesOf(q, a, t)
    BY <2>1, <2>3 DEF LinesOf
  <2> USE DEF m
  <2>5. n \in LinesOf(q, a, t) /\ \A i \in LinesOf(q, a, t) : n <= i
    BY <1>2, <2>1, <2>4, FirstLine
  <2>6. n \in 1 .. L + 1 /\ q[a][n].start = t /\ n <= m
    BY <2>1, <2>4, <2>5 DEF LinesOf
  <2>7. n \in 1 .. L
    BY <2>1, <2>3, <2>6
  <2>8. n \in LinesOf(r, a, t)
    BY <2>1, <2>6, <2>7 DEF LinesOf
  <2>9. m = n
    BY <2>1, <2>2, <2>3, <2>6, <2>7, <2>8
  <2>10. q[a][n] = r[a][m]
    BY <2>1, <2>3, <2>9
  <2> HIDE DEF m, n
  <2> QED BY <1>2, <2>4, <2>10 DEF LineOf, m, n
<1> QED BY <1>1, <1>2

LEMMA LineFound ==
  ASSUME NEW r, NEW q, NEW a, NEW x, OneLineMore(r, q, a, x), LinesOf(r, a, x.start) = {}
  PROVE  LinesOf(q, a, x.start) # {} /\ LineOf(q, a, x.start) = x
<1> DEFINE L == Len(r[a])
<1>1. /\ q \in [Agent -> Seq(Line)] /\ L \in Nat /\ a \in Agent
      /\ DOMAIN r[a] = 1 .. L /\ DOMAIN q[a] = 1 .. L + 1
      /\ q[a][L + 1] = x
      /\ \A i \in 1 .. L : q[a][i] = r[a][i]
  BY NewLine DEF OneLineMore
<1> HIDE DEF L
<1>2. \A i \in 1 .. L : r[a][i].start # x.start
  BY <1>1 DEF LinesOf
<1>3. LinesOf(q, a, x.start) = {L + 1}
  <2>1. L + 1 \in LinesOf(q, a, x.start)
    BY <1>1 DEF LinesOf
  <2>2. ASSUME NEW i \in LinesOf(q, a, x.start) PROVE i = L + 1
    <3>1. i \in 1 .. L + 1 /\ q[a][i].start = x.start
      BY <1>1 DEF LinesOf
    <3> QED BY <1>1, <1>2, <3>1
  <2> QED BY <2>1, <2>2
<1>4. Min(LinesOf(q, a, x.start)) = L + 1
  BY <1>1, <1>3, FirstLine
<1> QED BY <1>1, <1>3, <1>4 DEF LineOf

LEMMA StartsGrow ==
  ASSUME NEW r, NEW q, NEW a, NEW x, OneLineMore(r, q, a, x)
  PROVE  Starts(q) = Starts(r) \cup {x.start}
<1> DEFINE L == Len(r[a])
<1>1. /\ L \in Nat /\ a \in Agent
      /\ DOMAIN r[a] = 1 .. L /\ DOMAIN q[a] = 1 .. L + 1
      /\ q[a][L + 1] = x
      /\ \A i \in 1 .. L : q[a][i] = r[a][i]
      /\ \A b \in Agent : b # a => q[b] = r[b]
  BY NewLine DEF OneLineMore
<1> HIDE DEF L
<1>2. ASSUME NEW t PROVE t \in Starts(r) <=> \E b \in Agent : \E i \in DOMAIN r[b] : r[b][i].start = t
  BY DEF Starts
<1>3. ASSUME NEW t PROVE t \in Starts(q) <=> \E b \in Agent : \E i \in DOMAIN q[b] : q[b][i].start = t
  BY DEF Starts
<1>4. ASSUME NEW t \in Starts(r) PROVE t \in Starts(q)
  <2>1. PICK b \in Agent : \E i \in DOMAIN r[b] : r[b][i].start = t
    BY <1>2
  <2>2. PICK i \in DOMAIN r[b] : r[b][i].start = t
    BY <2>1
  <2>3. i \in DOMAIN q[b] /\ q[b][i].start = t
    BY <1>1, <2>2
  <2> QED BY <1>3, <2>3
<1>5. x.start \in Starts(q)
  <2>1. L + 1 \in DOMAIN q[a] /\ q[a][L + 1].start = x.start
    BY <1>1
  <2> QED BY <1>1, <1>3, <2>1
<1>6. ASSUME NEW t \in Starts(q), t # x.start PROVE t \in Starts(r)
  <2>1. PICK b \in Agent : \E i \in DOMAIN q[b] : q[b][i].start = t
    BY <1>3
  <2>2. PICK i \in DOMAIN q[b] : q[b][i].start = t
    BY <2>1
  <2>3. i \in DOMAIN r[b] /\ r[b][i].start = t
    BY <1>1, <1>6, <2>2
  <2> QED BY <1>2, <2>3
<1> QED BY <1>4, <1>5, <1>6

LEMMA LineFields ==
  ASSUME NEW x \in Line, NEW f \in Fields
  PROVE  x[f] \in Int
BY DEF Line, Fields

LEMMA ValuesAreInts ==
  ASSUME NEW r, r \in [Agent -> Seq(Line)], NEW S, S \subseteq Agent, NEW t,
         \A a \in S : LinesOf(r, a, t) # {}, NEW f \in Fields, NEW b \in S
  PROVE  Values(r, t, f, S)[b] = LineOf(r, b, t)[f] /\ Values(r, t, f, S)[b] \in Int
<1>1. Values(r, t, f, S)[b] = LineOf(r, b, t)[f]
  BY DEF Values
<1>2. b \in Agent /\ r[b] \in Seq(Line) /\ Min(LinesOf(r, b, t)) \in LinesOf(r, b, t)
  BY FirstLine
<1>3. Min(LinesOf(r, b, t)) \in 1 .. Len(r[b])
  BY <1>2, LenProperties DEF LinesOf
<1>4. LineOf(r, b, t) \in Line
  BY <1>2, <1>3, ElementOfSeq DEF LineOf
<1> QED BY <1>1, <1>4, LineFields

(* What is added up stays so when a line is printed, ...                         *)
LEMMA TallyStays ==
  ASSUME NEW r, NEW q, NEW a, NEW x, OneLineMore(r, q, a, x),
         NEW S, S \subseteq Agent, IsFiniteSet(S), NEW c, Tally(r, c, S)
  PROVE  Tally(q, c, S)
<1>1. \A b \in S : LinesOf(q, b, c.start) # {} /\ LineOf(q, b, c.start) = LineOf(r, b, c.start)
  BY LineStays DEF Tally
<1>2. ASSUME NEW f \in Fields
      PROVE  SumFunctionOnSet(Values(q, c.start, f, S), S) = SumFunctionOnSet(Values(r, c.start, f, S), S)
  <2>1. \A b \in S : Values(q, c.start, f, S)[b] = Values(r, c.start, f, S)[b]
    BY <1>1 DEF Values
  <2> QED BY <2>1, SumOfSame
<1> QED BY <1>1, <1>2 DEF Tally

(* ... and the line can be added to it.                                          *)
LEMMA TallyGrows ==
  ASSUME NEW r, NEW q, NEW a, NEW x, OneLineMore(r, q, a, x),
         NEW S, S \subseteq Agent, IsFiniteSet(S), NEW c, c \in Slot, Tally(r, c, S),
         c.start = x.start, LinesOf(r, a, x.start) = {}
  PROVE  a \notin S /\ Tally(q, Added(c, x), S \cup {a})
<1> DEFINE T == S \cup {a}
           d == Added(c, x)
<1>1. a \notin S /\ a \in Agent /\ T \subseteq Agent /\ q \in [Agent -> Seq(Line)] /\ x \in Line
  BY NewLine DEF Tally, OneLineMore
<1>2. d.start = x.start /\ \A f \in Fields : d[f] = c[f] + x[f]
  <2>1. /\ Added(c, x).start = c.start
        /\ Added(c, x).len = c.len + x.len /\ Added(c, x).cnt = c.cnt + x.cnt
        /\ Added(c, x).ooo = c.ooo + x.ooo /\ Added(c, x).err = c.err + x.err
    BY DEF Slot, Added
  <2> HIDE DEF d
  <2> QED BY <2>1 DEF Fields, d
<1> HIDE DEF d
<1>3. LinesOf(q, a, x.start) # {} /\ LineOf(q, a, x.start) = x
  BY LineFound
<1>4. Tally(q, c, S)
  BY TallyStays
<1>5. \A b \in T : LinesOf(q, b, x.start) # {}
  BY <1>3, <1>4 DEF Tally
<1>6. ASSUME NEW f \in Fields
      PROVE  SumFunctionOnSet(Values(q, x.start, f, T), T) = d[f]
  <2> DEFINE v == Values(q, x.start, f, S)
             w == Values(q, x.start, f, T)
  <2>1. Ints(v, S)
    <3>1. \A b \in S : LinesOf(q, b, x.start) # {}
      BY <1>5
    <3>2. \A b \in S : v[b] \in Int
      BY <1>1, <3>1, ValuesAreInts
    <3> QED BY <3>2 DEF Ints
  <2>2. Agree(v, w, S)
    BY DEF Agree, Values
  <2>3. w[a] = x[f]
    BY <1>3 DEF Values
  <2>4. w[a] \in Int
    BY <1>1, <2>3, LineFields
  <2>5. c[f] = SumFunctionOnSet(v, S)
    BY <1>4 DEF Tally
  <2> HIDE DEF v, w
  <2>6. SumFunctionOnSet(w, T) = SumFunctionOnSet(v, S) + w[a]
    BY <1>1, <2>1, <2>2, <2>4, SumGrown
  <2> QED BY <1>2, <2>3, <2>5, <2>6 DEF w
<1> QED BY <1>1, <1>2, <1>5, <1>6 DEF Tally, d

(* A slot is opened with one line.                                               *)
LEMMA TallyOfOne ==
  ASSUME NEW r, NEW q, NEW a, NEW x, OneLineMore(r, q, a, x), LinesOf(r, a, x.start) = {}
  PROVE  Tally(q, Opened(x), {a})
<1> DEFINE d == Opened(x)
<1>1. a \in Agent /\ q \in [Agent -> Seq(Line)] /\ x \in Line
  BY NewLine DEF OneLineMore
<1>2. d.start = x.start /\ \A f \in Fields : d[f] = x[f]
  BY DEF Opened, Fields
<1> HIDE DEF d
<1>3. LinesOf(q, a, x.start) # {} /\ LineOf(q, a, x.start) = x
  BY LineFound
<1>4. ASSUME NEW f \in Fields
      PROVE  SumFunctionOnSet(Values(q, x.start, f, {a}), {a}) = d[f]
  <2> DEFINE w == Values(q, x.start, f, {a})
  <2>1. w[a] = x[f]
    BY <1>3 DEF Values
  <2>2. w[a] \in Int
    BY <1>1, <2>1, LineFields
  <2> HIDE DEF w
  <2>3. {} \cup {a} = {a} /\ IsFiniteSet({}) /\ a \notin {} /\ Ints(w, {}) /\ Agree(w, w, {})
    BY FS_EmptySet DEF Ints, Agree
  <2>4. SumFunctionOnSet(w, {} \cup {a}) = SumFunctionOnSet(w, {}) + w[a]
    BY <2>2, <2>3, SumGrown
  <2>5. SumFunctionOnSet(w, {}) = 0
    BY SumOfNone
  <2> QED BY <1>2, <2>1, <2>2, <2>3, <2>4, <2>5 DEF w
<1> QED BY <1>2, <1>3, <1>4 DEF Tally, d

(* Its start and its figures are all that counts.                                *)
LEMMA SameTally ==
  ASSUME NEW r, NEW c, NEW S, Tally(r, c, S), NEW final
  PROVE  Tally(r, SumOf(c, final), S) /\ SumOf(c, final).start = c.start
<1>1. SumOf(c, final).start = c.start /\ \A f \in Fields : SumOf(c, final)[f] = c[f]
  BY DEF SumOf, Fields
<1> QED BY <1>1 DEF Tally

--------------------------------------------------------------------------------
(* No two slots are for the same start.                                          *)
Distinct(u) == \A i, j \in DOMAIN u : u[i].start = u[j].start /\ u[i].start # -1 => i = j

--------------------------------------------------------------------------------
(* Starts at which only one line of each stream is printed.                      *)
Regular(s, t) == t \in Nat /\ (t > 0 \/ s.interval = 0)

(* P[i] are the streams counted in slot i, M[i] those of sum i; u and v are the  *)
(* slots and sums, r the lines and s the scenario.                               *)
Shared(s, r, u, v, P, M) ==
    /\ P \in [DOMAIN u -> SUBSET s.agents] /\ M \in [DOMAIN v -> SUBSET s.agents]
    /\ \A i \in DOMAIN u : Regular(s, u[i].start) =>
         Tally(r, u[i], P[i]) /\ Cardinality(P[i]) = u[i].free
    /\ \A i \in DOMAIN v : Regular(s, v[i].start) =>
         Tally(r, v[i], M[i]) /\ Cardinality(M[i]) >= 2
    /\ \A i \in DOMAIN u, j \in DOMAIN v :
         Regular(s, v[j].start) /\ u[i].start = v[j].start => P[i] \cap M[j] = {}
    /\ \A i, j \in DOMAIN v :
         i # j /\ Regular(s, v[i].start) /\ v[i].start = v[j].start => M[i] \cap M[j] = {}

(* Stream a prints x.                                                            *)
Prints(s, r, q, a, x) ==
    /\ OneLineMore(r, q, a, x)
    /\ s.agents \subseteq Agent /\ IsFiniteSet(s.agents) /\ a \in s.agents
    /\ Regular(s, x.start) => LinesOf(r, a, x.start) = {}

LEMMA SharedStays ==
  ASSUME NEW s, NEW r, NEW q, NEW a, NEW x, Prints(s, r, q, a, x),
         NEW u, NEW v, NEW P, NEW M, Shared(s, r, u, v, P, M)
  PROVE  Shared(s, q, u, v, P, M)
<1>1. OneLineMore(r, q, a, x)
  BY DEF Prints
<1>2. \A S \in SUBSET s.agents : S \subseteq Agent /\ IsFiniteSet(S)
  BY FS_Subset DEF Prints
<1>3. \A c : \A S \in SUBSET s.agents : Tally(r, c, S) => Tally(q, c, S)
  BY <1>1, <1>2, TallyStays
<1> QED BY <1>3 DEF Shared

(* a is not among those counted at the start of the line.                        *)
LEMMA NotCounted ==
  ASSUME NEW s, NEW r, NEW q, NEW a, NEW x, Prints(s, r, q, a, x), Regular(s, x.start),
         NEW c, NEW S, Tally(r, c, S), c.start = x.start
  PROVE  a \notin S
BY DEF Prints, Tally

LEMMA SharedOpened ==
  ASSUME NEW s, NEW r, NEW q, NEW a, NEW x, Prints(s, r, q, a, x),
         NEW n, NEW u, u \in [1 .. n -> Slot], NEW v, NEW P, NEW M, Shared(s, r, u, v, P, M),
         NEW k \in 1 .. n, NEW w, w = [u EXCEPT ![k] = Opened(x)]
  PROVE  \E Q : Shared(s, q, w, v, Q, M)
<1> DEFINE Q == [P EXCEPT ![k] = {a}]
<1>1. Shared(s, q, u, v, P, M)
  BY SharedStays
<1>2. /\ DOMAIN w = 1 .. n /\ w[k] = Opened(x)
      /\ \A i \in 1 .. n : i # k => w[i] = u[i]
      /\ DOMAIN u = 1 .. n
  OBVIOUS
<1>3. Opened(x).start = x.start /\ Opened(x).free = 1
  BY DEF Opened
<1>4. /\ P \in [1 .. n -> SUBSET s.agents] /\ a \in s.agents
      /\ Q \in [1 .. n -> SUBSET s.agents] /\ Q[k] = {a}
      /\ \A i \in 1 .. n : i # k => Q[i] = P[i]
  BY <1>1, <1>2 DEF Shared, Prints
<1> HIDE DEF Q
<1>5. Regular(s, x.start) => Tally(q, Opened(x), {a}) /\ Cardinality({a}) = 1
  BY TallyOfOne, FS_Singleton DEF Prints
<1>6. ASSUME NEW i \in DOMAIN w, Regular(s, w[i].start)
      PROVE  Tally(q, w[i], Q[i]) /\ Cardinality(Q[i]) = w[i].free
  <2>1. CASE i = k
    BY <1>2, <1>3, <1>4, <1>5, <1>6, <2>1
  <2>2. CASE i # k
    BY <1>1, <1>2, <1>4, <1>6, <2>2 DEF Shared
  <2> QED BY <2>1, <2>2
<1>7. ASSUME NEW i \in DOMAIN w, NEW j \in DOMAIN v, Regular(s, v[j].start), w[i].start = v[j].start
      PROVE  Q[i] \cap M[j] = {}
  <2>1. CASE i = k
    <3>1. Tally(r, v[j], M[j])
      BY <1>7 DEF Shared
    <3>2. a \notin M[j]
      BY <1>2, <1>3, <1>7, <2>1, <3>1, NotCounted
    <3> QED BY <1>4, <2>1, <3>2
  <2>2. CASE i # k
    BY <1>1, <1>2, <1>4, <1>7, <2>2 DEF Shared
  <2> QED BY <2>1, <2>2
<1>8. Shared(s, q, w, v, Q, M)
  BY <1>1, <1>2, <1>4, <1>6, <1>7 DEF Shared
<1> QED BY <1>8

(* What the slot k holds once x is added.                                        *)
LEMMA SlotGrows ==
  ASSUME NEW s, NEW r, NEW q, NEW a, NEW x, Prints(s, r, q, a, x), Regular(s, x.start),
         NEW c, c \in Slot, c.start = x.start,
         NEW S \in SUBSET s.agents, Tally(r, c, S), Cardinality(S) = c.free
  PROVE  Tally(q, Added(c, x), S \cup {a}) /\ Cardinality(S \cup {a}) = Added(c, x).free
<1>1. S \subseteq Agent /\ IsFiniteSet(S) /\ OneLineMore(r, q, a, x)
  BY FS_Subset DEF Prints
<1>2. a \notin S /\ Tally(q, Added(c, x), S \cup {a})
  BY <1>1, TallyGrows DEF Prints
<1>3. Cardinality(S \cup {a}) = Cardinality(S) + 1
  BY <1>1, <1>2, FS_AddElement
<1>4. Added(c, x).free = c.free + 1
  BY DEF Added, Slot
<1> QED BY <1>2, <1>3, <1>4

LEMMA SharedAdded ==
  ASSUME NEW s, NEW r, NEW q, NEW a, NEW x, Prints(s, r, q, a, x),
         NEW n, NEW u, u \in [1 .. n -> Slot], NEW v, NEW P, NEW M, Shared(s, r, u, v, P, M),
         NEW k \in 1 .. n, u[k].start = x.start, NEW c, c = Added(u[k], x),
         NEW w, w = [u EXCEPT ![k] = c]
  PROVE  \E Q : Shared(s, q, w, v, Q, M)
<1> DEFINE Q == [P EXCEPT ![k] = P[k] \cup {a}]
<1>1. Shared(s, q, u, v, P, M)
  BY SharedStays
<1>2. /\ DOMAIN w = 1 .. n /\ w[k] = c /\ u[k] \in Slot
      /\ \A i \in 1 .. n : i # k => w[i] = u[i]
      /\ DOMAIN u = 1 .. n
  OBVIOUS
<1>3. c.start = x.start
  BY DEF Added, Slot
<1>4. /\ P \in [1 .. n -> SUBSET s.agents] /\ a \in s.agents
      /\ Q \in [1 .. n -> SUBSET s.agents] /\ Q[k] = P[k] \cup {a}
      /\ \A i \in 1 .. n : i # k => Q[i] = P[i]
  BY <1>1, <1>2 DEF Shared, Prints
<1>5. Regular(s, x.start) => Tally(q, c, Q[k]) /\ Cardinality(Q[k]) = c.free
  <2> SUFFICES ASSUME Regular(s, x.start) PROVE Tally(q, c, Q[k]) /\ Cardinality(Q[k]) = c.free
    OBVIOUS
  <2>1. Tally(r, u[k], P[k]) /\ Cardinality(P[k]) = u[k].free /\ P[k] \in SUBSET s.agents
    BY <1>2, <1>4 DEF Shared
  <2> QED BY <1>2, <1>4, <2>1, SlotGrows
<1> HIDE DEF Q
<1>6. ASSUME NEW i \in DOMAIN w, Regular(s, w[i].start)
      PROVE  Tally(q, w[i], Q[i]) /\ Cardinality(Q[i]) = w[i].free
  <2>1. CASE i = k
    BY <1>2, <1>3, <1>5, <1>6, <2>1
  <2>2. CASE i # k
    BY <1>1, <1>2, <1>4, <1>6, <2>2 DEF Shared
  <2> QED BY <2>1, <2>2
<1>7. ASSUME NEW i \in DOMAIN w, NEW j \in DOMAIN v, Regular(s, v[j].start), w[i].start = v[j].start
      PROVE  Q[i] \cap M[j] = {}
  <2>1. CASE i = k
    <3>1. Tally(r, v[j], M[j]) /\ P[k] \cap M[j] = {}
      BY <1>2, <1>3, <1>7, <2>1 DEF Shared
    <3>2. a \notin M[j]
      BY <1>2, <1>3, <1>7, <2>1, <3>1, NotCounted
    <3> QED BY <1>4, <2>1, <3>1, <3>2
  <2>2. CASE i # k
    BY <1>1, <1>2, <1>4, <1>7, <2>2 DEF Shared
  <2> QED BY <2>1, <2>2
<1>8. Shared(s, q, w, v, Q, M)
  BY <1>1, <1>2, <1>4, <1>6, <1>7 DEF Shared
<1> QED BY <1>8

LEMMA SharedSummed ==
  ASSUME NEW s, NEW r, NEW q, NEW a, NEW x, Prints(s, r, q, a, x),
         NEW n, NEW u, u \in [1 .. n -> Slot], Distinct(u),
         NEW v, v \in Seq(Line), NEW P, NEW M, Shared(s, r, u, v, P, M),
         NEW k \in 1 .. n, u[k].start = x.start, NEW c, c = Added(u[k], x), c.free >= 2,
         NEW final, NEW w, w = [u EXCEPT ![k] = Released(c, final)],
         NEW y, y = Append(v, SumOf(c, final)), SumOf(c, final) \in Line
  PROVE  \E Q, K : Shared(s, q, w, y, Q, K)
<1> DEFINE L == Len(v)
           S == P[k] \cup {a}
           Q == [P EXCEPT ![k] = {}]
           K == [j \in 1 .. L + 1 |-> IF j = L + 1 THEN S ELSE M[j]]
           z == SumOf(c, final)
<1>1. Shared(s, q, u, v, P, M)
  BY SharedStays
<1>2. /\ DOMAIN w = 1 .. n /\ w[k] = Released(c, final) /\ u[k] \in Slot
      /\ \A i \in 1 .. n : i # k => w[i] = u[i]
      /\ DOMAIN u = 1 .. n
  OBVIOUS
<1>3. Released(c, final).start = -1 /\ c.start = x.start /\ z.start = x.start
  BY DEF Added, Slot, Released, SumOf
<1>4. /\ L \in Nat /\ DOMAIN v = 1 .. L /\ DOMAIN y = 1 .. L + 1
      /\ y[L + 1] = z /\ \A j \in 1 .. L : y[j] = v[j]
  BY AppendProperties, LenProperties
<1>5. /\ P \in [1 .. n -> SUBSET s.agents] /\ M \in [1 .. L -> SUBSET s.agents] /\ a \in s.agents
      /\ Q \in [1 .. n -> SUBSET s.agents] /\ S \in SUBSET s.agents
      /\ \A i \in 1 .. n : i # k => Q[i] = P[i]
  BY <1>1, <1>2, <1>4 DEF Shared, Prints
<1>6. K \in [1 .. L + 1 -> SUBSET s.agents] /\ K[L + 1] = S /\ \A j \in 1 .. L : K[j] = M[j]
  BY <1>4, <1>5
<1>7. Regular(s, x.start) => Tally(q, z, S) /\ Cardinality(S) >= 2
  <2> SUFFICES ASSUME Regular(s, x.start) PROVE Tally(q, z, S) /\ Cardinality(S) >= 2
    OBVIOUS
  <2>1. Tally(r, u[k], P[k]) /\ Cardinality(P[k]) = u[k].free /\ P[k] \in SUBSET s.agents
    BY <1>2, <1>5 DEF Shared
  <2>2. Tally(q, c, S) /\ Cardinality(S) = c.free
    BY <1>2, <2>1, SlotGrows
  <2> QED BY <2>2, SameTally
<1> HIDE DEF L, S, Q, K, z
<1>8. ASSUME NEW i \in DOMAIN w, Regular(s, w[i].start)
      PROVE  i # k /\ Tally(q, w[i], Q[i]) /\ Cardinality(Q[i]) = w[i].free
  <2>1. i # k
    BY <1>2, <1>3, <1>8 DEF Regular
  <2> QED BY <1>1, <1>2, <1>5, <1>8, <2>1 DEF Shared
<1>9. ASSUME NEW j \in DOMAIN y, Regular(s, y[j].start)
      PROVE  Tally(q, y[j], K[j]) /\ Cardinality(K[j]) >= 2
  <2>1. CASE j = L + 1
    BY <1>3, <1>4, <1>6, <1>7, <1>9, <2>1
  <2>2. CASE j # L + 1
    <3>1. j \in 1 .. L
      BY <1>4, <2>2
    <3> QED BY <1>1, <1>4, <1>6, <1>9, <3>1 DEF Shared
  <2> QED BY <2>1, <2>2
<1>10. ASSUME NEW i \in DOMAIN w, NEW j \in DOMAIN y, Regular(s, y[j].start), w[i].start = y[j].start
       PROVE  Q[i] \cap K[j] = {}
  <2>1. i # k /\ w[i] = u[i] /\ Q[i] = P[i] /\ i \in 1 .. n
    BY <1>2, <1>5, <1>8, <1>10
  <2>2. CASE j = L + 1
    <3>1. u[i].start = u[k].start /\ u[k].start # -1
      BY <1>3, <1>4, <1>10, <2>1, <2>2 DEF Regular
    <3> QED BY <1>2, <2>1, <3>1 DEF Distinct
  <2>3. CASE j # L + 1
    <3>1. j \in 1 .. L
      BY <1>4, <2>3
    <3> QED BY <1>1, <1>2, <1>4, <1>6, <1>10, <2>1, <3>1 DEF Shared
  <2> QED BY <2>2, <2>3
<1>11. ASSUME NEW j \in 1 .. L, Regular(s, x.start), v[j].start = x.start PROVE S \cap M[j] = {}
  <2>1. Tally(r, v[j], M[j]) /\ P[k] \cap M[j] = {}
    BY <1>2, <1>4, <1>11 DEF Shared
  <2>2. a \notin M[j]
    BY <1>11, <2>1, NotCounted
  <2> QED BY <2>1, <2>2 DEF S
<1>12. ASSUME NEW i \in DOMAIN y, NEW j \in DOMAIN y, i # j, Regular(s, y[i].start), y[i].start = y[j].start
       PROVE  K[i] \cap K[j] = {}
  <2>1. CASE i = L + 1
    <3>1. j \in 1 .. L
      BY <1>4, <1>12, <2>1
    <3> QED BY <1>3, <1>4, <1>6, <1>11, <1>12, <2>1, <3>1
  <2>2. CASE j = L + 1
    <3>1. i \in 1 .. L
      BY <1>4, <1>12, <2>2
    <3> QED BY <1>3, <1>4, <1>6, <1>11, <1>12, <2>2, <3>1
  <2>3. CASE i # L + 1 /\ j # L + 1
    <3>1. i \in 1 .. L /\ j \in 1 .. L
      BY <1>4, <2>3
    <3> QED BY <1>1, <1>4, <1>6, <1>12, <3>1 DEF Shared
  <2> QED BY <2>1, <2>2, <2>3
<1>13. Shared(s, q, w, y, Q, K)
  BY <1>2, <1>4, <1>5, <1>6, <1>8, <1>9, <1>10, <1>12 DEF Shared
<1> QED BY <1>13

(* No sum is printed twice of the same lines, by the streams counted in it.      *)
SumsShared(s, r, u, v) == Distinct(u) /\ \E P, M : Shared(s, r, u, v, P, M)

LEMMA LineIsAdded ==
  ASSUME SumTypes, NumSlots(run) \in Nat \ {0}, threads \in Nat, run' = run,
         NEW a, NEW x, Prints(run, reports, reports', a, x), AddToSum(x),
         SumsShared(run, reports, slots, sums)
  PROVE  SumsShared(run, reports', slots', sums')
<1> DEFINE n == NumSlots(run)
           k == SlotOf(x.start)
           c == Added(slots[k], x)
<1>1. /\ n \in Nat /\ n \in 1 .. n /\ slots \in [1 .. n -> Slot] /\ sums \in Seq(Line)
      /\ Len(slots) = n /\ x \in Line /\ x.start \in Nat /\ x.final \in BOOLEAN
  <2>1. n \in Nat /\ n # 0 /\ slots \in [1 .. n -> Slot] /\ sums \in Seq(Line)
    BY DEF SumTypes
  <2>2. Len(slots) = n
    <3>1. slots \in Seq(Slot)
      BY <2>1, SeqDef
    <3> QED BY <2>1, <3>1, LenProperties
  <2>3. x \in Line
    BY DEF Prints, OneLineMore
  <2> QED BY <2>1, <2>2, <2>3 DEF Line
<1>2. PICK P, M : Shared(run, reports, slots, sums, P, M)
  BY DEF SumsShared
<1>3. \A i, j \in 1 .. n : slots[i].start = slots[j].start /\ slots[i].start # -1 => i = j
  BY <1>1 DEF SumsShared, Distinct
<1> HIDE DEF n
<1>4. CASE ~run.multi \/ threads <= 1
  <2>1. slots' = slots /\ sums' = sums
    BY <1>4 DEF AddToSum
  <2>2. Shared(run, reports', slots, sums, P, M)
    BY <1>2, SharedStays
  <2> QED BY <2>1, <2>2 DEF SumsShared
<1>5. CASE ~(~run.multi \/ threads <= 1) /\ ~SumStarted(x.start)
  <2> DEFINE e == SlotTaken
  <2>1. slots' = [slots EXCEPT ![e] = Opened(x)] /\ sums' = sums
    BY <1>5 DEF AddToSum
  <2>2. e \in 1 .. n
    BY <1>1, SlotFound DEF SlotTaken
  <2>3. Opened(x).start = x.start
    BY DEF Opened
  <2>4. \A i \in 1 .. n : slots[i].start # x.start
    BY <1>1, <1>5 DEF SumStarted
  <2> HIDE DEF e
  <2>5. DOMAIN slots' = 1 .. n /\ slots'[e].start = x.start /\ \A i \in 1 .. n : i # e => slots'[i] = slots[i]
    BY <1>1, <2>1, <2>2, <2>3
  <2>6. Distinct(slots')
    BY <1>3, <2>4, <2>5 DEF Distinct
  <2>7. \E Q : Shared(run, reports', slots', sums, Q, M)
    BY <1>1, <1>2, <2>1, <2>2, SharedOpened
  <2> QED BY <2>1, <2>6, <2>7 DEF SumsShared
<1>6. CASE ~(~run.multi \/ threads <= 1) /\ SumStarted(x.start)
  <2>1. k \in 1 .. n /\ slots[k].start = x.start /\ slots[k] \in Slot
    BY <1>1, <1>6, SlotFound
  <2>2. c \in Slot /\ c.start = x.start /\ SumOf(c, x.final) \in Line
    BY <1>1, <2>1, SlotRecords
  <2>3. \/ /\ c.free = threads
           /\ slots' = [slots EXCEPT ![k] = Released(c, x.final)] /\ sums' = Append(sums, SumOf(c, x.final))
        \/ slots' = [slots EXCEPT ![k] = c] /\ sums' = sums
    BY <1>6 DEF AddToSum
  <2>4. threads >= 2
    BY <1>6
  <2>5. Released(c, x.final).start = -1
    BY <2>2 DEF Released, Slot
  <2> DEFINE K == k
             C == c
  <2>0. C = Added(slots[K], x)
    OBVIOUS
  <2> HIDE DEF K, C
  <2>6. /\ DOMAIN slots' = 1 .. n /\ slots'[K].start \in {-1, x.start}
        /\ \A i \in 1 .. n : i # K => slots'[i] = slots[i]
    BY <1>1, <2>1, <2>2, <2>3, <2>5 DEF K, C
  <2>7. Distinct(slots')
    <3> SUFFICES ASSUME NEW i \in 1 .. n, NEW j \in 1 .. n,
                        slots'[i].start = slots'[j].start, slots'[i].start # -1
                 PROVE  i = j
      BY <2>6 DEF Distinct
    <3>1. slots'[i].start = slots[i].start /\ slots'[j].start = slots[j].start
      BY <2>1, <2>6 DEF K
    <3> QED BY <1>3, <3>1
  <2>8. CASE /\ c.free = threads
             /\ slots' = [slots EXCEPT ![k] = Released(c, x.final)]
             /\ sums' = Append(sums, SumOf(c, x.final))
    <3>1. C.free >= 2 /\ SumOf(C, x.final) \in Line /\ K \in 1 .. n /\ slots[K].start = x.start
          /\ slots' = [slots EXCEPT ![K] = Released(C, x.final)] /\ sums' = Append(sums, SumOf(C, x.final))
      BY <2>1, <2>2, <2>4, <2>8 DEF K, C
    <3>2. Distinct(slots)
      BY DEF SumsShared
    <3>3. \E Q, Y : Shared(run, reports', slots', sums', Q, Y)
      BY <1>1, <1>2, <2>0, <3>1, <3>2, SharedSummed
    <3> QED BY <2>7, <3>3 DEF SumsShared
  <2>9. CASE slots' = [slots EXCEPT ![k] = c] /\ sums' = sums
    <3>1. K \in 1 .. n /\ slots[K].start = x.start /\ slots' = [slots EXCEPT ![K] = C]
      BY <2>1, <2>9 DEF K, C
    <3>2. \E Q : Shared(run, reports', slots', sums, Q, M)
      BY <1>1, <1>2, <2>0, <3>1, SharedAdded
    <3>3. sums' = sums
      BY <2>9
    <3> QED BY <2>7, <3>2, <3>3 DEF SumsShared
  <2> QED BY <2>3, <2>8, <2>9
<1> QED BY <1>4, <1>5, <1>6

(* Threads that are not in the run send nothing; without interval reports the    *)
(* totals are the only line.                                                     *)
SumsInv ==
    /\ \A a \in Agent \ run.agents : sent[a] = 0
    /\ run.interval = 0 => \A a \in Agent : ~Ended(a) => reports[a] = <<>>
    /\ SumsShared(run, reports, slots, sums)

LEMMA InitSums == Init => SumsInv
<1> SUFFICES ASSUME Init PROVE SumsInv
  OBVIOUS
<1> DEFINE n == NumSlots(run)
           P == [i \in 1 .. n |-> {}]
<1>1. /\ slots = [i \in 1 .. n |-> FreeSlot] /\ sums = <<>> /\ FreeSlot.start = -1
      /\ sent = [a \in Agent |-> 0] /\ reports = [a \in Agent |-> <<>>]
  BY DEF Init, FreeSlot
<1> HIDE DEF n
<1>2. DOMAIN slots = 1 .. n /\ \A i \in 1 .. n : slots[i].start = -1
  BY <1>1
<1>3. DOMAIN sums = {}
  BY <1>1
<1>4. Shared(run, reports, slots, sums, P, [i \in {} |-> {}])
  BY <1>2, <1>3 DEF Shared, Regular
<1>5. Distinct(slots)
  BY <1>2 DEF Distinct
<1> QED BY <1>1, <1>4, <1>5 DEF SumsInv, SumsShared

(* The reporter is only ever on the report of a thread in the run, ...           *)
LEMMA SubjectRuns ==
  ASSUME RingInv, ListInv, StatInv, SumsInv, rpc \in {"interval", "final"}
  PROVE  /\ Subject \in run.agents /\ Subject \in Agent /\ ~Ended(Subject)
         /\ run.agents \subseteq Agent /\ IsFiniteSet(run.agents) /\ run.interval \in Nat
<1> DEFINE a == Subject
<1>1. a \in Agent /\ reporterindex[a] # -1 /\ run \in Scenario /\ got \in [Agent -> Nat]
      /\ sent \in [Agent -> Nat] /\ reporterindex \in [Agent -> -1 .. N - 1]
  BY OnSubject DEF OnReport, RingInv, RingTypes, AgentInv, Reading
<1>2. run.agents \subseteq Agent /\ IsFiniteSet(run.agents) /\ run.interval \in Nat
  BY <1>1, ScenarioAssumption
<1>3. AgentStats(a) /\ AgentInv(a)
  BY <1>1 DEF StatInv, RingInv
<1> HIDE DEF a
<1>4. got[a] # 0
  <2>1. CASE rpc = "interval"
    BY <1>3, <2>1 DEF AgentStats, ReadSoFar, Printing, a
  <2>2. CASE rpc = "final"
    <3>1. got[a] = NumPackets(a)
      BY <1>3, <2>2 DEF AgentInv, Reading, OnReport, a
    <3>2. NumPackets(a) \in Nat \ {0}
      BY <1>1, Streams DEF RingInv, Stream
    <3> QED BY <3>1, <3>2
  <2> QED BY <2>1, <2>2
<1>5. sent[a] # 0
  <2>1. sent[a] - got[a] = Held(reporterindex[a], agentindex[a])
        /\ agentindex[a] \in 0 .. N
    BY <1>1, <1>3 DEF AgentInv, Ring, Taken, Moved
  <2>2. reporterindex[a] \in 0 .. N - 1
    BY <1>1
  <2>3. Held(reporterindex[a], agentindex[a]) >= 0
    BY <2>1, <2>2, RingAssumption DEF Held
  <2> QED BY <1>1, <1>4, <2>1, <2>3
<1>6. a \in run.agents
  BY <1>1, <1>5 DEF SumsInv
<1> QED BY <1>1, <1>2, <1>6 DEF a, Ended

(* ... and a line that it prints is the first of its stream with that start.     *)
LEMMA NewStart ==
  ASSUME NEW l \in Nat, NEW w \in Nat, w # 0, NEW i \in 1 .. l
  PROVE  (i - 1) * w # l * w
<1>1. \A d, v \in Nat : d # 0 /\ v # 0 => d * v # 0
  OBVIOUS
<1>2. \A m, d, v \in Nat : (m + d) * v = m * v + d * v /\ m * v \in Nat /\ d * v \in Nat
  OBVIOUS
<1>3. i - 1 \in Nat /\ l - (i - 1) \in Nat /\ l - (i - 1) # 0
  OBVIOUS
<1> DEFINE m == i - 1
           d == l - (i - 1)
<1>4. m \in Nat /\ d \in Nat /\ d # 0 /\ l = m + d
  BY <1>3
<1> HIDE DEF m, d
<1>5. l * w = m * w + d * w /\ d * w # 0 /\ m * w \in Nat /\ d * w \in Nat
  BY <1>1, <1>2, <1>4
<1> QED BY <1>5 DEF m

LEMMA IntervalIsPrinted ==
  ASSUME RingInv, ListInv, StatInv, SumsInv, PrintInterval
  PROVE  LET x == IntervalReport(stats[Subject]) IN
         Prints(run, reports, reports', Subject, x) /\ AddToSum(x)
<1> DEFINE a == Subject
           s == stats[a]
           x == IntervalReport(s)
           L == Len(reports[a])
<1>1. /\ a \in run.agents /\ a \in Agent /\ ~Ended(a)
      /\ run.agents \subseteq Agent /\ IsFiniteSet(run.agents) /\ run.interval \in Nat
  BY SubjectRuns DEF PrintInterval
<1>2. /\ s \in Stats /\ reports \in [Agent -> Seq(Line)] /\ reports[a] \in Seq(Line)
      /\ Tiles(run.packets[a], reports[a], s, L, run.interval)
  BY <1>1 DEF StatInv, AgentStats, Printed
<1>3. x \in Line /\ x.start = s.end
  BY <1>2, IntervalLine DEF Tiles
<1>4. run.interval # 0 /\ reports' = [reports EXCEPT ![a] = Append(reports[a], x)] /\ AddToSum(x)
  BY DEF PrintInterval, IntervalOver
<1>5. OneLineMore(reports, reports', a, x)
  BY <1>1, <1>2, <1>3, <1>4 DEF OneLineMore
<1>6. L \in Nat /\ DOMAIN reports[a] = 1 .. L
  BY <1>2, LenProperties
<1>7. x.start = L * run.interval /\ \A i \in 1 .. L : reports[a][i].start = (i - 1) * run.interval
  BY <1>2, <1>3 DEF Tiles
<1> HIDE DEF a, x, L
<1>8. \A i \in 1 .. L : reports[a][i].start # x.start
  BY <1>1, <1>4, <1>6, <1>7, NewStart
<1>9. LinesOf(reports, a, x.start) = {}
  BY <1>6, <1>8 DEF LinesOf
<1>10. Prints(run, reports, reports', a, x)
  BY <1>1, <1>5, <1>9 DEF Prints
<1> QED BY <1>4, <1>10 DEF a, x

LEMMA FinalIsPrinted ==
  ASSUME RingInv, ListInv, StatInv, SumsInv, PrintFinal
  PROVE  LET x == FinalReport(stats[Subject]) IN
         Prints(run, reports, reports', Subject, x) /\ AddToSum(x)
<1> DEFINE a == Subject
           s == stats[a]
           x == FinalReport(s)
<1>1. /\ a \in run.agents /\ a \in Agent /\ ~Ended(a)
      /\ run.agents \subseteq Agent /\ IsFiniteSet(run.agents) /\ run.interval \in Nat
  BY SubjectRuns DEF PrintFinal
<1>2. s \in Stats /\ reports \in [Agent -> Seq(Line)]
  BY <1>1 DEF StatInv
<1>3. x \in Line /\ x.start = 0
  BY <1>2, FinalLine DEF FinalReport
<1>4. reports' = [reports EXCEPT ![a] = Append(reports[a], x)] /\ AddToSum(x)
  BY DEF PrintFinal
<1>5. OneLineMore(reports, reports', a, x)
  BY <1>1, <1>2, <1>3, <1>4 DEF OneLineMore
<1>6. Regular(run, x.start) => reports[a] = <<>>
  BY <1>1, <1>3 DEF Regular, SumsInv
<1> HIDE DEF a, x
<1>7. Regular(run, x.start) => LinesOf(reports, a, x.start) = {}
  BY <1>6 DEF LinesOf
<1>8. Prints(run, reports, reports', a, x)
  BY <1>1, <1>5, <1>7 DEF Prints
<1> QED BY <1>4, <1>8 DEF a, x

LEMMA AgentKeepsSums ==
  ASSUME BarrierInv, RingInv, StatInv, SumsInv, NEW a \in Agent, AgentStep(a)
  PROVE  SumsInv'
<1>1. /\ UNCHANGED <<run, reports, slots, sums>>
      /\ sent' = sent \/ (Publish(a) /\ sent' = [sent EXCEPT ![a] = @ + 1])
  BY DEF AgentStep, Scheduled, ReportPacket, Start, InitConnection, Barrier, LeaveBarrier,
         ReturnEarly, CountIn,
         CountedIn, InitReport, ReadIndex, Wrap, Full, Sleep, Write, Publish, ReportServerUDP,
         GetReport, EndReport, AgentOnly, Post, ringVars, printVars
<1>2. ASSUME NEW b \in Agent \ run.agents PROVE sent'[b] = 0
  <2>1. sent[b] = 0 /\ pc[b] = "gone"
    BY DEF SumsInv, BarrierInv
  <2>2. Publish(a) => b # a
    BY <2>1 DEF Publish
  <2> QED BY <1>1, <2>1, <2>2 DEF RingInv, RingTypes
<1>3. ASSUME NEW b \in Agent PROVE Ended(b)' <=> Ended(b)
  BY AgentKeepsLines DEF SameLines
<1> QED BY <1>1, <1>2, <1>3 DEF SumsInv

LEMMA OthersKeepSums ==
  ASSUME SumsInv, run' = run, slots' = slots, sums' = sums, sent' = sent, reports' = reports,
         \A b \in Agent : Ended(b) => Ended(b)'
  PROVE  SumsInv'
BY DEF SumsInv

LEMMA ReporterSteps ==
  ASSUME RingInv, ListInv, StatInv, BarrierInv, RestTypes, SumTypes, SumsInv, ReporterStep
  PROVE  SumsInv'
<1>1. run' = run /\ sent' = sent
  BY DEF ReporterStep, Top, Wake, Again, Process, ProcessTransfer, Loop, Move, Handle,
         PrintInterval, NoInterval, PrintFinal, Closing, Check, ReporterOnly
<1>2. ASSUME ~PrintInterval, ~PrintFinal PROVE SumsInv'
  <2>1. slots' = slots /\ sums' = sums /\ reports' = reports
    BY <1>2 DEF ReporterStep, Top, Wake, Again, Process, ProcessTransfer, Loop, Move, Handle,
           NoInterval, Closing, Check, printVars
  <2>2. CASE Looks
    BY <1>1, <2>1, <2>2, LooksKeepLines, OthersKeepSums DEF SameLines
  <2>3. CASE Handle \/ NoInterval \/ Closing
    <3>1. /\ Subject' = Subject /\ reporterindex \in [Agent -> -1 .. N - 1]
          /\ rpc # "closing" => reporterindex' = reporterindex
          /\ rpc = "closing" => reporterindex' = [reporterindex EXCEPT ![Subject] = -1]
      BY <2>3 DEF Handle, NoInterval, Closing, ReporterOnly, listVars, Subject, Current, RingInv, RingTypes
    <3>2. ASSUME NEW b \in Agent, Ended(b) PROVE Ended(b)'
      BY <3>1, <3>2 DEF Ended
    <3> QED BY <1>1, <2>1, <3>2, OthersKeepSums
  <2> QED BY <1>2, <2>2, <2>3 DEF ReporterStep, Looks
<1>3. NumSlots(run) \in Nat \ {0} /\ threads \in Nat
  <2>1. IsFiniteSet(run.agents)
    BY ScenarioAssumption DEF RingInv, RingTypes
  <2> QED BY <2>1, FS_CardinalityType DEF NumSlots, RestTypes
<1>4. ASSUME NEW x, Prints(run, reports, reports', Subject, x), AddToSum(x)
      PROVE  SumsShared(run, reports', slots', sums')
  BY <1>1, <1>3, <1>4, LineIsAdded DEF SumsInv
<1>5. CASE PrintInterval
  <2>1. SumsShared(run, reports', slots', sums')
    BY <1>4, <1>5, IntervalIsPrinted
  <2>2. run.interval # 0
    BY <1>5 DEF PrintInterval, IntervalOver
  <2> QED BY <1>1, <2>1, <2>2 DEF SumsInv
<1>6. CASE PrintFinal
  <2>1. SumsShared(run, reports', slots', sums')
    BY <1>4, <1>6, FinalIsPrinted
  <2>2. /\ Subject' = Subject /\ rpc' = "closing" /\ reporterindex' = reporterindex
        /\ rpc = "final" /\ \A b \in Agent : b # Subject => reports'[b] = reports[b]
    BY <1>6 DEF PrintFinal, ReporterOnly, listVars, Subject, Current, StatInv
  <2>3. ASSUME run.interval = 0, NEW b \in Agent, ~Ended(b)' PROVE reports'[b] = <<>>
    BY <2>2, <2>3 DEF SumsInv, Ended
  <2> QED BY <1>1, <2>1, <2>3 DEF SumsInv
<1> QED BY <1>2, <1>5, <1>6

(* The SUM lines: whichever streams are counted, those are disjoint.             *)
THEOREM SumsAreComplete == Spec => []SumIsComplete
<1>1. RingInv /\ ListInv /\ StatInv /\ BarrierInv /\ RestTypes /\ SumTypes /\ SumsInv /\ [Next]_vars
        => SumsInv'
  <2> SUFFICES ASSUME RingInv, ListInv, StatInv, BarrierInv, RestTypes, SumTypes, SumsInv, [Next]_vars
               PROVE  SumsInv'
    OBVIOUS
  <2>1. ASSUME NEW a \in Agent, AgentStep(a) PROVE SumsInv'
    BY <2>1, AgentKeepsSums
  <2>2. CASE ReporterStep
    BY <2>2, ReporterSteps
  <2>3. CASE JoinAll \/ UNCHANGED vars
    <3>1. UNCHANGED <<run, slots, sums, sent, reports, reporterindex, rpc, todo>>
      BY <2>3 DEF JoinAll, vars, ringVars, printVars, listVars
    <3> QED BY <3>1, OthersKeepSums DEF Ended, Subject, Current
  <2> QED BY <2>1, <2>2, <2>3 DEF Next
<1>2. RingInv /\ SumTypes /\ SumsInv => SumIsComplete
  <2> SUFFICES ASSUME RingInv, SumTypes, SumsInv PROVE SumIsComplete
    OBVIOUS
  <2>1. PICK P, M : Shared(run, reports, slots, sums, P, M)
    BY DEF SumsInv, SumsShared
  <2> DEFINE full == {i \in DOMAIN sums : sums[i].start > 0 \/ run.interval = 0}
             members == [i \in full |-> M[i]]
  <2>2. ASSUME NEW i \in full
        PROVE  /\ Tally(reports, sums[i], M[i]) /\ M[i] \in Several
               /\ \A j \in full \ {i} : sums[j].start = sums[i].start => M[i] \cap M[j] = {}
    <3>1. i \in DOMAIN sums /\ sums[i] \in Line
      BY LenProperties, ElementOfSeq DEF SumTypes
    <3>2. Regular(run, sums[i].start)
      BY <3>1 DEF Regular, Line
    <3> QED BY <2>1, <3>1, <3>2 DEF Shared, Several
  <2>3. members \in [full -> Several]
    BY <2>2
  <2>4. ASSUME NEW i \in full, NEW S, Tally(reports, sums[i], S)
        PROVE  (\A a \in S : LinesAt(a, sums[i].start) # {}) /\ AddsUp(sums[i], S)
    BY <2>4 DEF Tally, Fields, Values, LineOf, LinesOf, LinesAt, AddsUp, Amount, LineAt
  <2>5. ASSUME NEW i \in full
        PROVE  /\ \A a \in members[i] : LinesAt(a, sums[i].start) # {}
               /\ AddsUp(sums[i], members[i])
               /\ \A j \in full \ {i} :
                    sums[j].start = sums[i].start => members[i] \cap members[j] = {}
    BY <2>2, <2>4
  <2> HIDE DEF members
  <2> QED BY <2>3, <2>5 DEF SumIsComplete
<1> QED BY <1>1, <1>2, InitSums, RingIsSafe, ListIsSafe, StatisticsAreKept, BarrierIsKept,
           RestIsTyped, PTL DEF Spec

--------------------------------------------------------------------------------
(* Who waits: only threads that are to write wait for the reporter, it sleeps    *)
(* only when main is let go, one of a group is never at its barrier, and until   *)
(* the last one comes only those are gone that could not connect or left early.  *)
SleepInv ==
    /\ doneWait \subseteq {a \in Agent : pc[a] = "enter"}
    /\ rpc = "asleep" => ignored
ToCome ==
    /\ run.agents \ Outside # {}
    /\ ~started => \A b \in run.agents : pc[b] = "gone" => b \in run.failed \cup early
WaitInv == SleepInv /\ (Grouped => ToCome)

LEMMA InitWait == Init => WaitInv
<1> SUFFICES ASSUME Init PROVE WaitInv
  OBVIOUS
<1>1. /\ pc = [a \in Agent |-> IF a \in run.agents THEN "start" ELSE "gone"]
      /\ rpc = "top" /\ doneWait = {} /\ run \in Scenario
  BY DEF Init
<1>2. Outside = {} /\ run.lead \in run.agents /\ run.agents \subseteq Agent
  BY <1>1, ScenarioAssumption DEF Outside
<1> QED BY <1>1, <1>2 DEF WaitInv, SleepInv, ToCome

(* A step of an agent that is not at the barrier, or not yet.                    *)
LEMMA AgentKeepsSleep ==
  ASSUME BarrierInv, SleepInv, NEW a \in Agent, AgentStep(a)
  PROVE  SleepInv'
<1> USE DEF SleepInv, SignalReporter
<1>1. rpc' = "asleep" => rpc = "asleep" /\ ignored' = ignored
  BY DEF AgentStep, Scheduled, ReportPacket, Start, InitConnection, Barrier, LeaveBarrier,
         ReturnEarly, CountIn,
         CountedIn, InitReport, ReadIndex, Wrap, Full, Sleep, Write, Publish, ReportServerUDP,
         GetReport, EndReport, AgentOnly, Post
<1>2. CASE Sleep(a)
  BY <1>1, <1>2 DEF Sleep, BarrierInv
<1>3. CASE ReadIndex(a)
  BY <1>1, <1>3 DEF ReadIndex, BarrierInv
<1>4. CASE ~Sleep(a) /\ ~ReadIndex(a)
  <2>1. doneWait' = doneWait /\ pc[a] # "enter"
    BY <1>4 DEF AgentStep, Scheduled, ReportPacket, Start, InitConnection, Barrier,
         LeaveBarrier, ReturnEarly, CountIn,
         CountedIn, InitReport, Wrap, Full, Write, Publish, ReportServerUDP,
         GetReport, EndReport, AgentOnly, Post
  <2>2. \A b \in Agent : b # a /\ pc[b] = "enter" => pc'[b] = "enter"
    BY <1>4 DEF BarrierInv, AgentStep, Scheduled, ReportPacket, Start, InitConnection, Barrier,
         LeaveBarrier, ReturnEarly, CountIn,
         CountedIn, InitReport, Wrap, Full, Write, Publish, ReportServerUDP,
         GetReport, EndReport, AgentOnly, Post
  <2> QED BY <1>1, <2>1, <2>2
<1> QED BY <1>2, <1>3, <1>4

LEMMA AgentKeepsWait ==
  ASSUME BarrierInv, WaitInv, NEW a \in Agent, AgentStep(a)
  PROVE  WaitInv'
<1>1. run' = run /\ run \in Scenario /\ IsFiniteSet(run.agents) /\ run.agents \subseteq Agent
      /\ pc \in [Agent -> BeforeRing \cup InRing \cup AfterRing]
      /\ \A b \in Agent \ run.agents : pc[b] = "gone"
  BY ScenarioAssumption
  DEF BarrierInv, AgentStep, Scheduled, ReportPacket, Start, InitConnection, Barrier,
      LeaveBarrier, ReturnEarly, CountIn, CountedIn, InitReport, ReadIndex, Wrap, Full, Sleep,
      Write, Publish, ReportServerUDP, GetReport, EndReport, AgentOnly
<1>2. SleepInv'
  BY AgentKeepsSleep DEF WaitInv
<1> SUFFICES ASSUME Grouped PROVE ToCome'
  BY <1>1, <1>2 DEF WaitInv, Grouped
<1>3. ToCome
  BY DEF WaitInv
<1>4. CASE Barrier(a)
  <2>1. pc[a] = "init" /\ threads = Cardinality(run.agents \ Outside)
    BY <1>4 DEF Barrier, BarrierInv
  <2>2. a \in run.agents \ Outside
    BY <1>1, <2>1 DEF Outside
  <2>3. CASE threads = 1
    <3>1. pc' = [b \in Agent |-> IF b = a THEN "post"
                                 ELSE IF pc[b] = "barrier" THEN "leave" ELSE pc[b]]
          /\ started' = TRUE
      BY <1>4, <2>3 DEF Barrier, LastAtBarrier
    <3>2. a \notin Outside'
      BY <3>1 DEF Outside
    <3> QED BY <1>1, <2>2, <3>1, <3>2 DEF ToCome
  <2>4. CASE threads # 1
    <3>1. pc' = [pc EXCEPT ![a] = "barrier"] /\ started' = started /\ early' = early
      BY <1>4, <2>4 DEF Barrier, LastAtBarrier
    <3>2. run.agents \ Outside # {a}
      BY <2>1, <2>4, FS_Singleton
    <3>3. run.agents \ Outside' = (run.agents \ Outside) \ {a}
      BY <1>1, <3>1 DEF Outside
    <3> QED BY <1>1, <1>3, <2>2, <3>1, <3>2, <3>3 DEF ToCome
  <2> QED BY <2>3, <2>4
<1>5. CASE ~Barrier(a)
  <2>1. PICK q \in AgentPC \ {"barrier"} :
          /\ pc' = [pc EXCEPT ![a] = q]
          /\ q = "leave" => pc[a] = "barrier"
          /\ q = "gone" => pc[a] \notin NotHere \/ a \in run.failed
    BY <1>5 DEF AgentStep, Scheduled, ReportPacket, Start, InitConnection, LeaveBarrier,
      ReturnEarly, CountIn, CountedIn, InitReport, ReadIndex, Wrap, Full, Sleep, Write, Publish,
      ReportServerUDP, GetReport, EndReport, AgentPC, NotHere, Grouped
  <2>2. pc[a] # "gone" /\ started' = started /\ early \subseteq early'
    BY <1>5 DEF AgentStep, Scheduled, ReportPacket, Start, InitConnection, LeaveBarrier,
      ReturnEarly, CountIn, CountedIn, InitReport, ReadIndex, Wrap, Full, Sleep, Write, Publish,
      ReportServerUDP, GetReport, EndReport, AgentOnly, groupVars
  <2>3. Outside' \subseteq Outside
    BY <1>1, <2>1 DEF Outside
  <2>4. ~started /\ q = "gone" => a \in run.failed \cup early
    BY <2>1, <2>2 DEF BarrierInv
  <2> QED BY <1>1, <1>3, <2>1, <2>2, <2>3, <2>4 DEF ToCome
<1> QED BY <1>4, <1>5

LEMMA OthersKeepWait ==
  ASSUME WaitInv, UNCHANGED <<run, pc, started, early>>, doneWait' \subseteq doneWait,
         rpc' = "asleep" => ignored'
  PROVE  WaitInv'
BY DEF WaitInv, SleepInv, ToCome, Outside, Grouped

(* No thread is left waiting for a reporter that sleeps, however the signals and *)
(* the waits of the two interleave, and no group is left at its barrier that one *)
(* of it did not leave early.                                                    *)
THEOREM NobodyIsStuck == Spec => []NobodyStuck
<1>1. BarrierInv /\ WaitInv /\ [Next]_vars => WaitInv'
  <2> SUFFICES ASSUME BarrierInv, WaitInv, [Next]_vars PROVE WaitInv'
    OBVIOUS
  <2>1. ASSUME NEW a \in Agent, AgentStep(a) PROVE WaitInv'
    BY <2>1, AgentKeepsWait
  <2>2. CASE ReporterStep
    <3>1. UNCHANGED <<run, pc, started, early>> /\ doneWait' \subseteq doneWait
      BY <2>2 DEF ReporterStep, Top, Wake, Again, Process, ProcessTransfer, Loop, Move, Handle,
             PrintInterval, NoInterval, PrintFinal, Closing, Check, ReporterOnly, groupVars, Finish,
             SignalAgent
    <3>2. rpc' = "asleep" => ignored'
      BY <2>2 DEF ReporterStep, Top, Wake, Again, Process, ProcessTransfer, Loop, Move, Handle,
             PrintInterval, NoInterval, PrintFinal, Closing, Check, Finish
    <3> QED BY <3>1, <3>2, OthersKeepWait
  <2>3. CASE JoinAll \/ UNCHANGED vars
    <3>1. UNCHANGED <<run, pc, started, early, doneWait, rpc, ignored>>
      BY <2>3 DEF JoinAll, vars, groupVars
    <3> QED BY <3>1, OthersKeepWait DEF WaitInv, SleepInv
  <2> QED BY <2>1, <2>2, <2>3 DEF Next
<1>2. ListInv /\ BarrierInv /\ WaitInv => NobodyStuck
  <2> SUFFICES ASSUME ListInv, BarrierInv, WaitInv, rpc = "asleep"
               PROVE  /\ ~ \E a \in Agent : WaitsForReporter(a)
                      /\ run.data /\ (run.failed = {} \/ ~run.multi) /\ ~LeftAlone =>
                           \/ \E a \in Agent : pc[a] \notin {"barrier", "gone"}
                           \/ ignored /\ \A a \in Agent : pc[a] = "gone"
    BY DEF NobodyStuck
  <2>1. root = <<>> /\ ignored
    BY DEF ListInv, ListTypes, WaitInv, SleepInv
  <2>2. ASSUME NEW a \in Agent, WaitsForReporter(a) PROVE FALSE
    <3>1. Using(a)
      BY <2>2 DEF WaitsForReporter, WaitInv, SleepInv, Using
    <3>2. Transfer(a) \in ToSet(root)
      BY <3>1 DEF ListInv, Listed
    <3> QED BY <2>1, <3>2 DEF ToSet
  <2>3. ASSUME run.failed = {} \/ ~run.multi, ~LeftAlone,
               \A a \in Agent : pc[a] \in {"barrier", "gone"}, NEW b \in Agent, pc[b] # "gone"
        PROVE  FALSE
    <3>1. pc[b] = "barrier" /\ Grouped /\ ToCome /\ ~started
      BY <2>3 DEF WaitInv, BarrierInv, NotHere
    <3>2. early = {}
      BY <2>3, <3>1 DEF LeftAlone, BarrierInv
    <3>3. PICK c \in run.agents : c \notin Outside
      BY <3>1 DEF ToCome
    <3>4. c \in Agent
      BY ScenarioAssumption DEF BarrierInv
    <3>5. pc[c] = "gone"
      BY <2>3, <3>3, <3>4 DEF Outside
    <3> QED BY <2>3, <3>1, <3>2, <3>5 DEF Grouped, ToCome
  <2> QED BY <2>1, <2>2, <2>3
<1> QED BY <1>1, <1>2, InitWait, BarrierIsKept, ListIsSafe, PTL DEF Spec
================================================================================
