-------------------------------- MODULE Reporter -------------------------------
(* Reporter.c of iperf: traffic threads (clients or servers, here agents) hand   *)
(* what they send or receive to the reporter thread, through one ring of packets *)
(* per agent, and the reporter keeps the statistics and prints them.             *)
(*                                                                               *)
(* The ring has no lock.  Every access to one of its two shared indices is a     *)
(* step of its own, and index holds the copy the agent works with.  The list of  *)
(* reports is only changed under ReportCond, or by the reporter behind the head  *)
(* of the list, so such a change is one step; the reporter reads the head        *)
(* without the lock.  Loads and stores of an int are taken to be atomic and seen *)
(* in program order, which the code relies on.                                   *)
(*                                                                               *)
(* What is printed goes to reports[a] and sums.  A wait for a condition may      *)
(* return though nobody signalled: at the barrier, which does not look again,    *)
(* this is ReturnEarly; the waits for ReportCond and ReportDoneCond stand in     *)
(* loops that look again, and there it is left out.                              *)
(*                                                                               *)
(* A helper no action uses (ReporterDone, ...) is a slip of the one that         *)
(* follows it; the README lists the property each would break.                   *)
EXTENDS Integers, FiniteSetsExt, SequencesExt

CONSTANTS
    Agent,      \* traffic threads
    N,          \* NUM_REPORT_STRUCTS
    Scenario    \* what the threads are asked to do: a set of records, see below

(* A packet as it is put in the ring.  id is -1 for the one that ends a report.  *)
Packet == [id : Int, time : Nat, len : Nat, empty : BOOLEAN]

ASSUME RingAssumption == N \in Nat /\ N >= 3

ASSUME ScenarioAssumption ==
    \A s \in Scenario :
        /\ s.agents \subseteq Agent /\ IsFiniteSet(s.agents)    \* the threads that run
        /\ s.failed \subseteq s.agents     \* those whose connect fails
        /\ s.early \subseteq s.agents      \* whose wait at the barrier may return early
        /\ s.lead \in s.agents             \* the one that reports the settings
        /\ s.server \in BOOLEAN            \* mThreadMode
        /\ s.udp \in BOOLEAN
        /\ s.multi \in BOOLEAN             \* there is a MultiHeader
        /\ s.data \in BOOLEAN              \* isDataReport
        /\ s.settings \in BOOLEAN          \* isSettingsReport
        /\ s.interval \in Nat              \* mInterval, 0 for none
        /\ s.packets \in [Agent -> Seq(Packet)]
        /\ \A a \in Agent :                \* CloseReport's packet is the last one
             /\ s.packets[a] # <<>>
             /\ \A i \in DOMAIN s.packets[a] : s.packets[a][i].id < 0 <=> i = Len(s.packets[a])
             /\ s.packets[a][Len(s.packets[a])].len = 0

VARIABLES
    run,             \* the scenario, which never changes
    pc,              \* where each agent is
    index,           \* its copy of reporterindex
    agentindex,      \* agentindex of its report
    reporterindex,   \* reporterindex of its report
    data,            \* data[a][i]: number of the packet in slot i, 0 for none
    sent, got,       \* packets published, packet read last
    doneWait,        \* agents waiting for ReportDoneCond
    threads,         \* threads of the MultiHeader
    counted,         \* copy of it a server thread is about to increment
    started,         \* startTime of the MultiHeader has been set
    early,           \* clients whose wait at the barrier returned unsignalled
    root,            \* ReportRoot: the reports in the list
    rpc, todo,       \* where the reporter is, reports it still has to process
    ignored,         \* the reporter has called thread_setignore
    stats,           \* ReporterData of each agent
    reports, sums,   \* transfer reports printed of each agent, sums printed
    slots,           \* data of the MultiHeader
    ended            \* main has returned from thread_joinall

ringVars == <<index, agentindex, reporterindex, data, sent, got>>
groupVars == <<threads, counted, started, early>>
listVars == <<root, todo>>
printVars == <<stats, reports, sums, slots>>
vars == <<run, pc, ringVars, doneWait, groupVars, listVars, rpc, ignored,
          printVars, ended>>

--------------------------------------------------------------------------------
(* Reports in the list are pairs: the kind and the agent that made it.           *)
Kind == {"settings", "transfer", "connection", "relay"}
Report == Kind \X Agent
Transfer(a) == <<"transfer", a>>

Current == Last(todo)
Subject == Current[2]

Grouped == run.multi /\ ~run.server /\ run.data

(* Times count from the start time of the report, as its thread has it: a client *)
(* that leaves the barrier before that is set counts them from 1970.             *)
PacketOf(a, n) == run.packets[a][n]
NumPackets(a) == Len(run.packets[a])

SignalNobody == UNCHANGED rpc
(* Condition_Signal of ReportCond, on which only the reporter waits.             *)
SignalReporter == rpc' = IF rpc = "asleep" THEN "woken" ELSE rpc

(* Condition_Signal of ReportDoneCond.                                           *)
SignalAgent ==
    \/ doneWait = {} /\ UNCHANGED doneWait
    \/ \E a \in doneWait : doneWait' = doneWait \ {a}

--------------------------------------------------------------------------------
(* Statistics: struct ReporterData and the part of Transfer_Info that is kept.   *)

UDPServer == run.server /\ run.udp
Largest(x, y) == IF x < y THEN y ELSE x

NoCounts == [total |-> 0, cnt |-> 0, err |-> 0, ooo |-> 0]
NewStats(s) ==
    [total |-> 0, cnt |-> 0, err |-> 0, ooo |-> 0, id |-> 0, time |-> 0,
     end |-> 0, next |-> s.interval, last |-> NoCounts]

NumberedFromLast(s, p) ==
    [s EXCEPT !.ooo = IF p.id < s.id + 1 THEN @ + 1 ELSE @,
              !.err = IF p.id > s.id + 1 THEN @ + p.id - s.id - 1 ELSE @,
              !.id = p.id]
(* reporter_handle_packet: a datagram that skips numbers counts them as lost,    *)
(* one that is behind counts as out of order.                                    *)
Numbered(s, p) ==
    [s EXCEPT !.ooo = IF p.id < s.id + 1 THEN @ + 1 ELSE @,
              !.err = IF p.id > s.id + 1 THEN @ + p.id - s.id - 1 ELSE @,
              !.id = Largest(p.id, @)]
Account(s, p) ==
    LET timed == [s EXCEPT !.time = p.time] IN
    IF p.id < 0 THEN [timed EXCEPT !.total = IF run.server THEN @ + p.len ELSE @]
    ELSE IF p.empty THEN timed
    ELSE LET counted_ == [timed EXCEPT !.total = @ + p.len,
                                       !.cnt = IF run.udp THEN @ + 1 ELSE @]
         IN  IF UDPServer THEN Numbered(counted_, p) ELSE counted_

Datagrams(s) == IF UDPServer THEN s.id ELSE s.cnt

(* reporter_condprintstats, the two kinds of report it prints.                   *)
FinalReport(s) ==
    [final |-> TRUE, start |-> 0, end |-> s.time, len |-> s.total,
     cnt |-> Datagrams(s), ooo |-> s.ooo, err |-> Largest(0, s.err - s.ooo)]
IntervalReport(s) ==
    [final |-> FALSE, start |-> s.end, end |-> s.next, len |-> s.total - s.last.total,
     cnt |-> Datagrams(s) - s.last.cnt, ooo |-> s.ooo - s.last.ooo,
     err |-> Largest(0, (s.err - s.last.err) - (s.ooo - s.last.ooo))]
NextIntervalSameTotal(s) ==
    [s EXCEPT !.last.cnt = Datagrams(s), !.last.err = s.err, !.last.ooo = s.ooo,
              !.end = s.next, !.next = @ + run.interval]
NextInterval(s) ==
    [s EXCEPT !.last = [total |-> s.total, cnt |-> Datagrams(s), err |-> s.err,
                        ooo |-> s.ooo],
              !.end = s.next, !.next = @ + run.interval]

(* num_multi_slots of InitMulti (a listener has mThreads = 0).                   *)
NumSlots(s) == IF s.server THEN 5 ELSE Cardinality(s.agents) + 1
FreeSlot == [start |-> -1, end |-> 0, len |-> 0, cnt |-> 0, ooo |-> 0, err |-> 0,
             free |-> 0]

(* reporter_handle_multiple_reports: slots are found by their start time; when   *)
(* none is free the search has run to the last one, which is taken.              *)
SlotIs(i, t) == slots[i].start = t /\ \A j \in 1 .. i - 1 : slots[j].start # t
SlotOf(t) == CHOOSE i \in DOMAIN slots : SlotIs(i, t)
SumStarted(t) == \E i \in DOMAIN slots : slots[i].start = t
SlotTaken ==
    IF SumStarted(-1) THEN SlotOf(-1) ELSE Len(slots)

Opened(x) ==
    [start |-> x.start, end |-> x.end, len |-> x.len, cnt |-> x.cnt, ooo |-> x.ooo,
     err |-> x.err, free |-> 1]
AddedLastOnly(c, x) ==
    [c EXCEPT !.end = Largest(x.end, @), !.len = x.len, !.cnt = x.cnt,
              !.ooo = x.ooo, !.err = x.err, !.free = @ + 1]
Added(c, x) ==
    [c EXCEPT !.end = Largest(x.end, @), !.len = @ + x.len, !.cnt = @ + x.cnt,
              !.ooo = @ + x.ooo, !.err = @ + x.err, !.free = @ + 1]
SumOf(c, final) ==
    [final |-> final, start |-> c.start, end |-> c.end, len |-> c.len, cnt |-> c.cnt,
     ooo |-> c.ooo, err |-> c.err]
Released(c, final) == [c EXCEPT !.start = -1, !.free = IF final THEN 1 ELSE 0]

AddToSum(x) ==
    IF ~run.multi \/ threads <= 1 THEN UNCHANGED <<slots, sums>>
    ELSE IF ~SumStarted(x.start)
    THEN slots' = [slots EXCEPT ![SlotTaken] = Opened(x)] /\ UNCHANGED sums
    ELSE LET i == SlotOf(x.start)
             c == Added(slots[i], x)
         IN  IF c.free = threads
             THEN /\ slots' = [slots EXCEPT ![i] = Released(c, x.final)]
                  /\ sums' = Append(sums, SumOf(c, x.final))
             ELSE slots' = [slots EXCEPT ![i] = c] /\ UNCHANGED sums

--------------------------------------------------------------------------------
Init ==
    /\ run \in Scenario
    /\ pc = [a \in Agent |-> IF a \in run.agents THEN "start" ELSE "gone"]
    /\ index = [a \in Agent |-> 0]
    /\ agentindex = [a \in Agent |-> 0]
    /\ reporterindex = [a \in Agent |-> N - 1]
    /\ data = [a \in Agent |-> [i \in 0 .. N - 1 |-> 0]]
    /\ sent = [a \in Agent |-> 0] /\ got = [a \in Agent |-> 0]
    /\ doneWait = {}
    /\ threads = IF run.server THEN 0 ELSE Cardinality(run.agents)
    /\ counted = [a \in Agent |-> 0]
    /\ started = FALSE /\ early = {}
    /\ root = <<>> /\ todo = <<>>
    /\ rpc = "top" /\ ignored = FALSE
    /\ stats = [a \in Agent |-> NewStats(run)]
    /\ reports = [a \in Agent |-> <<>>] /\ sums = <<>>
    /\ slots = [i \in 1 .. NumSlots(run) |-> FreeSlot]
    /\ ended = FALSE

(* Making a report: it becomes the head of the list.                             *)
Post(r) ==
    /\ root' = Cons(r, root)
    /\ SignalReporter
    /\ UNCHANGED <<todo, ignored>>

(* Starting: the first thread reports the settings (ReportSettings); one whose   *)
(* connect fails stops itself.                                                   *)
Start(a) ==
    /\ pc[a] = "start"
    /\ IF a \in run.failed
       THEN /\ pc' = [pc EXCEPT ![a] = "gone"]
            /\ UNCHANGED <<listVars, rpc, ignored>>
       ELSE /\ pc' = [pc EXCEPT ![a] = "init"]
            /\ IF a = run.lead /\ run.settings
               THEN Post(<<"settings", a>>)
               ELSE UNCHANGED <<listVars, rpc, ignored>>
    /\ UNCHANGED <<run, ringVars, doneWait, groupVars, printVars, ended>>

(* InitReport without a data report: the agent gets no header back, so           *)
(* ReportPacket and the rest do nothing for it, and it ends.                     *)
InitConnection(a) ==
    /\ pc[a] = "init" /\ ~run.data
    /\ Post(<<"connection", a>>)
    /\ pc' = [pc EXCEPT ![a] = "gone"]
    /\ UNCHANGED <<run, ringVars, doneWait, groupVars, printVars, ended>>

LastButOneAtBarrier == threads <= 2
LastAtBarrier == threads = 1

(* BarrierClient.  The last one sets the start time, wakes the others and counts *)
(* itself back in; each of them does so when it gets the mutex.                  *)
Barrier(a) ==
    /\ pc[a] = "init" /\ Grouped
    /\ IF LastAtBarrier
       THEN /\ started' = TRUE
            /\ pc' = [b \in Agent |-> IF b = a THEN "post"
                                      ELSE IF pc[b] = "barrier" THEN "leave" ELSE pc[b]]
            /\ UNCHANGED threads
       ELSE /\ threads' = threads - 1
            /\ pc' = [pc EXCEPT ![a] = "barrier"]
            /\ UNCHANGED started
    /\ UNCHANGED <<run, ringVars, doneWait, counted, early, listVars, rpc, ignored,
                   printVars, ended>>

(* The wait, which does not test the count again, returns unsignalled.           *)
ReturnEarly(a) ==
    /\ pc[a] = "barrier" /\ a \in run.early
    /\ pc' = [pc EXCEPT ![a] = "leave"]
    /\ early' = early \cup {a}
    /\ UNCHANGED <<run, ringVars, doneWait, threads, counted, started, listVars, rpc,
                   ignored, printVars, ended>>
LeaveBarrier(a) ==
    /\ pc[a] = "leave"
    /\ threads' = threads + 1
    /\ pc' = [pc EXCEPT ![a] = "post"]
    /\ UNCHANGED <<run, ringVars, doneWait, counted, started, early, listVars, rpc,
                   ignored, printVars, ended>>

(* A server thread counts itself in without a lock: a load and a store.          *)
CountIn(a) ==
    /\ pc[a] = "init" /\ run.data /\ run.multi /\ run.server
    /\ counted' = [counted EXCEPT ![a] = threads]
    /\ pc' = [pc EXCEPT ![a] = "count"]
    /\ UNCHANGED <<run, ringVars, doneWait, threads, started, early, listVars, rpc,
                   ignored, printVars, ended>>
CountedIn(a) ==
    /\ pc[a] = "count"
    /\ threads' = counted[a] + 1
    /\ pc' = [pc EXCEPT ![a] = "post"]
    /\ UNCHANGED <<run, ringVars, doneWait, counted, started, early, listVars, rpc,
                   ignored, printVars, ended>>

InitReport(a) ==
    /\ \/ pc[a] = "post"
       \/ pc[a] = "init" /\ run.data /\ ~run.multi
    /\ Post(Transfer(a))
    /\ pc' = [pc EXCEPT ![a] = "enter"]
    /\ UNCHANGED <<run, ringVars, doneWait, groupVars, printVars, ended>>

--------------------------------------------------------------------------------
(* ReportPacket.  Every step leaves all but the ring and the agent's pc alone.   *)
AgentOnly ==
    UNCHANGED <<run, groupVars, listVars, ignored, printVars, got, reporterindex,
                ended>>

SlotsUsedUpTooLate(a) == agentindex[a] > N
SlotsUsedUp(a) == agentindex[a] = N

(* index = agent->reporterindex, on entry and after a wait.                      *)
ReadIndex(a) ==
    /\ pc[a] = "enter" /\ a \notin doneWait
    /\ index' = [index EXCEPT ![a] = reporterindex[a]]
    /\ pc' = [pc EXCEPT ![a] = IF SlotsUsedUp(a) THEN "wrap" ELSE "lap"]
    /\ AgentOnly /\ UNCHANGED <<agentindex, data, sent, doneWait, rpc>>

MustWaitToWrapOnceClosed(a) == index[a] = -1
MustWaitToWrap(a) == index[a] = 0
MustWaitToWrite(a) == index[a] - 1 = agentindex[a]

(* The slots are used up: start over, unless the reporter is on the first one.   *)
Wrap(a) ==
    /\ pc[a] = "wrap" /\ ~MustWaitToWrap(a)
    /\ agentindex' = [agentindex EXCEPT ![a] = 0]
    /\ pc' = [pc EXCEPT ![a] = "lap"]
    /\ AgentOnly /\ UNCHANGED <<index, data, sent, doneWait, rpc>>

(* The ring is full: signal the reporter, then lock and wait; nothing is checked *)
(* again in between.                                                             *)
Full(a) ==
    /\ \/ pc[a] = "wrap" /\ MustWaitToWrap(a)
       \/ pc[a] = "lap" /\ MustWaitToWrite(a)
    /\ SignalReporter
    /\ pc' = [pc EXCEPT ![a] = "sleep"]
    /\ AgentOnly /\ UNCHANGED <<index, agentindex, data, sent, doneWait>>
Sleep(a) ==
    /\ pc[a] = "sleep"
    /\ doneWait' = doneWait \cup {a}
    /\ pc' = [pc EXCEPT ![a] = "enter"]
    /\ AgentOnly /\ UNCHANGED <<index, agentindex, data, sent, rpc>>

Write(a) ==
    /\ pc[a] = "lap" /\ ~MustWaitToWrite(a)
    /\ data' = [data EXCEPT ![a][agentindex[a]] = sent[a] + 1]
    /\ pc' = [pc EXCEPT ![a] = "publish"]
    /\ AgentOnly /\ UNCHANGED <<index, agentindex, sent, doneWait, rpc>>

(* agent->agentindex++; the packet that CloseReport puts in is the last one.     *)
Publish(a) ==
    /\ pc[a] = "publish"
    /\ agentindex' = [agentindex EXCEPT ![a] = @ + 1]
    /\ sent' = [sent EXCEPT ![a] = @ + 1]
    /\ pc' = [pc EXCEPT ![a] = IF sent[a] + 1 = NumPackets(a) THEN "close" ELSE "enter"]
    /\ AgentOnly /\ UNCHANGED <<index, data, doneWait, rpc>>

ReportPacket(a) ==
    ReadIndex(a) \/ Wrap(a) \/ Full(a) \/ Sleep(a) \/ Write(a) \/ Publish(a)

AllRead(a) == reporterindex[a] = agentindex[a] - 1
TotalsReady(a) == reporterindex[a] = -1

(* After CloseReport: a UDP client reports what the server answered              *)
(* (ReportServerUDP), a UDP server waits for the totals and answers (GetReport). *)
ReportServerUDP(a) ==
    /\ pc[a] = "close" /\ ~UDPServer
    /\ IF run.udp THEN Post(<<"relay", a>>) ELSE UNCHANGED <<listVars, rpc, ignored>>
    /\ pc' = [pc EXCEPT ![a] = "end"]
    /\ UNCHANGED <<run, ringVars, doneWait, groupVars, printVars, ended>>
GetReport(a) ==
    /\ pc[a] = "close" /\ UDPServer
    /\ TotalsReady(a)
    /\ pc' = [pc EXCEPT ![a] = "end"]
    /\ UNCHANGED <<run, ringVars, doneWait, groupVars, listVars, rpc, ignored,
                   printVars, ended>>

(* EndReport: once the reporter is through, hand it the report to free.          *)
EndReport(a) ==
    /\ pc[a] = "end" /\ reporterindex[a] = -1
    /\ agentindex' = [agentindex EXCEPT ![a] = -1]
    /\ pc' = [pc EXCEPT ![a] = "gone"]
    /\ AgentOnly /\ UNCHANGED <<index, data, sent, doneWait, rpc>>

Scheduled(a) ==
    \/ Start(a) \/ InitConnection(a) \/ Barrier(a) \/ LeaveBarrier(a)
    \/ CountIn(a) \/ CountedIn(a) \/ InitReport(a)
    \/ ReportPacket(a) \/ ReportServerUDP(a) \/ GetReport(a) \/ EndReport(a)
AgentStep(a) == Scheduled(a) \/ ReturnEarly(a)

--------------------------------------------------------------------------------
(* The reporter thread.  Its steps leave what is only the agents' alone.        *)
ReporterOnly == UNCHANGED <<run, pc, index, agentindex, data, sent, groupVars, ended>>

(* The loop of reporter_spawn: with no report in the list the reporter lets main *)
(* go and waits.                                                                 *)
Top ==
    /\ rpc = "top"
    /\ IF root = <<>>
       THEN rpc' = "asleep" /\ ignored' = TRUE
       ELSE rpc' = "again" /\ UNCHANGED ignored
    /\ ReporterOnly /\ UNCHANGED <<reporterindex, got, doneWait, listVars, printVars>>
Wake ==
    /\ rpc = "woken"
    /\ rpc' = "again" /\ ignored' = FALSE
    /\ ReporterOnly /\ UNCHANGED <<reporterindex, got, doneWait, listVars, printVars>>

(* One pass over the list as it is now, from its end.                            *)
Again ==
    /\ rpc = "again"
    /\ rpc' = IF root = <<>> THEN "top" ELSE "scan"
    /\ todo' = root
    /\ ReporterOnly
    /\ UNCHANGED <<reporterindex, got, doneWait, root, ignored, printVars>>

(* A report is done with: taken out of the list and freed if free.  The head of  *)
(* the list ends the pass and wakes an agent; another pass follows at once if    *)
(* the head was freed and there are more reports.                                *)
Finish(free) ==
    LET head == Len(todo) = 1 IN
    /\ root' = IF free THEN RemoveFirst(root, Current) ELSE root
    /\ todo' = Front(todo)
    /\ rpc' = IF ~head THEN "scan"
              ELSE IF free /\ root' # <<>> THEN "again" ELSE "top"
    /\ IF head THEN SignalAgent ELSE UNCHANGED doneWait

OneShot == Current[1] # "transfer"

(* Settings and server reports are printed and freed.  A report that is for the  *)
(* connection only is printed, and freed by nobody.                              *)
Process ==
    /\ rpc = "scan" /\ OneShot
    /\ Finish(Current[1] # "connection")
    /\ ReporterOnly /\ UNCHANGED <<reporterindex, got, ignored, printVars>>
ProcessTransfer ==
    /\ rpc = "scan" /\ ~OneShot
    /\ rpc' = IF reporterindex[Subject] >= 0 THEN "loop" ELSE "check"
    /\ ReporterOnly
    /\ UNCHANGED <<reporterindex, got, doneWait, listVars, ignored, printVars>>

(* while ( reporterindex != agentindex - 1 )                                     *)
MorePackets(a) == reporterindex[a] # agentindex[a] - 1
Loop ==
    /\ rpc = "loop"
    /\ rpc' = IF MorePackets(Subject) THEN "move" ELSE "check"
    /\ ReporterOnly
    /\ UNCHANGED <<reporterindex, got, doneWait, listVars, ignored, printVars>>

(* To the next slot; at the end agentindex is looked at again.                   *)
AtStart(a) == agentindex[a] = 0
Move ==
    /\ rpc = "move"
    /\ LET a == Subject IN
         IF reporterindex[a] = N - 1
         THEN IF AtStart(a)
              THEN rpc' = "check" /\ UNCHANGED reporterindex
              ELSE /\ rpc' = "handle"
                   /\ reporterindex' = [reporterindex EXCEPT ![a] = 0]
         ELSE /\ rpc' = "handle"
              /\ reporterindex' = [reporterindex EXCEPT ![a] = @ + 1]
    /\ ReporterOnly /\ UNCHANGED <<got, doneWait, listVars, ignored, printVars>>

(* reporter_handle_packet reads the packet and counts it.                        *)
Handle ==
    /\ rpc = "handle"
    /\ LET a == Subject
           n == data[a][reporterindex[a]]
       IN  /\ got' = [got EXCEPT ![a] = n]
           /\ stats' = [stats EXCEPT ![a] = Account(@, PacketOf(a, n))]
           /\ rpc' = IF PacketOf(a, n).id < 0 THEN "final" ELSE "interval"
    /\ ReporterOnly
    /\ UNCHANGED <<reporterindex, doneWait, listVars, ignored, reports, sums, slots>>

(* reporter_condprintstats: a report for each interval that is over, ...         *)
IntervalOver(s) == run.interval # 0 /\ s.next < s.time
PrintInterval ==
    /\ rpc = "interval" /\ IntervalOver(stats[Subject])
    /\ LET a == Subject
           x == IntervalReport(stats[a])
       IN  /\ reports' = [reports EXCEPT ![a] = Append(@, x)]
           /\ AddToSum(x)
           /\ stats' = [stats EXCEPT ![a] = NextInterval(@)]
    /\ ReporterOnly
    /\ UNCHANGED <<reporterindex, got, doneWait, listVars, rpc, ignored>>
NoInterval ==
    /\ rpc = "interval" /\ ~IntervalOver(stats[Subject])
    /\ rpc' = "loop"
    /\ ReporterOnly
    /\ UNCHANGED <<reporterindex, got, doneWait, listVars, ignored, printVars>>

(* ... and the totals after the last packet, which ends the reading of the ring. *)
PrintFinal ==
    /\ rpc = "final"
    /\ LET x == FinalReport(stats[Subject]) IN
         /\ reports' = [reports EXCEPT ![Subject] = Append(@, x)]
         /\ AddToSum(x)
    /\ rpc' = "closing"
    /\ ReporterOnly /\ UNCHANGED <<reporterindex, got, doneWait, listVars, ignored, stats>>
Closing ==
    /\ rpc = "closing"
    /\ reporterindex' = [reporterindex EXCEPT ![Subject] = -1]
    /\ rpc' = "check"
    /\ ReporterOnly /\ UNCHANGED <<got, doneWait, listVars, ignored, printVars>>

ReporterDone(a) == reporterindex[a] = -1
HandedOver(a) == agentindex[a] = -1
Check ==
    /\ rpc = "check"
    /\ Finish(HandedOver(Subject))
    /\ ReporterOnly /\ UNCHANGED <<reporterindex, got, ignored, printVars>>

ReporterStep ==
    \/ Top \/ Wake \/ Again \/ Process \/ ProcessTransfer \/ Loop \/ Move \/ Handle
    \/ PrintInterval \/ NoInterval \/ PrintFinal \/ Closing \/ Check

JoinAgents ==
    /\ \A a \in Agent : pc[a] = "gone"
    /\ ended' = TRUE
    /\ UNCHANGED <<run, pc, ringVars, doneWait, groupVars, listVars, rpc, ignored,
                   printVars>>
(* main: thread_joinall returns when no thread counts any more, and the process  *)
(* is over.                                                                      *)
JoinAll ==
    /\ ignored /\ \A a \in Agent : pc[a] = "gone"
    /\ ended' = TRUE
    /\ UNCHANGED <<run, pc, ringVars, doneWait, groupVars, listVars, rpc, ignored,
                   printVars>>

Next ==
    /\ ~ended
    /\ (\E a \in Agent : AgentStep(a)) \/ ReporterStep \/ JoinAll

Spec == Init /\ [][Next]_vars
(* The threads are scheduled, and main is told when a thread ends.               *)
FairSpec ==
    /\ Spec
    /\ \A a \in Agent : WF_vars(~ended /\ Scheduled(a))
    /\ WF_vars(~ended /\ ReporterStep)
    /\ WF_vars(~ended /\ JoinAll)

--------------------------------------------------------------------------------
(* Properties                                                                    *)

AgentPC == {"start", "init", "barrier", "leave", "count", "post", "enter", "wrap",
            "lap", "sleep", "publish", "close", "end", "gone"}
ReporterPC == {"top", "asleep", "woken", "again", "scan", "loop", "move", "handle",
               "interval", "final", "closing", "check"}

(* The types of the variables, with the range of the two indices of each ring.   *)
TypeOK ==
    /\ run \in Scenario
    /\ pc \in [Agent -> AgentPC]
    /\ index \in [Agent -> -1 .. N - 1]
    /\ agentindex \in [Agent -> -1 .. N]
    /\ reporterindex \in [Agent -> -1 .. N - 1]
    /\ data \in [Agent -> [0 .. N - 1 -> Nat]]
    /\ sent \in [Agent -> Nat] /\ got \in [Agent -> Nat]
    /\ doneWait \in SUBSET Agent
    /\ threads \in Nat /\ counted \in [Agent -> Nat]
    /\ started \in BOOLEAN /\ early \in SUBSET Agent
    /\ root \in Seq(Report) /\ todo \in Seq(Report)
    /\ rpc \in ReporterPC /\ ignored \in BOOLEAN
    /\ sums \in Seq([final : BOOLEAN, start : Nat, end : Nat, len : Nat, cnt : Int,
                     ooo : Nat, err : Nat])
    /\ ended \in BOOLEAN

(* Although no lock protects the ring, the reporter gets the packets of a thread *)
(* in order, none twice and none lost, and at most N of them are waiting.        *)
Channel == INSTANCE PacketChannel WITH Capacity <- N
RingIsChannel == Channel!Spec

(* The thread's report is in the list, hence not freed, from the time it is      *)
(* made until the thread has handed it over (EndReport), and so is every report  *)
(* the reporter still has to process.                                            *)
Using(a) == pc[a] \in {"enter", "wrap", "lap", "sleep", "publish", "close", "end"}
NoUseAfterFree ==
    /\ \A a \in Agent : Using(a) => Transfer(a) \in ToSet(root)
    /\ ToSet(todo) \subseteq ToSet(root)

(* thread_setignore is how the reporter says that there are "no pending reports" *)
(* (Thread.c): when the process ends, every report made has been printed and     *)
(* freed, and the totals of each thread were printed once, after its interval    *)
(* reports.  Except where there are no data reports: then no thread waits for    *)
(* the reporter, and when one has posted its reports and gone, main may look     *)
(* before the reporter, which has been woken, has taken back what it said.       *)
FinalsOf(a) == {i \in DOMAIN reports[a] : reports[a][i].final}
TotalsPrinted(a) == FinalsOf(a) = {Len(reports[a])}
NothingPending ==
    ended =>
        \/ /\ root = <<>>
           /\ run.data => \A a \in run.agents \ run.failed : TotalsPrinted(a)
        \/ ~run.data /\ rpc = "woken"

(* The clients of a group start together: the start time is only set when all    *)
(* have come to the barrier, so that no client has started yet, and one that     *)
(* starts without it is one whose wait returned unsignalled.  That client counts *)
(* itself back in, so that the others never find themselves the last.            *)
Started(a) == pc[a] = "post" \/ Using(a)
StartTogether ==
    Grouped =>
        /\ threads = Cardinality({a \in run.agents : pc[a] \notin {"barrier", "leave"}})
        /\ \A a \in Agent : Started(a) => started \/ a \in early
        /\ started => \A a \in run.agents : pc[a] \notin {"start", "init", "barrier"}

(* What the first n packets of a thread carry.                                   *)
Length(a) ==
    [i \in 1 .. NumPackets(a) |-> IF PacketOf(a, i).empty THEN 0 ELSE PacketOf(a, i).len]
LengthUpTo(a, n) == SumFunctionOnSet(Length(a), 1 .. n)

(* A UDP server's answer to the client (after GetReport) carries the totals of   *)
(* all it received.                                                              *)
AnswerIsFinal ==
    \A a \in run.agents \ run.failed : UDPServer /\ run.data /\ pc[a] \in {"end", "gone"} =>
        /\ TotalsPrinted(a)
        /\ Last(reports[a]).len = LengthUpTo(a, NumPackets(a))
        /\ got[a] = sent[a]

(* The losses a UDP server reports: the numbers up to the largest one that never *)
(* arrived, less the duplicates, which are taken for late datagrams.  Number 0   *)
(* is the datagram the listener took.                                            *)
Arrivals(a, n) == {i \in 1 .. n : PacketOf(a, i).id >= 0 /\ ~PacketOf(a, i).empty}
Numbers(a, n) == {0} \cup {PacketOf(a, i).id : i \in Arrivals(a, n)}
LossesExact ==
    UDPServer => \A a \in Agent : \A k \in FinalsOf(a) :
        LET arrived == Numbers(a, NumPackets(a))
            missing == Cardinality((0 .. Max(arrived)) \ arrived)
            twice == 1 + Cardinality(Arrivals(a, NumPackets(a))) - Cardinality(arrived)
        IN  reports[a][k].err = Largest(0, missing - twice)

(* The interval reports of a thread follow each other without gap or overlap,    *)
(* and those up to time t make up what arrived until the first packet after t.   *)
FirstAfter(a, t) ==
    Min({i \in 1 .. NumPackets(a) : PacketOf(a, i).time > t})
LengthPrinted(a, n) == SumFunctionOnSet([i \in DOMAIN reports[a] |-> reports[a][i].len], 1 .. n)
IntervalsTile ==
    \A a \in Agent : \A i \in DOMAIN reports[a] \ FinalsOf(a) :
        /\ reports[a][i].start = (i - 1) * run.interval
        /\ reports[a][i].end = i * run.interval
        /\ LengthPrinted(a, i) = LengthUpTo(a, FirstAfter(a, reports[a][i].end))

(* A SUM line adds up the lines of two streams or more, and no stream is counted *)
(* in two of them; so of a pair it counts both, while of a larger group those    *)
(* that are counted first make a sum without the others.  Excepted are the lines *)
(* that start at 0 where there are interval reports: totals start at 0 too.      *)
LinesAt(a, t) == {i \in DOMAIN reports[a] : reports[a][i].start = t}
LineAt(a, t) == reports[a][Min(LinesAt(a, t))]
Amount(a, t, f) == LineAt(a, t)[f]
AddsUp(x, S) ==
    \A f \in {"len", "cnt", "ooo", "err"} :
        x[f] = SumFunctionOnSet([a \in S |-> Amount(a, x.start, f)], S)
Several == {S \in SUBSET run.agents : Cardinality(S) >= 2}
SumIsComplete ==
    LET full == {i \in DOMAIN sums : sums[i].start > 0 \/ run.interval = 0} IN
    \E members \in [full -> Several] : \A i \in full :
        /\ \A a \in members[i] : LinesAt(a, sums[i].start) # {}
        /\ AddsUp(sums[i], members[i])
        /\ \A j \in full \ {i} :
             sums[j].start = sums[i].start => members[i] \cap members[j] = {}

(* A thread waits for the reporter, to read the ring or to print the totals.     *)
WaitsForReporter(a) ==
    \/ a \in doneWait
    \/ pc[a] = "close" /\ UDPServer /\ ~TotalsReady(a)
    \/ pc[a] = "end" /\ ~TotalsReady(a)

(* A client has left the barrier without a start time: the others wait for ever. *)
LeftAlone == ~started /\ \E a \in early : pc[a] # "leave"

(* The reporter never sleeps while a thread waits for it, and what is left of a  *)
(* group is never all at the barrier: until main ends the process, the reporter, *)
(* a thread or main has a step to take.  Excepted is a group that a client could *)
(* not join, or that one has left before the last came.                          *)
NobodyStuck ==
    /\ (\E a \in Agent : WaitsForReporter(a)) => rpc # "asleep"
    /\ ~ended /\ run.data /\ (run.failed = {} \/ ~run.multi) /\ ~LeftAlone =>
        \/ rpc # "asleep"
        \/ \E a \in Agent : pc[a] \notin {"barrier", "gone"}
        \/ ignored /\ \A a \in Agent : pc[a] = "gone"

(* iperf comes to an end, unless a client of a group cannot connect or leaves    *)
(* the barrier before the last has come (the others wait for it), or only the    *)
(* connection is reported.                                                       *)
Terminates == (run.failed = {} \/ ~run.multi) /\ run.data ~> ended \/ LeftAlone
================================================================================
