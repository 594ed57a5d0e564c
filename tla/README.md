# FlexFCAPF: a verification project

FlexFCAPF places controllers in a network and satisfies data flow groups with
them; this repository runs the placement heuristic on an emulated network
(Mininet or MaxiNet), with a Ryu controller that installs the resulting paths
and a modified iperf 2 that generates the traffic. This directory holds TLA+
models of the program, TLC configurations that check them on small instances and
proofs, checked by TLAPS, that hold for instances of every size.

Words: the code says CLC and CRC (local and regional controller) where the
thesis under `documents/` says LCA and RCA.

## The system

| part | source | state | operations |
|---|---|---|---|
| placement heuristic | `cp_flex_fcfs.py` 61-677, `crowd_network.py` | CLCs, CRCs, who controls and coordinates whom, flows and their CLC, remaining capacity of links and nodes | `cpgreedy` (a placement round), `addFlow`, `remFlow`, `remCLC` and the functions below them |
| routing | `cp_flex_fcfs.py` 755-1052, 1150-1168; `fcapf_ryu_controller.py` | recorded paths, entries of the next request; connected switches; flow tables | `modifyRoutingTable`; the REST handlers `addflows`, `delflows`; the features handler |
| event loop | `csimpfo_fcfs.py` 177-345 | simulated time, removal buckets `fremhelp`, `blacklist`, low-load alarm and limit | one iteration: remove finished flows, add one, decide whether to run a round |
| one-shot driver | `crun_flexfcpf.py` | none | one round with the flows of the topology file |
| traffic generation | `cp_flex_fcfs.py` 1054-1148 | running clients, delay buckets, counters | start and stop the iperf clients of a flow |
| iperf reporter | `iperf2-code/src/Reporter.c` | list of reports, a ring of packets per report, condition variables, sums of a group | `ReportPacket`, `CloseReport`, `EndReport`, `reporter_spawn`, `BarrierClient` |
| iperf UDP sessions | `iperf2-code/src/Client.cpp`, `Listener.cpp`, `Server.cpp`, `List.cpp` | sockets and what waits in them, the list of clients, datagram numbers | send, accept, receive, the exchange of FIN and totals that ends a test |
| iperf options | `iperf2-code/src/Settings.cpp`, `gnu_getopt.c` | `ext_gSettings`, `gnu_optind`, `nextchar` | read environment and command line; derive the settings of a listener, a header, a reverse client |
| iperf processes and threads | `iperf2-code/compat/Thread.c`, `src/main.cpp`, `Launch.cpp`, `Listener.cpp`, `Client.cpp`, `Server.cpp` | thread counts, signals, the timer of a process, TCP connections | start, run and chain threads, join all, interrupt; run TCP tests one way and both ways |

The Python program has one thread. The event loop calls the placement; after a
round it calls `modifyRoutingTable`, which sends two HTTP requests to the Ryu
process, which sends OpenFlow messages to the switches and does not wait for
them; then the clients of newly satisfied flows are started. Concurrency is
between that thread, the controller and the switches, and inside iperf between
traffic threads, listener and reporter; and the wall clock goes on while the
event loop works.

What is hard here:

* **long sequences** in the placement. Every operation moves capacity and records
  between several structures, and refunds must match charges over any sequence
  of additions, removals, take-downs and half-finished attempts;
* **numeric edges**: the admission checks divide by what is left, the charges
  divide by what remains of a latency budget, and the two must agree;
* **loops that depend on the state they change** (`cpgreedy`), which may not end;
* **delivery**: requests that get lost, switches that connect late, additions and
  deletions still under way when the next round begins;
* **two clocks** in the event loop: flows are filed for removal by one and removed
  by the other;
* **shared state without a lock** in iperf: the indices of the report ring, the
  count of threads that main waits for, the list of clients, the last signal;
* **loss and repetition** at the end of a UDP test, where each side gives up by
  itself after a number of tries;
* **settings that depend on the order of options**, and that travel to the other
  process in a few words of a header.

The properties that make each part correct follow from these: the records of
control agree and nothing is overbooked or refunded wrongly (placement); the
tables follow the recorded paths and running traffic keeps its path (routing);
every flow waits for its removal where its record says, and rounds are started
when needed (event loop); no packet report is lost, repeated or read
half-written, and everybody waiting is woken (reporter); the list of clients is
what is served, and everybody comes to an end (sessions); the count that main
waits for is the number of threads that work, and a test is run as it was asked
for (processes).

## Modules

| module | what it is |
|---|---|
| `Placement` | the placement heuristic, all its operations, with the drivers' calls as environment |
| `MCPlacement` | an instance of it: a line of three nodes |
| `PlacementClaims` | two statements of the thesis that the heuristic does not keep |
| `PlacementProofs` | the inductive invariant of `Placement` and what follows from it |
| `CoordinationProofs` | the records of the coordination level and the accounts of capacity, on top of `PlacementProofs` |
| `Sums` | what the proofs need to know of sums over finite sets |
| `Routing` | `modifyRoutingTable`, the controller and the flow tables, with placement and drivers as environment |
| `MCRouting` | two instances on a line of three switches |
| `RoutingProofs` | types, tables against records, undisturbed traffic, for every network |
| `RoutingClaims` | two statements of the thesis that routing does not keep |
| `EventLoop` | the loop of the emulation: clocks, buckets, blacklist, low load |
| `MCEventLoop` | three flows, two candidates |
| `EventLoopProofs` | types, the clocks, buckets and rejection, for any number of flows and any arrivals |
| `EventLoopClaims` | two statements of the thesis that the loop does not keep |
| `PacketChannel` | what the report ring promises: a bounded channel (abstract) |
| `Reporter` | the report ring and the reporter thread; implements `PacketChannel` |
| `MCReporter` | seven modes on a ring of three slots |
| `ReporterProofs` | the refinement, the barrier, the list of reports, the statistics and the types, for rings and groups of every size |
| `Session` | UDP clients, listener, server threads and list of clients over a bad network |
| `MCSession` | fourteen settings with one or two streams |
| `SessionProofs` | types, list of clients, single host, what clients are told, for any number of streams |
| `Processes` | names of the two iperf processes of a test |
| `Options` | how a process comes to its settings |
| `Threads` | the thread subsystem and the signals of a process |
| `Iperf` | two processes that run TCP tests; composes `Options` and `Threads` |
| `MCIperf` | fourteen tests, and all command lines of three words out of fourteen |
| `IperfProofs` | the count of threads, what main waits for, the settings and the test that comes back, for any command lines |

How they fit together: `Placement` and `Routing` model the callees of the event
loop with the loop as environment, `EventLoop` models the loop with the callees
as environment; each leaves the other side free to do more than it does, so that
the state spaces stay small. `Iperf` is the composition of the iperf program; of
its parts, the reporter and the UDP session are detailed in modules of their own,
and `Iperf` keeps of them what the life of threads depends on.

### Placement

The variables are the attributes of the `CPFlex` and `CrowdNetwork` objects:
`control[v]` is `CLCcontrol` of CLC v, `clcsOf[w]` the list `CLCs` of node w,
`controlled` the list `Controlled`, `crcControl`, `crcOf` and `crcs` the same for
CRCs, `flowCLC[f]` is `fdata[f]['CLC']` (and `isSat`), `bRem` and `pRem` the
remaining capacities. `pc` names the loop the program is in and `ret` where it
returns to; the other variables are locals of the running function.

An action is one iteration of one loop. `CallGreedy`, `EnterNodes`,
`FindForNodes`, `LeaveNodes`, `FindForFlows`, `JudgeRound` are `cpgreedy`;
`FindCRC`, `FindNone` are `findCLC` with `getCLCcandidates` and
`findCRC`/`findNewCRC`; `AddNewCLC` is `addNewCLC` up to its loop; `GrowSkip`,
`GrowFlow`, `GrowPath`, `GrowDone` are the common loop of `addNewCLC` and
`browseCurrentCLCs`; `DropFlow`, `DropControl`, `DropDone` are `remCLC`;
`CleanupRemove`, `CleanupDone` are `cleanupCLCcontrols`; `AddFlow`, `SingleKnown`,
`SingleSearch`, `SearchNext`, `Reach`, `ReachDone`, `SearchDone` are `addFlow` and
`browseCurrentCLCsforSingleFlow`; `RemFlow` is `remFlow`; `LowLoad` is the driver's
choice to take CLCs down. `Crash` is an exception nobody catches: a division by a
capacity of zero, or `ctmp[0]` of an empty list.

Abstractions: capacities, demands and latencies are integers, a demand is rounded
down, and the tests of the code are cross-multiplied, so they are exact; the
instances are chosen such that the divisions are exact too. The rounding of
floating point is not modelled. Where the code sorts by a key, any element with
the least key may come first. A path is its set of links. The banlist,
`remCLCswithlowload`, other flow orders than MostDemanding and adding several
flows at once are used by no driver and left out; so is the branch of
`remCRCcontrol` that fills `uncontrolledCLCs`, since `remCLC` resets `isCLC` first.

### Routing

`want` is the content of all `pathtoCLC` dictionaries, a set of pairs
<<CLC, node>>; `recorded` is `RoutingPaths`; `json` the pairs whose entries are in
`JsonEntries`; `known` the switches the controller has a datapath for; `chan[s]`
the messages on the connection to switch s, in order; `table[s]` its entries, with
match and output port. `traffic` holds the pairs over which clients run.
`missed` remembers pairs whose last request did not reach all switches of the
path; no action reads it.

`Modify`, `PutAdd`, `ClearObsolete`, `PutDel` are the steps of
`modifyRoutingTable`, `Generate` the call of `generateTrafficFlow` after it. A PUT
either reaches the controller (`Send`), where entries for unknown switches are
dropped, or does not (`Lose`); the program notices neither. `Apply` is a switch
carrying out the messages of one path, `Connect` a late features message. If
`Links` lacks a link, `int(None)` ends the program: `pc = "TypeError"`.
`SingleFlow`, `FlowEnds` and `Place` are what the event loop does between and at
the start of rounds, as far as routing sees it: `Placement` is not composed with
it, the environment may choose any controls that keep what runs served (which
`ServedFlowsStayControlled` proves of the placement).

Abstractions: a port is named by the neighbour behind it; the four FlowMods of a
path at a switch are one step (no property tells them apart); a request that is
half processed is not modelled, because a well-formed list raises no exception
in the handler. A control of a CLC over itself has a path without links and no
entries, and is left out.

### EventLoop

One iteration is `Pass` (no arrival) or `Arrive`, then `Expire` for each bucket
passed and `ExpireNow` for the present one, `AddFlow`, one of `Decide`, `Watch`
and `TakeDown` (lines 265-291), and if a round is due `Greedy` (`cpgreedy` as far
as the loop sees it), `Generate` (`generateTrafficFlow`) and `Judge` (blacklist
and limit); then `Sleep`. `t` is the simulated time, which jumps to the next
arrival; `now` is the wall clock since the start. `Clock` lets the wall clock go
on while buckets are emptied and in a round, by at most `Ahead` ticks beyond
simulated time (a bound). `isGen`, `genstime`, `duration` and `fremindex` are the
fields of `fdata`; `fremhelp` maps seconds to flows. A tick is half a second, so
that `math.ceil` matters. `Sleep` computes with fractions of seconds, as the code
does (line 1 imports the true division); the 0.9 ms for which line 344 does not
sleep are taken as 0, and a sleep is as long as asked.

Abstractions: which flows `addFlow`, `remCLC` and `cpgreedy` serve or lose, and
whether the placement is solved, is chosen freely; `len(cn.C)` is constant; loads
and the limit are multiples of a twentieth. The branch of line 194 is left out:
it compares the seconds since 1970 with simulated time and is never taken.
`brief` and `waited` are history variables; no action reads them.

`BucketsAgree` says that a flow is in one bucket, the one `fremindex` names (so
that line 316 finds it), and that the loop has not passed that bucket. The bucket
is chosen by wall clock and passed by simulated time, so this depends on `Sleep`:
each iteration ends when the wall clock has come to simulated time, hence a flow is
filed with the wall clock behind by no more than the time to its own arrival.
Flows that last less than that (`brief`) are the exception, and a defect of the
code: such a flow goes into a bucket that was emptied and is never removed, which
the run `leftover` shows. `SecondChance` says that a flow is rejected only
after it was unserved in an earlier round too, without a CLC in between.

### Reporter and PacketChannel

An agent is a traffic thread. `data[a]` is the ring of its report, `agentindex`
and `reporterindex` the two shared indices, `index` the copy of the latter the
agent works with; every access is a step. `ReportPacket` is the steps from
`enter` to `publish`, including the wait for `ReportDoneCond`; `CloseReport`,
`EndReport` and `GetReport` follow. Before them come `InitMulti`, `InitReport`,
`ReportSettings` and `BarrierClient`. `root` is the list `ReportRoot`; `rpc` and
`todo` are where `reporter_spawn` and the recursion of `reporter_process_report`
are. `stats` holds the counters of `ReporterData`, `reports` and `sums` what was
printed, `slots` the few shared records of a `MultiHeader` in which streams add
up their intervals. A server increments the group's thread count without a lock,
in two steps. A client counts itself out of its group at the barrier, and in again
when it leaves. `BarrierClient` waits once, without looking at the count again, so
a return of the wait that nobody signalled lets a client go on: `ReturnEarly`.
`started` says that the last one has set the start time, `early` whose wait
returned so.

`PacketChannel` promises one thread that its packets arrive in order, once each,
and that at most `N` wait. `RingIsChannel` is the refinement
(`INSTANCE PacketChannel WITH Capacity <- N`): `sent` and `got` count packets, a
`Publish` is a `Put`, a `Handle` is a `Get`, all else stutters. That the content
of the slot read is packet `got + 1` is what makes it more than counting.
`NoUseAfterFree`: the reporter frees a report only when nobody uses it any more.
`NothingPending`: when main returns, nothing is left to print and to free, and
every thread's totals have been printed, once and last. It holds with data
reports, where a thread that has a report in the list waits for the reporter to
close it. Without them a thread posts its settings and its connection and is gone;
if the reporter had fallen idle, main may return between the signal and the wake-up,
and nothing is printed. The property names that state: woken, and not yet counted.
`StartTogether`: the thread count of a group is the number of those not at the
barrier, so that the start time is set when nobody is still to come and not
before; nobody starts without it but a client whose wait returned early.
`AnswerIsFinal`: a server that reads its totals for the client reads the final
ones. `LossesExact`, `IntervalsTile`, `SumIsComplete` compare what is printed with
what was reported, whatever the interleaving. Number 0 is the
datagram the listener took, which the reporter never sees. `SumIsComplete` says
that a sum line adds up the lines of two streams or more, none of which is in
another sum of that start: both of a pair, but not all of a larger group (see *Also
seen*). `NobodyStuck` says that the reporter never sleeps while a thread waits for
it, and that somebody can always go on. `Terminates`, which needs that, and
`NobodyStuck` leave out what the code does not end in (see *Also seen*): a client of
a group that cannot connect, one that leaves the barrier before the last has come
(`LeftAlone`) and, for `Terminates`, a report of the connection alone.

Abstractions: time and lengths are small numbers given by the scenario; jitter,
delays, TCP statistics and formats are left out; loads and stores of an `int` are
atomic and in program order, which the code relies on. The time of a packet counts
from the start time its thread has; for a client that left the barrier early that
is 1970, which here is another small number. The waits for `ReportCond` and
`ReportDoneCond` stand in loops that look again, and are not modelled to return
unsignalled.

### Session

A client (`Client::Run` and what it calls) sends numbered datagrams, then the FIN
up to `tries` times, waiting for the server's totals with a timeout each time.
The listener takes the first datagram of a new peer from its socket, connects
that socket to the peer, puts the peer into the list of clients and opens a new
socket (`Accept`, `Check`, `StartServer`, `Listen`); a server thread counts
datagrams, answers the FIN, repeats the answer for each repeated FIN and removes
its peer (`RecvUDP`, `SendTotals`, `AskedAgain`, `AckTimeout`, `Forget`, `Close`).
`SingleData`, `SingleFIN`, `SingleNew` are `UDPSingleServer`. A FIN's number is the
next one less the FINs before it (`FinID`; the comment at `Client.cpp` 902 has it
grow): `write_UDP_FIN` decrements the word, and `Server.cpp` 371-378 masks the sign.
`Half` stands for 2^31; below zero a word of 32 bits loses the sign it had (`FinKind`).
That `int` overflow at 910 is taken to wrap, and the one of `-datagramID` in
`Listener.cpp` 619 to give either of two values (`Negated`). The kernel gives a
datagram to the socket connected to its sender, else to the listening one; if
there is none the client gets an error. The network loses, copies and reorders.

`ClientsAreServed`: a peer in the list has a live server thread and one entry,
and the streams of a host share a group. `OneHostOnly`: with `-1` no two hosts are
served at once. `TotalsAreEven`: totals a client is given are those of its own
stream; they count no more datagrams than it numbered, although the FIN is counted,
and the largest number in them is at most its next one (or the flow id) and short of
it by less than the FINs it sent, so by nothing if one FIN was enough. Excepted are
tests with headers, 64-bit counters, a time of the server, copied datagrams, strangers'
datagrams in a new socket and clients one of whose FINs fell below zero; a single
server's largest number is left out. `TestsEnd`: whatever is lost, every client ends,
and a server thread that has seen a FIN ends.

Abstractions: `tries` is 1 or 2 instead of 10; a client writes at most twice; the
server does not read an ICMP error.

### Processes, Options, Threads, Iperf

`near` is given a host to test against, `far` runs there. `Options` models a
command line as a sequence of texts and a text as a sequence of tokens: both
passes of `gnu_getopt_long` with clusters of letters, attached and separate
arguments, abbreviations, `=` and `--`; `Settings_Interpret` with the state it
depends on; `Settings_ModalOptions`; and the three derivations. Pass one looks at
`-V` only, because `-c` and `-B` look a host up at once.

In `Threads` a thread is a copy of the settings it was made from, with what to
start before (`todo`) and after it (`next`). `thread_sNum` is what
`thread_joinall` waits for; the reporter leaves the count while it is idle and an
interrupt takes the listener out. `Iperf` has the programs of the threads:
`main`, client (connect, barrier, write, close report), listener (accept, check,
header, begin) and server, and the reporter as far as threads wait for it. A
client's header may ask for a test that comes back, at once (`-d`) or afterwards
(`-r`). Interrupts come from the user, alarms from `setitimer`, which is one per
process.

`CountIsRight`: the count is the number of threads that work and are counted.
`NothingCutOff`: a process that ends by itself has no client or server at work,
and nothing unprinted. `ReverseAsAsked`: a reverse client goes to the port that
was asked for and runs for the time that was asked for (a zero in a header means
that nothing was asked for; for an amount of data see *Also seen*).
`SettingsFollowTheLine`: the settings are those of the options in their order of
precedence, however they are written. `ProgramsEnd`: a process that should end
does, unless `mishaps` names one of the ways in which the code hangs or dies
(see *Also seen*).

Abstractions: `bind` and `listen` do not fail. The receive time-out for a header
(`Listener.cpp:772-786`, which is set on the listening socket and so holds from the
next connection on) does not expire, and the return of -1 after half a header
(801-804), which closes the connection and goes on (233-236), is not taken: a
client of the model sends its header in one piece or none. The barrier of a group
of clients is left by the last one's broadcast only; a wait that returns
unsignalled is in `Reporter`. Amounts are kept modulo `AmountLimit`, which stands
for 2^31; options that only choose output are read and set nothing.

## Runs

| run | instance | what it shows |
|---|---|---|
| `line` | 3 nodes, all candidates, capacities 28, 4 and 7; 3 flows, two of them through two nodes | all placement properties, the end of calls and the rank that every step lowers |
| `leak` | line | violated: a CLC gets back less processing capacity than a flow took |
| `endless` | line | violated: `cpgreedy` may loop for ever |
| `oneway` | 3 switches, one candidate, two controls with a common first link | tables follow the record, running traffic is undisturbed, paths are set up |
| `mutual` | 3 switches, two candidates that control each other | violated: a deletion cuts running traffic |
| `unrouted` | as `oneway` | violated: traffic without a path |
| `events` | 3 flows, 2 candidates, 2 seconds | buckets, blacklist and rejection |
| `unnoticed` | as `events` | violated: an unserved newcomer is not noticed |
| `leftover` | as `events` | violated: a flow that is over is not removed |
| `reporter` | seven modes, at most two threads, ring of 3 slots | the ring is a channel; reports, sums and answers are complete; nobody waits for a reporter that sleeps; the process ends |
| `session` | fourteen settings, at most two streams | client list, single-client mode, totals; everybody ends |
| `iperf` | fourteen tests of two processes; 2744 command lines that are only read | thread counts, nothing cut off, reverse tests, settings; processes end |

Deadlock is not checked: each of these programs may stop. The placement stops with
an exception, the event loop after its duration, iperf when its work is done.

### Bounds

*Placement.* The line is the smallest network with a path of two links. Its
capacities give one candidate that hosts several controllers and flows, one that
can only control itself and one that can just coordinate, so that every action,
every refusal and both exceptions occur (all actions are covered). Two flows are
needed for a flow that is served while another is refused; the third, served by
node 1, uses the first link twice and the second once, so that what it takes from
two links is not the same. The state space is finite without a bound on the number
of calls: 48 thousand states. That the capacities of links are accounted for on
networks with other paths is proved (`CapacityStaysAccounted`).

*Routing* has the bound `Backlog`: how many requests a switch may have waiting.
With two at the middle switch, which both paths cross, an addition and the
deletion that follows it wait there while others have handled both, and the
driver is rounds ahead; a third would queue behind them in the same order.

*EventLoop.* With three flows one can be on the blacklist, one be rejected or have
gone, and one be new. Arrivals are closer together or further apart than flows
last, so that a flow outlives several buckets or none. `Duration` ends the loop
after two seconds, which is past the first retry (`Retry`). `Ahead = 1` gives three
million states: work takes no time, or it takes longer than simulated time has
gone on.

*Reporter.* A ring of three slots is the smallest on which the agent waits, wraps,
and finds the reporter in the middle; packets are enough to go round the ring
twice. Two agents are enough for a barrier with a wait, for a list of reports
with a middle, and for sums of a pair; larger groups are left to the proofs.
`early` bounds whose wait may return unsignalled: both clients in `PairOfTotals`,
the one that waits for ever in `OneCannotConnect`. 280 thousand states.

*Session.* One stream on a network that may lose two datagrams (all of the two
tries) or copy one; two streams of one host, or of two hosts, for the list of
clients; three tries after one datagram for a FIN below zero, to a server thread and,
with 64-bit counters, to a single server. `MaxSockets = 3` leaves one socket to
listen; `Half = 8` is above every number and flow id used. 250 thousand states.

*Iperf.* Two clients (`-P 2`), the listener and server of a test that comes back
and the reporter are five threads, each of a different kind or a second of a kind;
nothing bounds them but the command lines. Three words are enough for each pair of
options with something between or before them. 190 thousand states.

### Fairness

*Placement*: weak fairness of the program's own steps while a call is running
(`pc # "idle"`), none for the driver; a single-threaded function that was called
runs on. *Routing*: weak fairness of the steps of `modifyRoutingTable` and of each
switch; the OpenFlow connections are TCP. None for losing requests, connecting
switches or the driver. *EventLoop*: none. *Reporter*: weak fairness of each agent,
of the reporter and of main's wait: preemptive threads. *Session*: weak fairness of
each client, of the listener and of each server thread, whose time-outs are
steps; none for the network, which may lose whatever its bound allows. *Iperf*:
weak fairness of "some thread of some process makes a step", which is less than
per thread; apart from the reporter falling idle and waking up no step can be
repeated for ever.

`CallsReturn` says that every call ends, in an exception or by returning, unless it
comes to be `Futile`: the node loop of `cpgreedy` waits for uncontrolled nodes, no
candidate left can be given a CRC, and the test that would end the loop is false.
`CallsDescend` says why, without fairness: each step lowers a rank, but in a futile
loop, and no step leaves that one. The finding `endless` shows such a call.

## Findings

Six runs are expected to be violated; `PROJECT.json` quotes the statement of the
thesis each contradicts. In short:

1. `leak`: `addFlowSat` takes `p/(l - 1e-4 - rtt)` and notes `p/(l - rtt)`.
2. `endless`: the loop at line 127 of `cp_flex_fcfs.py` has no exit when no
   candidate finds a CRC.
3. `mutual`: the paths a-b and b-a share their matches; deleting one deletes both.
4. `unrouted`: a flow accepted on arrival is started without its routing.
5. `unnoticed`: flows that have gone are still counted on the blacklist, so a
   newcomer nobody serves may not start a round.
6. `leftover`: a flow that lasts less than the time to its own arrival is filed
   in a bucket the loop has passed, and is never removed.

### Also seen

The models follow the code in the following; where a property excepts one of
them, its comment says so.

*Placement.* The candidate order of `getCLCcandidates` reads `ctmp[0]` of a list
that may be empty (177-179). The ratio used in `browseCurrentCLCs` is computed once
per round (277), where `chapter3.tex` line 234 describes it as current. After a
round in vain line 151 gives up the last CLC even if this round did not add it.
Lines 254-255 strike a candidate that is too weak but leave its coordination.

*Event loop.* Rejected flows never leave the blacklist. A flow is removed by simulated
time while its client may still run, since simulated time is ahead of the wall
clock. A flow that loses its CLC after its traffic has run out, but before it is
removed, later runs its full duration again. Low load is looked at even while
flows wait, and its reason 3 replaces reason 2. `TotalUnsatisfied` gets an entry per round but loses one per
flow. Line 194 compares the time since the epoch with a simulated time, so the
branch that would move a blacklisted flow to a later bucket is never taken
(`EventLoop` leaves it out with `stime`, which nothing else reads).

*Reporter.* A client counts itself out of its group at the barrier and in again
(`Reporter.c` 218) when it has the mutex back; a sum is printed when it has as
many lines as the group has threads (990), so with three clients or more those
that are back first make a sum without the others. A stream whose connection
fails leaves the others of its group at the barrier for ever. So does one whose wait
at the barrier returns unsignalled before the last has come: it counts itself back
in, nobody finds the count at zero any more, and it goes on alone with a start time
of 0. A report of the
connection alone (`-x D`) is never freed and the process does not end, unless main
returns before the reporter has seen the report, which then is not printed. The lines
of a group that start at 0 mix the first interval with the totals; a stream that
stalls uses up the slots.

*Session.* Each repeated FIN has a smaller number (`Client.cpp` 909-910), not a larger
one as its comment says. So if the first is lost, the server counts one datagram more
than the largest number it has (685-687 call the two even). After fewer datagrams
than FINs the number falls below zero, and with 32 bits the FIN is an ordinary
datagram: a server thread counts it with a number near 2^31 and reads on, the listener
takes it for a new client. `UDPSingleServer` negates the word at 619, which leaves the
sign bit in: the totals it sends hold 2^31 less the FIN's number.
With `-X` the FIN is counted, one more than was sent. A lost header
datagram lets the late acknowledgement pass for an answer to the FIN. With 64-bit
counters the low word of a FIN is not negative, so a late one makes a server
without a client, and `UDPSingleServer` never sees the end. With `-k`, as the
emulation runs it, the number of a datagram is overwritten by the flow id (628), so
the losses the server computes mean nothing. `UDPSingleServer` exits at 588 with
the lock of the client list held. Between `connect` and `Listen` nobody listens.

*Threads.* The second signal that main takes kills the process. An alarm between
194 and 308 of `Listener.cpp` stops the listener, and the listener takes back (199)
an alarm that was meant for a client of its process. `setitimer` is per process,
so parallel clients move each other's end. A thread leaves the count before it
starts its successor (`Thread.c` 273-281), so a server with `-P 1` may exit before
the reverse test; `-1 -P 1` takes the listener out before the server thread is
started. A reverse client may come before near's listener has called `listen`. A
header of no bytes leaves the previous one in `mBuf`. The signal handler takes a
lock main may hold (not modelled).

*Options.* `-P` before `-c` is reset to 1. The first pass takes letters inside
attached arguments for options. `-d` and `-r` after `-C` warn and are set all
the same. `Settings_GenerateClientHdr` says by the sign of the amount whether it
is a time; `Settings_GenerateClientSettings` sets the flag for a time (870) but
never takes it back, although it is set from the start (224), so with `-n` the
test that comes back runs for that many hundredths of a second unless the server
was given `-n` too. The header has the rate only if the user did not set one,
and not the number of threads, although the comments at `Settings.cpp` 849 and
920 call the two functions inverse. An amount from 2^31 on is cut.

## Slips

Each checked property is violated by a small slip of the code, kept as a helper
before the definition it is a slip of. No action uses them.

| helper | in place of | breaks |
|---|---|---|
| `VCRatioOfControls` | `VCRatio` | `TypeOK` of `Placement` |
| `HasSomeCLC` | `LosesLastCLC` | `ControlRecordsAgree` |
| `CoordinatesNoneYet` | `CoordinatesOnly` | `CoordinationRecordsAgree` |
| `UselessServing` | `Useless` | `ServedFlowsControlled` |
| `TooSlowNoRTT` | `TooSlow` | `NoOverbooking` |
| `FlowTakenNoRTT`, `StreamsOnce` | `FlowTaken`, `StreamsReleased` | `CapacityAccounted` |
| `StateKept` | `StateWithout` | `SolvedMeansControlled` |
| `SatisfiesOfAll`, `UselessLast` | `Satisfies`, `Useless` | `OnlyDropsTakeAway` |
| `FreeCandsOrCLCs` | `FreeCands` | `CallsDescend` |
| `RoundLostFlows` | `RoundInVain` | `CallsReturn` |
| `LeftOver` | `AfterRequest` | `TypeOK` of `Routing` |
| `DelIP` | `DelFlow` | `TablesFollowRecord` |
| `SameSender` | `SameMatch` | `Undisturbed` |
| `BatchForEnds` | `BatchFor` | `Established` |
| `HasRunAll` | `HasToRun` | `TypeOK` of `EventLoop` |
| `HeldByWallClock` | `Held` | `BucketsAgree` |
| `StillListed` | `Listed` | `SecondChance` |
| `SlotsUsedUpTooLate` | `SlotsUsedUp` | `TypeOK` of `Reporter` |
| `MustWaitToWrapOnceClosed` | `MustWaitToWrap` | `RingIsChannel` |
| `ReporterDone` | `HandedOver` | `NoUseAfterFree` |
| `JoinAgents` | `JoinAll` | `NothingPending` |
| `LastButOneAtBarrier` | `LastAtBarrier` | `StartTogether` |
| `AllRead` | `TotalsReady` | `AnswerIsFinal` |
| `NumberedFromLast` | `Numbered` | `LossesExact` |
| `NextIntervalSameTotal` | `NextInterval` | `IntervalsTile` |
| `AddedLastOnly` | `Added` | `SumIsComplete` |
| `SignalNobody` | `SignalReporter` | `NobodyStuck`, `Terminates` |
| `MoreAcksThanTries` | `MoreAcks` | `TypeOK` of `Session` |
| `DeletedHost` | `Deleted` | `ClientsAreServed` |
| `AdmittedAlways` | `Admitted` | `OneHostOnly` |
| `FinNotCounted` | `Counted` | `TotalsAreEven` |
| `SameTries`, `BlockingRead` | `OneMoreTry`, `SelectTimesOut` | `TestsEnd` |
| `NoArgumentLeftSkipped` | `NoArgumentLeft` | `TypeOK` of `Iperf` |
| `StillHeldAsBefore` | `StillHeld` | `CountIsRight`, `NothingCutOff` |
| `PortOfServer` | `PortToComeBackTo` | `ReverseAsAsked` |
| `BufLenForUDPAlways` | `BufLenForUDP` | `SettingsFollowTheLine` |
| `GoesOnUntilInterrupted` | `GoesOn` | `ProgramsEnd` |

## Proofs

`PlacementProofs` proves, for every finite network, every set of flows and all
capacities, demands and latencies that satisfy the two named assumptions of
`Placement` (sets are finite, `None` is no node, demands are positive):

* `TypeCorrect`: `Spec => []TypeOK`;
* `NeverOverbooked`: `NoOverbooking`;
* `ServedFlowsStayControlled`: `ServedFlowsControlled`;
* `ControlRecordsStayInAgreement`: `ControlRecordsAgree`;
* `SolvedIsTrue`: `SolvedMeansControlled`;
* `OnlyDrops`: `OnlyDropsTakeAway`;
* `CallsGetCloser`: `CallsDescend`, and that the rank it is about is a tuple of
  natural numbers.

The invariant is `Inv == PlaceTypes /\ PlaceLinks /\ AlgTypes /\ AlgLinks`. None of
the properties is inductive alone:

* `PlaceTypes` types the placement with capacities in `Nat`, not `Int`: not
  overbooking is part of the type. The arithmetic is in `DivisionBound` and
  `CheckControlOK`: a request that passes `rtt * p_rem + p <= l * p_rem` has
  `rtt < l` and asks for at most `p_rem`. For flows the admission test is made with
  the limit the charge is made with, so the same lemma applies.
* `PlaceLinks` relates the records: control against its inverse, `controlled`
  against both, the CLC list without duplicates, served flows against control,
  the latency of each control against its limit (so that a refund divides by a
  positive number), and `state`.
* `AlgTypes` and `AlgLinks` type the locals and say which are set at which `pc`: a
  CLC being taken down, a flow being served, pending flows that are flows.

There is a lemma per elementary operation (`AddCLCcontrolInv`, `RemCLCcontrolInv`,
`AddFlowSatInv`, ...), then one per action, and `Invariance` puts them together.

`CallsGetCloser` is the part of the end of calls that can be proved. `Rank` is, in
this order, the stage of the call; what its rounds use up (the CLCs that low load
may drop, or the candidates without CLC); the place in the round; and two numbers
for the loop at work, such as the pending paths and the pending flows of
`addNewCLC`. Every step of a call lowers it in lexicographic order: a round either
makes its candidate a CLC or strikes it off (`AddNewCLCDescends`), and a round for
flows that finds no CRC is in vain, hence the last one (`FindNoneDescends`), because
no flow was served since it noted their number. `LoopInv` says this, where each loop
returns to, that only candidates without CLC are asked for, and that the pending
paths are finitely many. The loop for uncontrolled nodes is where the code has no
such measure: a round without a CRC leaves everything as it was. `Futile` says
exactly when that is for ever, the general form of the finding `endless`: what the
choice of a CRC depends on does not change in such a round (`HostsKept`), so no
step leaves it (`FutileStays`); outside it, a candidate that can be given a CRC is
among those still to be asked, so its search ends with one or has fewer left. So a
call that does not get there ends, if there is always a next step; that there is
one is left to `CallsReturn` on the run.

`CoordinationProofs` adds, under the same assumptions,

* `CoordinationStaysInAgreement`: `CoordinationRecordsAgree`;
* `CapacityStaysAccounted`: `CapacityAccounted`.

The invariant of the first says, next to the agreement of the records
(`CoordRecords`) and that every CLC has a CRC (`CoordLinks`), whom the loops run
over (`LoopLinks`): `findCRC` candidates without a CLC, the search for a single
flow CLCs. The delicate case is a candidate that cannot control itself: it
leaves the candidates but keeps its CRC, and `addNewCLC` goes on with its paths,
so that it may become a CLC after all. What makes that harmless is that the
source of every pending path has a CRC.

The accounts are sums over the present records, so a step is right if it changes
the sum by what it takes or gives back. For the links that is `CarriedMore`: a
control adds one to the controls a link carries if the link is on its path, and
nothing otherwise. It holds only of a control that is new, and the code adds one
without asking whether it is there already; `NewOnly` says why it never is: the
pending paths of `addNewCLC` and the nodes a single flow still lacks leave out
what the CLC controls. What a CLC takes back is what its record notes, for a flow
less than what was taken (`FlowNoted`, `FlowTaken`), hence the inequality at nodes.
`Sums` has what this needs of `SumFunctionOnSet`, whose definition picks the
elements in an order it does not tell: `SumWithout`, taking any element out first
gives the same sum, is by induction on the subsets, in the form of a smallest
counterexample (`LeastNumber`), because the induction theorems of the library
cannot be instantiated here.

`RoutingProofs` proves, for every network, any paths without repetition and any
number of waiting requests (`PairAssumption`, `PathAssumption`):

* `TypeCorrect`: `TypeOK`;
* `TablesFollow`: `TablesFollowRecord`;
* `TrafficKeepsItsPath`: `Undisturbed`.

The last two assume `NoMutualControl`: no two nodes may control each other.
Without it two paths share all their matches, and the run `mutual` has the
counterexample to `Undisturbed`. With it a request about one path leaves the
entries of every other path alone (`OthersKeep`), so that each path can be
followed by itself. The invariant is `TypeOK /\ Own /\ Entries /\ InStep`:

* `Own`: a switch is only ever sent, and only holds, entries of paths it is on;
* `Entries`: `JsonEntries` holds paths just recorded, or just struck off;
* `InStep`: for a path whose last request was not lost, and each switch on it, the
  last request on its way there says what the controller was last told; if none
  is on its way, the table already does. `TablesFollowRecord` speaks of the quiet
  states alone, where this is all that is left of it.

`EventLoopProofs` proves, for any number of flows, any loads and any division of
the second into ticks (`FlowAssumption`, `TimeAssumption`, `LoadAssumption`):

* `TypeCorrect`: `TypeOK`;
* `BucketsStayInAgreement`: `BucketsAgree`;
* `SecondChanceGiven`: `SecondChance`.

The invariant is `TypeOK /\ Bounds /\ BucketsAgree /\ Listing` with `KeepsUp`.
`KeepsUp` says that the wall clock has come to simulated time when an iteration
begins, and that from then on simulated time is ahead by no more than the step
the iteration made (`SleepTypes`: whichever of the two times line 343 takes for
the sleep, it is enough). It is what puts a new flow into a bucket that is still
to come. `Bounds` holds what
the types of one action need from another: the limit is positive in a round made
because of low load, somebody serves the served flows, and there is room for the
flow that arrives. `Listing` relates the blacklist to what is served: a listed
flow that is not served was not served since it was listed, and between an
arrival, which takes served flows off the list, and the next round no listed flow
is served. The buckets: rounding up is monotone, and `Expire` and
`ExpireNow` keep only flows that end after the present time.

`ReporterProofs` proves, for any set of agents, any ring of at least three slots
and any scenario of the form `ScenarioAssumption` states (`N >= 3`, finite groups,
each report ends with its only packet of negative id, which is `CloseReport`'s and
has length 0):

* `RingIsSafe`: the invariant `RingInv` of the ring;
* `RingImplementsChannel`: `RingIsChannel`, the refinement of `PacketChannel`;
* `BarrierIsKept` and `ClientsStartTogether`: `BarrierInv`, `StartTogether`;
* `ListIsSafe` and `NothingUsedAfterFree`: `ListInv`, `NoUseAfterFree`;
* `PendingIsKnown`: `PendingInv`, and with the statistics `NothingIsPending`:
  `NothingPending`;
* `StatisticsAreKept`: `StatInv`, and from it `AnswersAreFinal` (`AnswerIsFinal`),
  `IntervalsFollow` (`IntervalsTile`) and `LossesAreExact` (`LossesExact`);
* `SumsAreComplete`: `SumIsComplete`, from `SumsInv`;
* `NobodyIsStuck`: `NobodyStuck`, from `WaitInv`;
* `ReporterTypes`: `TypeOK`.

The argument for the ring: `Held(r, i)` is the number of packets that wait when
the reporter is on slot r and the agent's next slot is i, and it equals what was
sent minus what was taken. The agent never stands on the reporter's slot, so that
equal indices mean "empty" only. The agent tests an old copy of the reporter's
index, but since only the reporter moves it, and only forward, the copy makes the
agent wait too early and never too late. The reporter closes a ring only after
the last packet, so that a `reporterindex` of -1 means that everything was sent.
The barrier: the thread count of the group is the number of clients that are not
at it or leaving it, at all times, since whoever leaves, signalled or not, counts
itself back in. Who finds it at one is therefore the last (`LastOne`). Before that
only those are past the barrier that returned early; afterwards nobody is before it.

Each further invariant stands on those before it. `ListInv`: the list has no
report twice; a pass works on a final part of it, to which nobody adds, since new
reports go in front; a thread that uses its report has it in the list, and it is
freed only after the thread handed it over (`agentindex` of -1). `PendingInv`: when
the reporter has fallen idle and left the count, nothing is in the list of a
thread that is gone, and a thread that is not gone has not closed its report, so
that main, which waits for the threads too, finds an empty list. `StatInv`: the
counters of a report are those of the packets read so far. Three sums are
carried along with them (`Sums`): the lengths read, the lengths printed, and for
UDP `err - ooo = id - |arrivals|`, whatever the order in which numbers arrive. The
interval lines tile the time up to `next`, no packet read before is past it, and
the totals come last.

`SumsInv` follows each line into the sums. `Shared` says that every slot and every
sum of a regular start (one at which a stream prints one line only) comes with a
set of streams: their lines with that start add up to its figures, a slot has
counted as many as `free` says, and sums of equal start, and the slot still open
for it, have no stream in common. A line that is printed belongs to none of these
sets, because it is the first of its stream with that start (`NewStart`, from the
tiling), and a line once printed is never changed. What the count of threads is at
that moment only decides when a sum is printed; that it is two at least is all that
is used. When the slots run out, the slot taken loses its lines, and the sum
printed later is still one of those streams that came after.
`WaitInv`: threads that wait for `ReportDoneCond` are about to write, hence use their
report, hence have it in the list, on which the reporter does not sleep (`ListInv`);
and one client of a group at least is not at its barrier, which until the last has
come is still to come, could not connect, or left early (`ToCome`).

`SessionProofs` proves, for any streams and hosts (`PeerAssumption` keeps their
names apart from the two the model uses), any settings of the form
`ScenarioAssumption` states and any losses, copies and reorderings:

* `TypeCorrect`: `TypeOK`;
* `ListAgreesWithThreads`: `ClientsAreServed`;
* `SingleClientIsSingle`: `OneHostOnly`;
* `TotalsStayEven`: `TotalsAreEven`.

The invariant is `ClientShapes /\ ServerShapes /\ DatagramShapes /\ ListInv`. The
shapes type both sides and what is on its way between them; a server thread has
not answered before its test ends. `ListInv` adds three things to
`ClientsAreServed`. `HandOver`: from the first datagram of a stream to
`StartServer` the listener's socket has no thread, and the stream, which was not
in the list when its datagram was read, still is not, although server threads
delete entries in between. `GroupsMade`: a new group is larger than those in use,
so that a group never stands for two hosts. `OfAllowedHost`: with `-1` everything
in the list, and the stream about to enter it, is of the host allowed; the list
may become empty, and be reset, at any moment in between. The two lemmas
`EntryAdded` and `EntryDeleted` carry the list: a peer has one entry at most, so
the first entry `Iperf_delete` finds is the thread's own.

For `TotalsAreEven` the network has to be counted in. `Load(s, c)` is the number of
data of stream c that wait in socket s or may still get there, and `EvenRec` says
of a thread that what it has counted, one more for the datagram the listener took,
and the load is at most `packetID`, one more once the FIN was counted; that its
last number is at most `packetID` or the flow id; and that after the FIN the
client is over and the last number lacks less than `tries` to `packetID`. It says
nothing once a FIN's number was below zero (`Wrapped`), and nothing of the last number
of a single server. It is inductive only
with what every datagram says on its way (`Genuine`, `Fine`), with `Spare` (a stream
has numbered whatever waits in any one socket). All that is
`EvenInv`; `PlainEven` asks for it only while `copies = run.copies`, and a copy that
was made is never taken back.

`IperfProofs` proves, for any scenario, that is any environments and command lines
(so any number of parallel clients) and any number of interrupts, and for any
texts in them (`NumberAssumption`: the number a text starts with is natural):

* `CountOfThreads`: `CountIsRight`;
* `MainWaitsForAll`: `NothingCutOff`;
* `TestComesBackAsAsked`: `ReverseAsAsked`;
* `OrderDoesNotMatter`: `SettingsFollowTheLine`;
* `TypesAreKept`: `TypeOK`.

The invariant `IInv` is `Right(threads[p], thread_sNum[p], nonterminating_num[p])`
for each process, with the types of settings and connections. `Right` says that
the first count is the number of counted threads, and the second 1 if a thread is
registered and not yet released, else 0; the latter needs that a process never
has a second listener (`OneListener`): `client_init` starts one for a test that
comes back, and only main and the listener of a server call it, the listener with
settings in compatibility mode, which start none (`HeaderClients`). `Placed` says
at which places a thread is registered and has a report. A step of one thread is
`ThreadContinues`, a start `ThreadStarted`, an interrupt or the last group of
`-1` `ListenersReleased`. Main leaves at a count of 0; then no counted thread is
left, and clients and servers are always counted until they finish.

Command lines: `LineInv` says of the settings at every moment what
`SettingsFollowTheLine` says of them at the end, relative to the options met so far
(`Told`), and in addition that the flags for a given length, a given rate and UDP
are set exactly if `-l`, `-b` and `-u` were met, since what an option sets depends
on them. `OptionTells` is the step: one more option, whichever it is. Nothing but
reading changes settings. `ReverseAsAsked` needs only the shape of the settings
on both sides and follows by unfolding header and derivation. The types need that
sockets are connections that were made, also in the settings of threads that are
still to be started (`MadeInv`), and that getopt stays within the line and in a
cluster of letters only within a word of it (`ReadingInv`); for this a command line
is of finite length (`ScenarioAssumption`).

Only model-checked are

* the statements of the thesis that the code does not keep, which their runs refute;
* liveness, which is out of the prover's reach: `CallsReturn`, `Established`,
  `Terminates`, `TestsEnd`, `ProgramsEnd`.

## Not modelled

* Mininet and MaxiNet set-up: a sequence of calls made once; its outcome is the
  constants of `Routing`.
* Traffic delay buckets and the counters `TotalSatisfied`, `TotalUnsatisfied`,
  `TotalFlowStopped`: arithmetic and statistics of which nothing else reads.
* Sockets, output formats, the delay loops and window sizes of iperf: system calls
  and data; and failing system calls other than those named above.
* `service.c`, which is compiled on Windows only.
* Echo scripts, topology generators, traffic models and plots: they keep no state.

## What is left

* `bind` and `listen` that fail, and a header that is late or cut in half
  (`Listener.cpp:233-236`, 772-786, 801-804), in `Iperf`.
