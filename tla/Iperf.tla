--------------------------------- MODULE Iperf ---------------------------------
(* Two iperf processes and the TCP tests between them: near is given a host to   *)
(* test against, far is what runs there.  Each reads its settings (Options),     *)
(* starts a reporter and its clients or its listener (main.cpp, Launch.cpp) and  *)
(* waits for its threads (Threads).  A test may come back: the listener of far   *)
(* reads the header of a connection and starts a client of its own, at once (-d) *)
(* or when the server thread is done (-r), and near has a listener for it.       *)
(* Packets, rings and sums are the module Reporter's: here a thread's report is  *)
(* closed, printed and given back.  UDP tests are the module Session's.          *)
(*                                                                               *)
(* A helper no action uses (GoesOnUntilInterrupted, ...) is a slip of the one that *)
(* follows it; the README lists the property each would break.                   *)
EXTENDS Options, Threads

CONSTANTS
    Scenario,   \* what is run: for each process its environment and command line
    HostOf      \* HostOf[p]: the text that names the host of a process

ASSUME ScenarioAssumption == \A s \in Scenario : \A p \in Program : Len(s.line[p].argv) \in Nat

VARIABLES
    launch,     \* bound: whether the settings are only read
    interrupts, \* bound: interrupts the user may still send to a process
    conns,      \* TCP connections in the order they were made
    timer,      \* timer[p]: whether ITIMER_REAL of a process runs
    mClients,   \* of the listener of a process
    buffer,     \* buffer[p]: whether mBuf of its listener holds a header
    mishaps     \* history: what kept a test from running to its end

tcpVars == <<conns, mClients, buffer>>
vars == <<launch, line, optionVars, threadVars, interrupts, tcpVars, timer, mishaps>>
runVars == <<launch, line, optionVars>>

--------------------------------------------------------------------------------
(* The settings of a thread.                                                     *)
ListenerSettings(p) ==
    IF settings[p].threadMode = "Listener" THEN settings[p]
    ELSE Settings_GenerateListenerSettings(settings[p])
Comes(p) == settings[p].threadMode = "Listener"     \* clients of p were asked for by a header
ClientSettings(p) ==
    IF Comes(p) THEN Settings_GenerateClientSettings(settings[p], HostOf[Peer(p)],
                                                     Settings_GenerateClientHdr(settings[Peer(p)]))
    ELSE settings[p]
ExchangesHeaders(p) ==
    /\ ~Is(ClientSettings(p), "COMPAT")
    /\ Settings_GenerateClientHdr(ClientSettings(p)).flags \cap {"EXTEND", "VERSION1"} # {}

(* client_init: the copies of a client, its listener if the test comes back, and *)
(* the client itself, which starts the others before it, the last one first.     *)
client_init(s) ==
    LET copy == Settings_Copy("client", <<>>, 0)
        listener == IF NeedsListener(s) THEN <<Settings_Copy("listener", <<>>, 0)>> ELSE <<>>
    IN [i \in 1 .. s.threads - 1 |-> copy] \o listener \o <<copy>>

(* Whether p listens at a port.                                                  *)
Listening == {"accept", "check", "header", "begin"}
Listens(p, port) ==
    /\ process[p] = "running"
    /\ \E i \in Thread(p) : threads[p][i].mode = "listener" /\ threads[p][i].pc \in Listening
    /\ ListenerSettings(p).port = port

(* main: the reporter starts the client or the listener before itself.           *)
reporter == Settings_Copy("reporter", <<>>, 0)
main(p) ==
    /\ process[p] = "running" /\ At(p, 1, "start")
    /\ \A q \in Program : HasRead(q)
    /\ IF \/ getopt[p].pass = "exit"
          \/ settings[p].threadMode = "Unknown"
          \/ settings[p].threadMode = "Client" /\ Is(settings[p], "DAEMON")
          \/ ~launch
       THEN /\ process' = [process EXCEPT ![p] = "usage"]
            /\ UNCHANGED threads
       ELSE /\ threads' = [threads EXCEPT ![p][1] =
                  [@ EXCEPT !.pc = "join",
                            !.todo = Append(IF Comes(p) THEN <<Settings_Copy("listener", <<>>, 0)>>
                                            ELSE client_init(settings[p]), reporter)]]
            /\ UNCHANGED process
    /\ UNCHANGED <<runVars, countVars, signalVars, interrupts, tcpVars, timer, mishaps>>

--------------------------------------------------------------------------------
(* The network.  A connection is made when the other side listens at the port.   *)
(* When a process ends, or its listener, the kernel closes its sockets.          *)
Connection(p) == [from |-> p, state |-> "queued", hdr |-> FALSE, data |-> FALSE, eof |-> FALSE]
Queue(p) == {c \in DOMAIN conns : conns[c].from # p /\ conns[c].state = "queued"}
Dropped(cs, p, states) ==
    [c \in DOMAIN cs |-> IF cs[c].from # p /\ cs[c].state \in states
                         THEN [cs[c] EXCEPT !.state = "dropped"] ELSE cs[c]]
WithoutProcess(cs, p) ==
    LET left == Dropped(cs, p, {"queued", "taken"})
    IN [c \in DOMAIN left |-> IF left[c].from = p THEN [left[c] EXCEPT !.eof = TRUE] ELSE left[c]]

Alters(p, i, pc, field, value) ==
    threads' = [threads EXCEPT ![p][i] = [@ EXCEPT !.pc = pc, ![field] = value]]
restVars == <<runVars, interrupts>>
UnchangedThreads == UNCHANGED <<countVars, process, signalVars, restVars>>

--------------------------------------------------------------------------------
(* A client.  connect fails when nobody listens, and the thread stops at once.   *)
Connect(p, i) ==
    /\ At(p, i, "connect")
    /\ UNCHANGED <<restVars, mClients, buffer, timer>>
    /\ IF Listens(Peer(p), ClientSettings(p).port)
       THEN /\ conns' = Append(conns, Connection(p))
            /\ Alters(p, i, "hdr", "sock", Len(conns) + 1)
            /\ UNCHANGED <<countVars, process, signalVars, mishaps>>
       ELSE /\ thread_stop(p, i)
            /\ mishaps' = mishaps \cup {"refused"}
            /\ UNCHANGED <<conns>>

InitiateServer(p, i) ==
    /\ At(p, i, "hdr")
    /\ Goes(p, i, "barrier")
    /\ conns' = [conns EXCEPT ![threads[p][i].sock].hdr = ExchangesHeaders(p)]
    /\ UnchangedThreads /\ UNCHANGED <<mClients, buffer, timer, mishaps>>

(* InitReport: parallel clients wait for each other; then a client that runs for *)
(* a time sets the timer of the process, which a time of 0 disarms, and writes.  *)
Arrived(p) ==
    {i \in Thread(p) : threads[p][i].mode = "client"
                       /\ threads[p][i].pc \notin {"connect", "hdr", "stopped"}}
Begin(p, i) ==
    /\ At(p, i, "barrier")
    /\ Cardinality(Arrived(p)) >= ClientSettings(p).threads
    /\ Goes(p, i, "write")
    /\ timer' = [timer EXCEPT ![p] = IF Is(ClientSettings(p), "MODETIME")
                                     THEN ClientSettings(p).amount > 0 ELSE @]
    /\ conns' = [conns EXCEPT ![threads[p][i].sock].data = TRUE]
    /\ UnchangedThreads /\ UNCHANGED <<mClients, buffer, mishaps>>

(* RunTCP and RunRateLimitedTCP: the loop ends after an error or an interrupt,   *)
(* or when the amount is written.                                                *)
LeavesLoop(p, c) ==
    \/ c.state = "dropped"
    \/ sInterupted[p] # "no"
    \/ ~Is(ClientSettings(p), "MODETIME")
StopWriting(p, i) ==
    /\ At(p, i, "write")
    /\ LeavesLoop(p, conns[threads[p][i].sock])
    /\ Alters(p, i, "end", "rep", "closed")
    /\ UnchangedThreads /\ UNCHANGED <<tcpVars, timer, mishaps>>
EndClient(p, i) ==
    /\ At(p, i, "end") /\ threads[p][i].rep = "printed"
    /\ thread_run_wrapper(p, i)
    /\ conns' = [conns EXCEPT ![threads[p][i].sock].eof = TRUE]
    /\ UNCHANGED <<restVars, mClients, buffer, timer, mishaps>>

--------------------------------------------------------------------------------
(* A server thread: read until the client closes, or the time is up.             *)
(* CloseReport and Iperf_delete.                                                 *)
StopReading(p, i) ==
    /\ At(p, i, "read")
    /\ conns[threads[p][i].sock].eof \/ Is(ListenerSettings(p), "SERVERMODETIME")
    /\ Alters(p, i, "end", "rep", "closed")
    /\ UnchangedThreads /\ UNCHANGED <<tcpVars, timer, mishaps>>
EndServer(p, i) ==
    /\ At(p, i, "end") /\ threads[p][i].rep = "printed"
    /\ thread_run_wrapper(p, i)
    /\ conns' = [conns EXCEPT ![threads[p][i].sock].state = "dropped"]
    /\ UNCHANGED <<restVars, mClients, buffer, timer, mishaps>>

(* The list of clients is empty.                                                 *)
NoClients(p) ==
    \A i \in Thread(p) : threads[p][i].mode = "server" => threads[p][i].pc # "read"

--------------------------------------------------------------------------------
(* The listener.                                                                 *)
Listen(p, i) ==
    /\ At(p, i, "listen")
    /\ Goes(p, i, "accept")
    /\ mClients' = [mClients EXCEPT ![p] = ListenerSettings(p).threads]
    /\ UnchangedThreads /\ UNCHANGED <<conns, buffer, timer, mishaps>>
Accept(p, i) ==
    /\ At(p, i, "accept") /\ Queue(p) # {}
    /\ LET c == Min(Queue(p))
       IN /\ Alters(p, i, "check", "sock", c)
          /\ conns' = [conns EXCEPT ![c].state = "taken"]
    /\ UnchangedThreads /\ UNCHANGED <<mClients, buffer, timer, mishaps>>

(* The listening socket is closed with what is queued there.                     *)
StopListening(p, i) ==
    /\ Goes(p, i, "unregister")
    /\ conns' = Dropped(conns, p, {"queued"})
    /\ mishaps' = mishaps \cup {m \in {"dropped"} : conns' # conns}
AcceptTimeout(p, i) ==
    /\ At(p, i, "accept")
    /\ Is(ListenerSettings(p), "SERVERMODETIME") /\ ~Is(ListenerSettings(p), "DAEMON")
    /\ StopListening(p, i)
    /\ UnchangedThreads /\ UNCHANGED <<mClients, buffer, timer>>

(* After a connection an interrupt ends the listener; an alarm, which may be     *)
(* meant for a client of the same process, is taken back.                        *)
Swallowed(p) ==
    \E i \in Thread(p) : threads[p][i].mode = "client"
                         /\ threads[p][i].pc \in {"connect", "hdr", "barrier", "write"}
NoInterrupt(p, i) ==
    /\ At(p, i, "check") /\ sInterupted[p] # "INT"
    /\ Goes(p, i, "admit")
    /\ sInterupted' = [sInterupted EXCEPT ![p] = "no"]
    /\ mishaps' = mishaps \cup {m \in {"alarm"} : sInterupted[p] = "ALRM" /\ Swallowed(p)}
    /\ UNCHANGED <<countVars, process, sThread, restVars, tcpVars, timer>>
Interrupted(p, i) ==
    /\ At(p, i, "check") /\ sInterupted[p] = "INT"
    /\ LET c == threads[p][i].sock
       IN /\ conns' = Dropped([conns EXCEPT ![c].state = "queued"], p, {"queued"})
          /\ mishaps' = mishaps \cup {"dropped"}
    /\ Goes(p, i, "unregister")
    /\ UnchangedThreads /\ UNCHANGED <<mClients, buffer, timer>>

(* The listener goes on unless it was interrupted or has served its number.      *)
GoesOnUntilInterrupted(p, left) == sInterupted[p] = "no"
GoesOn(p, left) == sInterupted[p] = "no" /\ (ListenerSettings(p).threads = 0 \/ left > 0)

(* -1: with the first client of the last group the listener leaves the count.    *)
FirstOfGroup(p) == Is(ListenerSettings(p), "SINGLECLIENT") /\ NoClients(p)
AdmitGroup(p, i) ==
    /\ At(p, i, "admit") /\ FirstOfGroup(p)
    /\ UNCHANGED <<process, signalVars, restVars, conns, buffer, timer, mishaps>>
    /\ IF mClients[p] = 1
       THEN /\ threads' = [threads EXCEPT ![p] = Released([threads[p] EXCEPT ![i].pc = "header"])]
            /\ thread_sNum' = [thread_sNum EXCEPT ![p] = @ - nonterminating_num[p]]
            /\ nonterminating_num' = [nonterminating_num EXCEPT ![p] = StillHeld(@)]
            /\ UNCHANGED mClients
       ELSE /\ mClients' = [mClients EXCEPT ![p] = @ - 1]
            /\ Goes(p, i, "header")
            /\ UNCHANGED countVars

(* A listener that is given a host takes nobody else, but with -1 that host is   *)
(* the one of the group, however it was given.                                   *)
Allowed(p) ==
    \/ Is(ListenerSettings(p), "SINGLECLIENT")
    \/ ListenerSettings(p).host \in {Nothing, HostOf[Peer(p)]}
Admit(p, i) ==
    /\ At(p, i, "admit") /\ ~FirstOfGroup(p) /\ Allowed(p)
    /\ Goes(p, i, "header")
    /\ UnchangedThreads /\ UNCHANGED <<tcpVars, timer, mishaps>>
TryAgain(p, i) ==
    /\ At(p, i, "admit") /\ ~FirstOfGroup(p) /\ ~Allowed(p)
    /\ Goes(p, i, IF GoesOn(p, mClients[p]) THEN "accept" ELSE "unregister")
    /\ conns' = [conns EXCEPT ![threads[p][i].sock].state = "dropped"]
    /\ mishaps' = mishaps \cup {"dropped"}
    /\ UnchangedThreads /\ UNCHANGED <<mClients, buffer, timer>>

(* ReadClientHeader waits for the first bytes; when there are none, mBuf keeps   *)
(* what it held.  A header may ask for a test back: a client that is started     *)
(* before the server thread, or after it.                                        *)
ReadsHeaders(p) == ListenerSettings(p).flags \cap {"COMPAT", "MULTICAST"} = {}
ReadClientHeader(p, i) ==
    LET c == conns[threads[p][i].sock]
        held == IF c.hdr \/ c.data THEN c.hdr ELSE buffer[p]
        hdr == Settings_GenerateClientHdr(settings[Peer(p)])
        client == IF ReadsHeaders(p) /\ held /\ AsksForTest(hdr) THEN client_init(ClientSettings(p))
                  ELSE <<>>
        now == "RUN_NOW" \in hdr.flags
        server == Settings_Copy("server", IF now THEN <<>> ELSE client, threads[p][i].sock)
    IN /\ At(p, i, "header")
       /\ ReadsHeaders(p) => c.hdr \/ c.data \/ c.eof
       /\ buffer' = [buffer EXCEPT ![p] = IF ReadsHeaders(p) THEN held ELSE @]
       /\ Alters(p, i, "begin", "todo", Append(IF now THEN client ELSE <<>>, server))
       /\ UnchangedThreads /\ UNCHANGED <<conns, mClients, timer, mishaps>>

NextClient(p, i) ==
    LET left == IF Is(ListenerSettings(p), "SINGLECLIENT") THEN mClients[p] ELSE mClients[p] - 1
    IN /\ At(p, i, "begin") /\ threads[p][i].todo = <<>>
       /\ mClients' = [mClients EXCEPT ![p] = left]
       /\ IF GoesOn(p, left) THEN Goes(p, i, "accept") /\ UNCHANGED <<conns, mishaps>>
          ELSE StopListening(p, i)
       /\ UnchangedThreads /\ UNCHANGED <<buffer, timer>>

--------------------------------------------------------------------------------
(* The reporter: it prints the reports that are closed and frees those that are  *)
(* given back; when it has freed the last one it leaves the count and waits.     *)
Reports(p) == {j \in Thread(p) : threads[p][j].rep # "none"}
ReporterPrints(p, i) ==
    /\ At(p, i, "work")
    /\ \E j \in Reports(p) :
          /\ threads[p][j].rep = "closed"
          /\ threads' = [threads EXCEPT ![p][j].rep = "printed"]
    /\ UnchangedThreads /\ UNCHANGED <<tcpVars, timer, mishaps>>
ReporterFrees(p, i) ==
    /\ At(p, i, "work")
    /\ \E j \in Reports(p) :
          /\ threads[p][j].rep = "released"
          /\ threads' = [threads EXCEPT ![p][j].rep = "none"]
    /\ UnchangedThreads /\ UNCHANGED <<tcpVars, timer, mishaps>>
ReporterIdles(p, i) ==
    /\ At(p, i, "work") /\ Reports(p) = {}
    /\ thread_setignore(p, i)
    /\ UNCHANGED <<restVars, tcpVars, timer, mishaps>>
ReporterWakes(p, i) ==
    /\ At(p, i, "ignored") /\ Reports(p) # {}
    /\ thread_unsetignore(p, i)
    /\ UNCHANGED <<restVars, tcpVars, timer, mishaps>>

--------------------------------------------------------------------------------
(* The end of a process, and what it leaves undone.                              *)
Undone(p) ==
    \/ Queue(p) # {}
    \/ \E i \in Thread(p) \ {1} :
          LET t == threads[p][i]
          IN \/ t.mode \in {"client", "server"} /\ (~Finished(t) \/ t.todo # <<>>)
             \/ t.mode = "listener" /\ t.pc \in {"check", "admit", "header", "begin"}
JoinAll(p) ==
    /\ thread_joinall(p)
    /\ conns' = WithoutProcess(conns, p)
    /\ mishaps' = mishaps \cup {m \in {"cut"} : Undone(p)}
    /\ UNCHANGED <<restVars, mClients, buffer, timer>>
Signal(p, signo) ==
    /\ Sig_Interupt(p, signo)
    /\ conns' = IF process'[p] = "killed" THEN WithoutProcess(conns, p) ELSE conns
    /\ mishaps' = mishaps \cup {m \in {"killed"} : process'[p] = "killed"}
    /\ UNCHANGED <<runVars, mClients, buffer>>
Alarm(p) ==
    /\ timer[p]
    /\ Signal(p, "ALRM")
    /\ timer' = [timer EXCEPT ![p] = FALSE]
    /\ UNCHANGED interrupts
Interrupt(p) ==
    /\ interrupts[p] > 0
    /\ At(p, 1, "join")
    /\ Signal(p, "INT")
    /\ interrupts' = [interrupts EXCEPT ![p] = @ - 1]
    /\ UNCHANGED timer

--------------------------------------------------------------------------------
Init ==
    /\ \E s \in Scenario : /\ OptionsInit(s.line)
                           /\ interrupts = s.interrupts
                           /\ launch = s.launch
    /\ ThreadsInit
    /\ conns = <<>>
    /\ timer = [p \in Program |-> FALSE]
    /\ mClients = [p \in Program |-> 0]
    /\ buffer = [p \in Program |-> FALSE]
    /\ mishaps = {}

(* One command line is read after the other: nobody sees the order.              *)
Read(p) ==
    /\ p = near => HasRead(far)
    /\ Settings_ParseEnvironment(p) \/ Settings_ParseCommandLine(p)
    /\ UNCHANGED <<launch, line, threadVars, interrupts, tcpVars, timer, mishaps>>

ClientStep(p, i) ==
    /\ threads[p][i].mode = "client"
    /\ \/ Connect(p, i) \/ InitiateServer(p, i) \/ Begin(p, i)
       \/ StopWriting(p, i) \/ EndClient(p, i)
ServerStep(p, i) ==
    /\ threads[p][i].mode = "server"
    /\ StopReading(p, i) \/ EndServer(p, i)
ListenerStep(p, i) ==
    /\ threads[p][i].mode = "listener"
    /\ \/ Listen(p, i) \/ Accept(p, i) \/ AcceptTimeout(p, i) \/ NoInterrupt(p, i)
       \/ Interrupted(p, i) \/ AdmitGroup(p, i) \/ Admit(p, i) \/ TryAgain(p, i)
       \/ ReadClientHeader(p, i) \/ NextClient(p, i)
       \/ /\ \/ thread_register_nonterm(p, i) \/ thread_unregister_nonterm(p, i)
             \/ At(p, i, "finish") /\ thread_run_wrapper(p, i)
          /\ UNCHANGED <<restVars, tcpVars, timer, mishaps>>
ReporterStep(p, i) ==
    /\ threads[p][i].mode = "reporter"
    /\ ReporterPrints(p, i) \/ ReporterFrees(p, i) \/ ReporterIdles(p, i) \/ ReporterWakes(p, i)
Wrapper(p, i) ==
    /\ thread_start(p, i)
    /\ UNCHANGED <<restVars, tcpVars, timer, mishaps>>
ThreadStep(p, i) ==
    /\ process[p] = "running"
    /\ \/ ClientStep(p, i) \/ ServerStep(p, i) \/ ListenerStep(p, i) \/ ReporterStep(p, i)
       \/ Wrapper(p, i)
MainStep(p) == Read(p) \/ main(p) \/ JoinAll(p)

ProcessStep(p) == MainStep(p) \/ Alarm(p) \/ \E i \in Thread(p) : ThreadStep(p, i)
Next == \E p \in Program : ProcessStep(p) \/ Interrupt(p)

(* As long as a thread of a process can run, one does, and timers expire.        *)
Fairness == WF_vars(\E p \in Program : ProcessStep(p))
Spec == Init /\ [][Next]_vars
FairSpec == Spec /\ Fairness

--------------------------------------------------------------------------------
PCs == {"start", "join", "connect", "hdr", "barrier", "write", "end", "finish",
        "after", "stopped", "read", "register", "listen", "accept", "check", "admit",
        "header", "begin", "unregister", "work", "ignored"}
TypeOK ==
    /\ \A p \in Program :
          /\ getopt[p].pass \in {"environment", "priority", "second", "read", "exit"}
          /\ getopt[p].pass \notin {"environment", "exit"} =>
                getopt[p].optind \in 1 .. Len(line[p].argv) + 1
          /\ process[p] \in {"running", "usage", "joined", "killed"}
          /\ \A i \in Thread(p) : /\ threads[p][i].pc \in PCs
                                  /\ threads[p][i].sock \in 0 .. Len(conns)
                                  /\ threads[p][i].rep \in {"none", "closed", "printed", "released"}
          /\ nonterminating_num[p] \in 0 .. 1
    /\ \A c \in DOMAIN conns : conns[c].state \in {"queued", "taken", "dropped"}

(* When main returns from thread_joinall no client or server thread is running   *)
(* and no report waits to be printed: "wait for other (client, server) threads   *)
(* to complete" (main.cpp:250).  What may be undone is a thread that was not     *)
(* started yet.                                                                  *)
NothingCutOff ==
    \A p \in Program : process[p] = "joined" =>
        \A i \in Thread(p) :
            /\ threads[p][i].mode \in {"client", "server"} => Finished(threads[p][i])
            /\ threads[p][i].rep \in {"none", "released"}

(* A test that comes back is the one asked for: the client that far would start  *)
(* connects to the host and the port where near listens, for the same time, with *)
(* the same buffers and flow (Settings.cpp: GenerateClientHdr and                *)
(* GenerateClientSettings "should be an inverse operation").  A zero in a header *)
(* says that nothing was asked for: -t 0 and -l 0 do not come back.              *)
ReverseAsAsked ==
    (HasRead(near) /\ RunsBothWays(settings[near]) /\ settings[far].threadMode = "Listener") =>
        LET asked == settings[near]
            back == ClientSettings(far)
        IN /\ back.port = Settings_GenerateListenerSettings(asked).port
           /\ back.host = HostOf[near]
           /\ back.mMode = asked.mMode
           /\ back.flowID = asked.flowID
           /\ Is(asked, "MODETIME") /\ asked.amount > 0 =>
                  Is(back, "MODETIME") /\ back.amount = asked.amount
           /\ Is(asked, "BUFLENSET") /\ asked.bufLen > 0 => back.bufLen = asked.bufLen

(* A client ends, and so does a server with a time or with a number of clients   *)
(* that come, unless a connection was refused or dropped, the listener took back *)
(* the alarm of a client, main left before a thread was started, or a second     *)
(* signal ended a process.  A daemon has no time, and -t 0 is a time without end.*)
Endless ==
    \E p \in Program : Is(ClientSettings(p), "MODETIME") /\ ClientSettings(p).amount = 0
MustEnd(p) ==
    /\ ~Endless
    /\ \/ settings[p].threadMode = "Client"
       \/ Is(settings[p], "SERVERMODETIME") /\ ~Is(settings[p], "DAEMON")
       \/ settings[near].threadMode = "Client" /\ settings[p].threads \in 1 .. settings[near].threads
Launched(p) == process[p] = "running" /\ threads[p][1].pc = "join"
ProgramsEnd ==
    \A p \in Program :
        (Launched(p) /\ MustEnd(p)) ~> (process[p] # "running" \/ mishaps # {})
================================================================================
