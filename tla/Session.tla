-------------------------------- MODULE Session --------------------------------
(* A UDP test of iperf over a network that loses, copies and reorders datagrams: *)
(* the sending loop of each stream and its end-of-test exchange (Client.cpp),    *)
(* the listener that takes the first datagram of a stream for a connection       *)
(* (Listener.cpp), the server threads (Server.cpp), and the list of clients they *)
(* share (List.cpp).  UDPSingleServer, which serves all streams from the         *)
(* listener's own socket, is a mode of the listener.                             *)
(*                                                                               *)
(* The kernel gives a datagram to the socket connected to its sender if there is *)
(* one, else to the listening socket; with neither, the sender is told, and its  *)
(* next system call fails (ECONNREFUSED).  Time-outs may fire whenever nothing   *)
(* is there to read.                                                             *)
(*                                                                               *)
(* A helper no action uses (DeletedHost, ...) is a slip of the one that          *)
(* follows it; the README lists the property each would break.                   *)
EXTENDS Integers, FiniteSetsExt, SequencesExt

CONSTANTS
    Stream,     \* client sockets, which are the peers the server sees
    Host,       \* Host[c]: the host of a stream
    MaxSockets, \* bound: sockets the server process opens
    Half,       \* 2^31, which a number of 32 bits needs its sign for
    Scenario    \* what is run: a set of records, see below

ASSUME HalfAssumption == Half \in Nat
ASSUME ScenarioAssumption ==
    \A s \in Scenario :
        /\ s.streams \subseteq Stream
        /\ s.extended \in BOOLEAN     \* isPeerVerDetect: headers are exchanged
        /\ s.wide \in BOOLEAN         \* isSeqNo64b on both sides
        /\ s.single \in BOOLEAN       \* isSingleUDP
        /\ s.only \in BOOLEAN         \* isSingleClient
        /\ s.timed \in BOOLEAN        \* isServerModeTime
        /\ s.flow \in Nat             \* mFlowID of the clients
        /\ s.limit \in Nat            \* mThreads of the server, 0 for no limit
        /\ s.tries \in Nat \ {0}      \* how often a FIN and its answer are sent (10)
        /\ s.writes \in Nat \ {0}     \* bound: writes of a client
        /\ s.losses \in Nat           \* bound: datagrams the network loses
        /\ s.copies \in Nat           \* bound: datagrams the network copies
        /\ s.flow < Half /\ s.writes + 1 < Half /\ s.tries <= Half

(* A peer is neither of the two names below, and no host has the name that       *)
(* stands for none.                                                              *)
NobodyPeer == "none"
ASSUME PeerAssumption ==
    /\ Stream \cap {NobodyPeer, "server"} = {}
    /\ \A c \in Stream : Host[c] # NobodyPeer

VARIABLES
    run,        \* the scenario, which never changes
    cpc,        \* where each client is
    packetID,   \* number of the datagram it sends next
    written,    \* its writes so far
    tries,      \* FINs sent
    inbox,      \* what waits in its socket
    refused,    \* its socket holds an error
    outcome,    \* how it ended, with the answer it got
    net,        \* datagrams on their way
    losses, copies, \* how many the network may still lose and copy
    servers,    \* the server's sockets, each with the thread that reads it
    listening,  \* mSock of the listener
    lpc, cur,   \* where the listener is, the datagram it has taken
    clients,    \* the list of clients: a peer, its server and its group
    groupID,    \* groups made so far
    mClients,   \* how many clients it may still take
    allowed     \* the host it takes clients from

clientVars == <<cpc, packetID, written, tries, outcome>>
faultVars == <<losses, copies>>
kernelVars == <<inbox, refused, net, faultVars>>
listenerVars == <<listening, lpc, cur, clients, groupID, mClients, allowed>>
vars == <<run, clientVars, kernelVars, servers, listenerVars>>

--------------------------------------------------------------------------------
(* A datagram carries the time at which it was written, which tells it from the  *)
(* others with its number.                                                       *)
Datagram(c, kind, id) ==
    [to |-> "server", from |-> c, kind |-> kind, id |-> id, at |-> written[c]]
Reply(c, kind, by) == [to |-> c, from |-> by, kind |-> kind, id |-> 0]

(* A server's socket and the thread that reads it.  count and last are the       *)
(* datagrams it has counted and its PacketID, alien whether one of them came     *)
(* from another stream than its peer.                                            *)
Largest(x, y) == IF x < y THEN y ELSE x
Socket == [peer |-> NobodyPeer, open |-> TRUE, queue |-> <<>>, pc |-> "idle",
           count |-> 0, last |-> 0, alien |-> FALSE, fin |-> FALSE, acks |-> 0]

Connected(c) == {s \in DOMAIN servers : servers[s].open /\ servers[s].peer = c}
Unconnected == Connected(NobodyPeer)

(* List.cpp: entries are put in front, found by peer or by host, and the first   *)
(* one of a peer is deleted.  Streams of one host are a group (InitMulti).       *)
SameHost(c, d) == Host[c] = Host[d]
PlaceOf(c) == SelectInSeq(clients, LAMBDA e : e.peer = c)
PlaceOfHost(c) == SelectInSeq(clients, LAMBDA e : SameHost(e.peer, c))
Iperf_present(c) == PlaceOf(c) # 0
Iperf_hostpresent(c) == PlaceOfHost(c) # 0

GroupOf(c) == IF Iperf_hostpresent(c) THEN clients[PlaceOfHost(c)].group ELSE groupID + 1
Iperf_pushback(c, s) ==
    /\ clients' = Cons([peer |-> c, server |-> s, group |-> GroupOf(c)], clients)
    /\ groupID' = Largest(groupID, GroupOf(c))

DeletedHost(c) == IF Iperf_hostpresent(c) THEN RemoveAt(clients, PlaceOfHost(c)) ELSE clients
Deleted(c) == IF Iperf_present(c) THEN RemoveAt(clients, PlaceOf(c)) ELSE clients

--------------------------------------------------------------------------------
Init ==
    /\ run \in Scenario
    /\ cpc = [c \in Stream |-> IF c \in run.streams THEN "connect" ELSE "done"]
    /\ packetID = [c \in Stream |-> IF run.extended THEN 1 ELSE 0]
    /\ written = [c \in Stream |-> 0] /\ tries = [c \in Stream |-> 0]
    /\ inbox = [c \in Stream |-> <<>>] /\ refused = [c \in Stream |-> FALSE]
    /\ outcome = [c \in Stream |-> [kind |-> "none"]]
    /\ net = {} /\ losses = run.losses /\ copies = run.copies
    /\ servers = <<Socket>>
    /\ listening = 1 /\ lpc = "accept" /\ cur = <<>>
    /\ clients = <<>> /\ groupID = 0 /\ mClients = run.limit /\ allowed = NobodyPeer

(* The network and the kernel.                                                   *)
Lose(m) ==
    /\ m \in net /\ losses > 0
    /\ net' = net \ {m} /\ losses' = losses - 1
    /\ UNCHANGED <<run, clientVars, inbox, refused, copies, servers, listenerVars>>

Taken(m) ==
    \/ net' = net \ {m} /\ UNCHANGED faultVars
    \/ copies > 0 /\ copies' = copies - 1 /\ UNCHANGED <<net, losses>>

DeliverToServer(m) ==
    /\ m \in net /\ m.to = "server"
    /\ Taken(m)
    /\ LET reached == IF Connected(m.from) # {} THEN Connected(m.from) ELSE Unconnected IN
         IF reached = {}
         THEN /\ refused' = [refused EXCEPT ![m.from] = @ \/ cpc[m.from] # "done"]
              /\ UNCHANGED servers
         ELSE /\ \E s \in reached : servers' = [servers EXCEPT ![s].queue = Append(@, m)]
              /\ UNCHANGED refused
    /\ UNCHANGED <<run, clientVars, inbox, listenerVars>>

DeliverToClient(m) ==
    /\ m \in net /\ m.to # "server"
    /\ Taken(m)
    /\ inbox' = [inbox EXCEPT ![m.to] = IF cpc[m.to] = "done" THEN @ ELSE Append(@, m)]
    /\ UNCHANGED <<run, clientVars, refused, servers, listenerVars>>

--------------------------------------------------------------------------------
(* Client.cpp.  A system call of the client fails if its socket holds an error.  *)
Write(c, m) ==
    /\ net' = IF refused[c] THEN net ELSE net \cup {m}
    /\ refused' = [refused EXCEPT ![c] = FALSE]

(* InitiateServer: the header goes out as datagram 0 if the versions are to be   *)
(* compared; otherwise it goes out with every datagram of the test.              *)
InitiateServer(c) ==
    /\ cpc[c] = "connect"
    /\ IF run.extended
       THEN /\ Write(c, Datagram(c, "head", 0))
            /\ cpc' = [cpc EXCEPT ![c] = "header"]
       ELSE /\ cpc' = [cpc EXCEPT ![c] = "run"]
            /\ UNCHANGED <<net, refused>>
    /\ UNCHANGED <<run, packetID, written, tries, outcome, inbox, faultVars, servers,
                   listenerVars>>

(* HdrXchange: what comes back, an error or the time-out ends the wait.          *)
HdrXchange(c) ==
    /\ cpc[c] = "header"
    /\ IF refused[c]
       THEN refused' = [refused EXCEPT ![c] = FALSE] /\ UNCHANGED inbox
       ELSE /\ inbox' = [inbox EXCEPT ![c] = IF @ = <<>> THEN @ ELSE Tail(@)]
            /\ UNCHANGED refused
    /\ cpc' = [cpc EXCEPT ![c] = "run"]
    /\ UNCHANGED <<run, packetID, written, tries, outcome, net, faultVars, servers,
                   listenerVars>>

(* The loop of Run: a datagram that could not be written keeps its number.  The  *)
(* flow id is put where the number was, in all but the FIN.  The time or the     *)
(* amount may be over after any datagram.                                        *)
NumberSent(c) == run.flow
Run(c) ==
    /\ cpc[c] = "run"
    /\ Write(c, Datagram(c, "data", NumberSent(c)))
    /\ packetID' = [packetID EXCEPT ![c] = IF refused[c] THEN @ ELSE @ + 1]
    /\ written' = [written EXCEPT ![c] = @ + 1]
    /\ \/ cpc' = [cpc EXCEPT ![c] = "fin"]
       \/ written[c] + 1 < run.writes /\ UNCHANGED cpc
    /\ UNCHANGED <<run, tries, outcome, inbox, faultVars, servers, listenerVars>>

(* write_UDP_FIN.  The word with the number is decremented after each try, and   *)
(* the sign is a bit that its readers mask: the first FIN has the number of the  *)
(* next datagram, each other one a smaller number.  Below zero, the word wraps:  *)
(* with 32 bits it has lost its sign, and the FIN is a datagram like those of    *)
(* the test to all who read it, of kind "late" here; with 64 bits the sign is in *)
(* the other word.                                                               *)
BelowZero(c) == packetID[c] < tries[c]
FinKind(c) == IF BelowZero(c) /\ ~run.wide THEN "late" ELSE "fin"
FinID(c) ==
    packetID[c] - tries[c] + (IF ~BelowZero(c) THEN 0 ELSE IF run.wide THEN 2 * Half ELSE Half)
SameTries(c) == UNCHANGED tries
OneMoreTry(c) == tries' = [tries EXCEPT ![c] = @ + 1]

SendFIN(c) ==
    /\ cpc[c] = "fin" /\ tries[c] < run.tries
    /\ Write(c, Datagram(c, FinKind(c), FinID(c)))
    /\ OneMoreTry(c)
    /\ cpc' = [cpc EXCEPT ![c] = "wait"]
    /\ UNCHANGED <<run, packetID, written, outcome, inbox, faultVars, servers, listenerVars>>

End(c, how) ==
    /\ outcome' = [outcome EXCEPT ![c] = how]
    /\ cpc' = [cpc EXCEPT ![c] = "done"]
    /\ inbox' = [inbox EXCEPT ![c] = <<>>]
    /\ refused' = [refused EXCEPT ![c] = FALSE]

(* Whatever is read ends the client; it is not looked at.                        *)
ReadAnswer(c) ==
    /\ cpc[c] = "wait" /\ ~refused[c] /\ inbox[c] # <<>>
    /\ End(c, inbox[c][1])
    /\ UNCHANGED <<run, packetID, written, tries, net, faultVars, servers, listenerVars>>
GiveUp(c) ==
    /\ \/ cpc[c] = "wait" /\ refused[c]
       \/ cpc[c] = "fin" /\ tries[c] = run.tries
    /\ End(c, [kind |-> "warning"])
    /\ UNCHANGED <<run, packetID, written, tries, net, faultVars, servers, listenerVars>>
SelectTimeout(c) ==
    /\ cpc[c] = "wait" /\ ~refused[c] /\ inbox[c] = <<>>
    /\ cpc' = [cpc EXCEPT ![c] = "fin"]
    /\ UNCHANGED <<run, packetID, written, tries, outcome, kernelVars, servers,
                   listenerVars>>

ClientStep(c) ==
    \/ InitiateServer(c) \/ HdrXchange(c) \/ Run(c) \/ SendFIN(c)
    \/ ReadAnswer(c) \/ GiveUp(c) \/ SelectTimeout(c)

--------------------------------------------------------------------------------
(* Listener.cpp.  The sign of a datagram is that of the low word of its number.  *)
IsNegative(m) == IF run.wide THEN m.id >= Half ELSE m.kind = "fin"

NextDatagram(s) == Head(servers[s].queue)
Popped(s) == [servers EXCEPT ![s].queue = Tail(@)]

(* Accept: a datagram that is no FIN, of a peer that is not in the list, makes   *)
(* the socket it came through the peer's own; it is not counted.  Others are     *)
(* dropped.                                                                      *)
Takes(m) == ~Iperf_present(m.from) /\ ~IsNegative(m)
Accept ==
    /\ lpc = "accept" /\ ~run.single /\ servers[listening].queue # <<>>
    /\ LET m == NextDatagram(listening) IN
         IF Takes(m)
         THEN /\ servers' = [Popped(listening) EXCEPT ![listening].peer = m.from]
              /\ cur' = <<m>> /\ lpc' = "check"
         ELSE servers' = Popped(listening) /\ UNCHANGED <<cur, lpc>>
    /\ UNCHANGED <<run, clientVars, kernelVars, listening, clients, groupID, mClients,
                   allowed>>

(* A listener for a single client takes the next host when the list is empty.    *)
Reset == run.only /\ clients = <<>>
AllowedNow(c) == IF Reset THEN Host[c] ELSE allowed
ClientsLeft == IF ~Reset THEN mClients ELSE IF mClients = 1 THEN 1 ELSE mClients - 1
AdmittedAlways(c) == TRUE
Admitted(c) == AllowedNow(c) \in {NobodyPeer, Host[c]}
ResetSingleClient(c) == allowed' = AllowedNow(c) /\ mClients' = ClientsLeft

(* The rest of Run: a stream that is not admitted loses the socket.  A client    *)
(* that asks for it is told the version at once.                                 *)
Check ==
    /\ lpc = "check"
    /\ LET m == cur[1] IN
         /\ ResetSingleClient(m.from)
         /\ IF Admitted(m.from)
            THEN /\ lpc' = "start" /\ UNCHANGED servers
                 /\ net' = IF run.extended
                           THEN net \cup {Reply(m.from, "version", listening)} ELSE net
            ELSE /\ lpc' = "relisten" /\ UNCHANGED net
                 /\ servers' = [servers EXCEPT ![listening].open = FALSE]
    /\ UNCHANGED <<run, clientVars, inbox, refused, faultVars, listening, cur, clients,
                   groupID>>

StartServer ==
    /\ lpc = "start"
    /\ Iperf_pushback(cur[1].from, listening)
    /\ servers' = [servers EXCEPT ![listening].pc = "recv"]
    /\ lpc' = "listen"
    /\ UNCHANGED <<run, clientVars, kernelVars, listening, cur, mClients, allowed>>

(* Listen opens a new socket; until then nobody listens.                         *)
MoreClients(n) == run.limit = 0 \/ n > 0
Listen ==
    /\ lpc \in {"listen", "relisten"} /\ Len(servers) < MaxSockets
    /\ mClients' = IF lpc = "listen" /\ ~run.only THEN mClients - 1 ELSE mClients
    /\ listening' = Len(servers) + 1
    /\ servers' = Append(servers, [Socket EXCEPT !.open = MoreClients(mClients')])
    /\ lpc' = IF MoreClients(mClients') THEN "accept" ELSE "stopped"
    /\ cur' = <<>>
    /\ UNCHANGED <<run, clientVars, kernelVars, clients, groupID, allowed>>

(* The time of the listener is over, or nothing came in that time.               *)
StopListening ==
    /\ run.timed /\ lpc = "accept"
    /\ lpc' = "stopped"
    /\ servers' = [servers EXCEPT ![listening].open = FALSE]
    /\ UNCHANGED <<run, clientVars, kernelVars, listening, cur, clients, groupID,
                   mClients, allowed>>

--------------------------------------------------------------------------------
(* Server.cpp.  What is counted of datagram m by the server of record v.  A FIN  *)
(* is counted like any other, as the first datagram was not.                     *)
FinNotCounted(v, m) ==
    IF m.kind = "fin" THEN [v EXCEPT !.fin = TRUE]
    ELSE [v EXCEPT !.count = @ + 1, !.last = Largest(@, m.id),
                   !.alien = @ \/ m.from # v.peer]
Counted(v, m) ==
    [v EXCEPT !.count = @ + 1, !.last = Largest(@, m.id),
              !.alien = @ \/ m.from # v.peer, !.fin = @ \/ m.kind = "fin"]

ServerOnly ==
    UNCHANGED <<run, clientVars, inbox, refused, faultVars, listening, lpc, cur, groupID,
                mClients, allowed>>

(* The loop of RunUDP ends with a FIN or with the time of the server.            *)
RecvUDP(s) ==
    /\ servers[s].pc = "recv" /\ servers[s].queue # <<>>
    /\ LET m == NextDatagram(s) IN
       \E pc \in IF m.kind = "fin" THEN {"answer"}
                 ELSE IF run.timed THEN {"recv", "answer"} ELSE {"recv"} :
         servers' = [Popped(s) EXCEPT ![s] = [Counted(@, m) EXCEPT !.pc = pc]]
    /\ ServerOnly /\ UNCHANGED <<net, clients>>
TimeIsUp(s) ==
    /\ run.timed /\ servers[s].pc = "recv" /\ servers[s].queue = <<>>
    /\ servers' = [servers EXCEPT ![s].pc = "answer"]
    /\ ServerOnly /\ UNCHANGED <<net, clients>>

(* write_UDP_AckFIN: the totals are sent; whatever arrives within the time-out   *)
(* makes the server send them again.                                             *)
Totals(c, s, v) ==
    [to |-> c, from |-> s, kind |-> "totals", id |-> v.acks,
     count |-> v.count, last |-> v.last, alien |-> v.alien]
SendTotals(s) ==
    /\ servers[s].pc = "answer"
    /\ net' = net \cup {Totals(servers[s].peer, s, servers[s])}
    /\ servers' = [servers EXCEPT ![s].acks = @ + 1, ![s].pc = "linger"]
    /\ ServerOnly /\ UNCHANGED clients
MoreAcksThanTries(s) == servers[s].acks <= run.tries
MoreAcks(s) == servers[s].acks < run.tries
AskedAgain(s) ==
    /\ servers[s].pc = "linger" /\ servers[s].queue # <<>>
    /\ servers' = [Popped(s) EXCEPT
                     ![s].pc = IF MoreAcks(s) THEN "answer" ELSE "delete"]
    /\ ServerOnly /\ UNCHANGED <<net, clients>>
BlockingRead(s) == FALSE
SelectTimesOut(s) == servers[s].queue = <<>>
AckTimeout(s) ==
    /\ servers[s].pc = "linger" /\ SelectTimesOut(s)
    /\ servers' = [servers EXCEPT ![s].pc = "delete"]
    /\ ServerOnly /\ UNCHANGED <<net, clients>>

(* The entry goes first, the socket later.                                       *)
Forget(s) ==
    /\ servers[s].pc = "delete"
    /\ clients' = Deleted(servers[s].peer)
    /\ servers' = [servers EXCEPT ![s].pc = "close"]
    /\ ServerOnly /\ UNCHANGED net
Close(s) ==
    /\ servers[s].pc = "close"
    /\ servers' = [servers EXCEPT ![s].pc = "gone", ![s].open = FALSE, ![s].queue = <<>>]
    /\ ServerOnly /\ UNCHANGED <<net, clients>>

ServerStep(s) ==
    \/ RecvUDP(s) \/ TimeIsUp(s) \/ SendTotals(s) \/ AskedAgain(s) \/ AckTimeout(s)
    \/ Forget(s) \/ Close(s)

--------------------------------------------------------------------------------
(* UDPSingleServer: one socket for all streams; a record of servers stands for   *)
(* the report of a stream.  Only the low word of a number is looked at.          *)
SingleOnly ==
    UNCHANGED <<run, clientVars, inbox, refused, faultVars, listening, cur, groupID,
                mClients, allowed>>
Taking(m) ==
    /\ run.single /\ lpc = "accept" /\ servers[listening].queue # <<>>
    /\ m = NextDatagram(listening)

SingleData(m) ==
    /\ Taking(m) /\ ~IsNegative(m) /\ Iperf_present(m.from)
    /\ LET s == clients[PlaceOf(m.from)].server IN
         servers' = [Popped(listening) EXCEPT ![s] = Counted(@, m)]
    /\ SingleOnly /\ UNCHANGED <<net, lpc, clients>>

(* The low word is negated, which does not take the sign bit off.  The word that *)
(* is nothing but the sign has no negation: it stays as it is, and the reporter  *)
(* counts nothing below zero, or becomes 2^31, as the build has it.              *)
Negated(m) ==
    IF run.wide THEN {2 * Half - m.id} ELSE IF m.id = 0 THEN {-Half, Half} ELSE {Half - m.id}
CountedAs(v, m, n) ==
    IF n < 0 THEN [v EXCEPT !.fin = TRUE] ELSE Counted(v, [m EXCEPT !.id = n])

SingleFIN(m) ==
    /\ Taking(m) /\ IsNegative(m)
    /\ IF Iperf_present(m.from)
       THEN \E n \in Negated(m) :
            LET s == clients[PlaceOf(m.from)].server
                v == CountedAs(servers[s], m, n)
            IN  /\ servers' = [Popped(listening) EXCEPT ![s] = [v EXCEPT !.pc = "gone"]]
                /\ net' = net \cup {Totals(m.from, s, v)}
                /\ clients' = Deleted(m.from)
       ELSE /\ servers' = Popped(listening)
            /\ net' = net \cup {Reply(m.from, "nothing", listening)}
            /\ UNCHANGED clients
    /\ SingleOnly /\ UNCHANGED lpc

(* A new stream: a new report, or a new socket if it is not admitted.            *)
SingleNew(m) ==
    /\ Taking(m) /\ ~IsNegative(m) /\ ~Iperf_present(m.from)
    /\ Len(servers) < MaxSockets
    /\ IF Admitted(m.from)
       THEN /\ Iperf_pushback(m.from, Len(servers) + 1)
            /\ servers' = Append(Popped(listening),
                                 [Socket EXCEPT !.open = FALSE, !.peer = m.from, !.pc = "report"])
            /\ UNCHANGED listening
            /\ allowed' = AllowedNow(m.from)
            /\ mClients' = IF run.only THEN ClientsLeft ELSE mClients - 1
            /\ lpc' = IF MoreClients(mClients') THEN "accept" ELSE "stopped"
       ELSE /\ servers' = Append([servers EXCEPT ![listening].open = FALSE], Socket)
            /\ listening' = Len(servers) + 1
            /\ UNCHANGED <<clients, groupID, mClients, allowed, lpc>>
    /\ UNCHANGED <<run, clientVars, kernelVars, cur>>

SingleServe == \E m \in ToSet(servers[listening].queue) :
    SingleData(m) \/ SingleFIN(m) \/ SingleNew(m)

ListenerStep ==
    Accept \/ Check \/ StartServer \/ Listen \/ SingleServe

Next ==
    \/ \E m \in net : Lose(m) \/ DeliverToServer(m) \/ DeliverToClient(m)
    \/ \E c \in Stream : ClientStep(c)
    \/ ListenerStep \/ StopListening
    \/ \E s \in DOMAIN servers : ServerStep(s)

Spec == Init /\ [][Next]_vars
(* The threads are scheduled and time-outs fire; the network promises nothing.   *)
FairSpec ==
    /\ Spec
    /\ \A c \in Stream : WF_vars(ClientStep(c))
    /\ WF_vars(ListenerStep)
    /\ \A s \in 1 .. MaxSockets : WF_vars(s \in DOMAIN servers /\ ServerStep(s))

--------------------------------------------------------------------------------
(* Properties                                                                    *)

(* The types of the variables that say where the threads are.                    *)
TypeOK ==
    /\ run \in Scenario
    /\ cpc \in [Stream -> {"connect", "header", "run", "fin", "wait", "done"}]
    /\ packetID \in [Stream -> Nat]
    /\ written \in [Stream -> 0 .. run.writes]
    /\ tries \in [Stream -> 0 .. run.tries]
    /\ refused \in [Stream -> BOOLEAN]
    /\ lpc \in {"accept", "check", "start", "listen", "relisten", "stopped"}
    /\ listening \in DOMAIN servers
    /\ \A s \in DOMAIN servers :
         /\ servers[s].pc \in {"idle", "recv", "answer", "linger", "delete", "close",
                               "report", "gone"}
         /\ servers[s].acks \in 0 .. run.tries

(* Every running server thread has the entry of its peer in the list, and every  *)
(* entry belongs to such a thread: a thread never deletes another one's entry.   *)
(* Streams of one host are in one group, to be summed, and those of different    *)
(* hosts are not.                                                                *)
Serving == {s \in DOMAIN servers :
              servers[s].pc \in {"recv", "answer", "linger", "delete", "report"}}
ClientsAreServed ==
    /\ {clients[i].server : i \in DOMAIN clients} = Serving
    /\ \A i \in DOMAIN clients : servers[clients[i].server].peer = clients[i].peer
    /\ \A i, j \in DOMAIN clients :
         /\ clients[i].peer = clients[j].peer => i = j
         /\ SameHost(clients[i].peer, clients[j].peer) <=> clients[i].group = clients[j].group

(* With -1 streams of different hosts are never served at the same time.         *)
OneHostOnly ==
    run.only => \A i, j \in DOMAIN clients : SameHost(clients[i].peer, clients[j].peer)

(* "The server counts this one, but didn't count our first datagram, so we're    *)
(* even now" (Client.cpp): although the flow id replaces their numbers, a client *)
(* is told of no more datagrams than it numbered, by the server of its own       *)
(* stream, and the largest number is its own next one or the flow id, short of   *)
(* it by less than the FINs it sent: by none if one was enough.                  *)
(* Excepted are tests with headers, whose first datagram is the header, 64 bit   *)
(* counters, copied datagrams, those of others that wait in the socket when it   *)
(* is connected, and clients one of whose FINs had a number below zero.  Nothing *)
(* is said of the largest number a single server has: it is the FIN's, taken     *)
(* from 2^31.                                                                    *)
TotalsAreEven ==
    \A c \in run.streams :
        LET o == outcome[c] IN
        o.kind = "totals" /\ ~run.extended /\ ~run.wide /\ ~run.timed
                /\ copies = run.copies /\ ~o.alien /\ tries[c] <= packetID[c] + 1 =>
            /\ o.count <= packetID[c]
            /\ servers[o.from].peer = c
            /\ ~run.single => /\ packetID[c] < o.last + tries[c]
                              /\ o.last <= Largest(packetID[c], run.flow)

(* Whatever the network does, the clients come to an end, and server threads     *)
(* that have read the end of their test stop.                                    *)
Ending == {s \in DOMAIN servers : servers[s].pc \in {"answer", "linger", "delete", "close"}}
TestsEnd ==
    /\ <>(\A c \in Stream : cpc[c] = "done")
    /\ Ending # {} ~> Ending = {}
================================================================================
