----------------------------- MODULE SessionProofs -----------------------------
(* The sessions of any number of streams of any hosts, under any losses, copies  *)
(* and reorderings of datagrams: types, the list of clients, the single host,    *)
(* and what the clients are told.                                                *)
EXTENDS Session, WellFoundedInduction, FiniteSetTheorems, TLAPS

--------------------------------------------------------------------------------
(* The list of clients.                                                          *)

LEMMA LeastIndex ==
    ASSUME NEW T, T \subseteq Nat, T # {}
    PROVE  Min(T) \in T
<1> DEFINE R == {p \in Nat \X Nat : p[1] < p[2]}
<1>1. IsWellFoundedOn(R, Nat)
  BY NatLessThanWellFounded, Zenon DEF OpToRel
<1>2. \A x, y \in Nat : <<x, y>> \in R <=> x < y
  OBVIOUS
<1> HIDE DEF R
<1>3. PICK x \in T : \A y \in T : ~ (<<y, x>> \in R)
  BY <1>1, WFMin
<1>4. ASSUME NEW y \in T PROVE x <= y
  <2>1. x \in Nat /\ y \in Nat
    OBVIOUS
  <2>2. ~ (y < x)
    BY <1>2, <1>3, <2>1, Zenon
  <2> QED
    BY <2>1, <2>2
<1> QED
  BY <1>4 DEF Min

(* A datagram the server may find, a socket with its thread, an entry.           *)
Arriving == [to : {"server"}, from : Stream, kind : {"head", "data", "fin", "late"}, id : Int,
             at : Nat]
Place == {"idle", "recv", "answer", "linger", "delete", "close", "report", "gone"}
Server == [peer : Stream \cup {NobodyPeer}, open : BOOLEAN, queue : Seq(Arriving),
           pc : Place, count : Int, last : Int, alien : BOOLEAN, fin : BOOLEAN, acks : Nat]
Entry == [peer : Stream, server : Nat, group : Nat]

(* What the types need to be inductive.  A client that still writes may do so    *)
(* once more; a server thread has not answered before it ends its test and may   *)
(* answer once more when it is about to.                                         *)
ClientShapes ==
    /\ run \in Scenario
    /\ cpc \in [Stream -> {"connect", "header", "run", "fin", "wait", "done"}]
    /\ packetID \in [Stream -> Nat]
    /\ written \in [Stream -> 0 .. run.writes]
    /\ tries \in [Stream -> 0 .. run.tries]
    /\ refused \in [Stream -> BOOLEAN]
    /\ \A c \in Stream : cpc[c] \in {"connect", "header", "run"} => written[c] < run.writes

Answers(v) ==
    /\ v.acks <= run.tries
    /\ v.pc \in {"idle", "recv"} => v.acks = 0
    /\ v.pc = "answer" => v.acks < run.tries

ServerShapes ==
    /\ lpc \in {"accept", "check", "start", "listen", "relisten", "stopped"}
    /\ servers \in Seq(Server)
    /\ listening \in DOMAIN servers
    /\ \A s \in DOMAIN servers : Answers(servers[s])
    /\ clients \in Seq(Entry)
    /\ groupID \in Nat
    /\ cur \in Seq(Arriving)

DatagramShapes == IsFiniteSet(net) /\ \A m \in net : m.to = "server" => m \in Arriving

(* The listener's own socket has no thread until it is handed over, and the peer *)
(* it is about to hand it to is not in the list.                                 *)
HandOver ==
    /\ lpc \in {"accept", "check", "start"} => servers[listening].pc = "idle"
    /\ lpc \in {"check", "start"} =>
         /\ cur # <<>> /\ servers[listening].peer = cur[1].from
         /\ \A i \in DOMAIN clients : clients[i].peer # cur[1].from

(* The groups in use have been made.                                             *)
GroupsMade == \A i \in DOMAIN clients : clients[i].group <= groupID

(* With -1, the streams in the list and the one about to enter it are of the     *)
(* host the listener allows.                                                     *)
OfAllowedHost ==
    run.only =>
        /\ \A i \in DOMAIN clients : Host[clients[i].peer] = allowed
        /\ lpc = "start" => Host[cur[1].from] = allowed

ListInv == ClientsAreServed /\ HandOver /\ GroupsMade /\ OfAllowedHost
IInv == ClientShapes /\ ServerShapes /\ DatagramShapes /\ ListInv

--------------------------------------------------------------------------------
(* Finding and deleting entries.                                                 *)

LEMMA FoundByPeer ==
    ASSUME NEW c
    PROVE  \/ Iperf_present(c) /\ PlaceOf(c) \in 1 .. Len(clients)
              /\ clients[PlaceOf(c)].peer = c
           \/ ~Iperf_present(c) /\ \A i \in 1 .. Len(clients) : clients[i].peer # c
<1> DEFINE I == {i \in 1 .. Len(clients) : clients[i].peer = c}
<1>1. PlaceOf(c) = IF I # {} THEN Min(I) ELSE 0
  BY DEF PlaceOf, SelectInSeq
<1>2. I \subseteq Nat
  OBVIOUS
<1>3. CASE I = {}
  BY <1>1, <1>3 DEF Iperf_present
<1>4. CASE I # {}
  <2>1. Min(I) \in I
    BY <1>2, <1>4, LeastIndex
  <2> QED
    BY <1>1, <1>4, <2>1 DEF Iperf_present
<1> QED
  BY <1>3, <1>4

LEMMA FoundByHost ==
    ASSUME NEW c
    PROVE  \/ Iperf_hostpresent(c) /\ PlaceOfHost(c) \in 1 .. Len(clients)
              /\ SameHost(clients[PlaceOfHost(c)].peer, c)
           \/ ~Iperf_hostpresent(c)
              /\ \A i \in 1 .. Len(clients) : ~SameHost(clients[i].peer, c)
<1> DEFINE I == {i \in 1 .. Len(clients) : SameHost(clients[i].peer, c)}
<1>1. PlaceOfHost(c) = IF I # {} THEN Min(I) ELSE 0
  BY DEF PlaceOfHost, SelectInSeq
<1>2. I \subseteq Nat
  OBVIOUS
<1>3. CASE I = {}
  BY <1>1, <1>3 DEF Iperf_hostpresent
<1>4. CASE I # {}
  <2>1. Min(I) \in I
    BY <1>2, <1>4, LeastIndex
  <2> QED
    BY <1>1, <1>4, <2>1 DEF Iperf_hostpresent
<1> QED
  BY <1>3, <1>4

LEMMA TakenOut ==
    ASSUME NEW S, NEW seq \in Seq(S), NEW k \in 1 .. Len(seq)
    PROVE  /\ RemoveAt(seq, k) \in Seq(S)
           /\ Len(RemoveAt(seq, k)) = Len(seq) - 1
           /\ \A i \in 1 .. Len(seq) - 1 :
                RemoveAt(seq, k)[i] = IF i < k THEN seq[i] ELSE seq[i + 1]
<1> DEFINE p == SubSeq(seq, 1, k - 1)
           q == SubSeq(seq, k + 1, Len(seq))
<1>1. p \in Seq(S) /\ Len(p) = k - 1 /\ \A i \in 1 .. k - 1 : p[i] = seq[i]
  OBVIOUS
<1>2. q \in Seq(S) /\ Len(q) = Len(seq) - k
      /\ \A i \in 1 .. Len(seq) - k : q[i] = seq[k + i]
  OBVIOUS
<1> HIDE DEF p, q
<1>3. /\ p \o q \in Seq(S)
      /\ Len(p \o q) = Len(seq) - 1
      /\ \A i \in 1 .. Len(seq) - 1 :
           (p \o q)[i] = IF i < k THEN seq[i] ELSE seq[i + 1]
  <2>1. p \o q \in Seq(S) /\ Len(p \o q) = Len(seq) - 1
    BY <1>1, <1>2
  <2>2. ASSUME NEW i \in 1 .. Len(seq) - 1, i < k
        PROVE  (p \o q)[i] = seq[i]
    BY <1>1, <1>2, <2>2
  <2>3. ASSUME NEW i \in 1 .. Len(seq) - 1, ~(i < k)
        PROVE  (p \o q)[i] = seq[i + 1]
    <3>1. (p \o q)[i] = q[i - (k - 1)]
      BY <1>1, <1>2, <2>3
    <3>2. q[i - (k - 1)] = seq[k + (i - (k - 1))]
      BY <1>2, <2>3
    <3> QED
      BY <3>1, <3>2
  <2> QED
    BY <2>1, <2>2, <2>3
<1> QED
  BY <1>3 DEF RemoveAt, p, q

--------------------------------------------------------------------------------
(* The sockets.                                                                  *)

LEMMA Replaced ==
    ASSUME NEW S, NEW seq \in Seq(S), NEW k \in DOMAIN seq, NEW e \in S
    PROVE  /\ [seq EXCEPT ![k] = e] \in Seq(S)
           /\ DOMAIN [seq EXCEPT ![k] = e] = DOMAIN seq
           /\ Len([seq EXCEPT ![k] = e]) = Len(seq)
           /\ [seq EXCEPT ![k] = e][k] = e
           /\ \A i \in DOMAIN seq \ {k} : [seq EXCEPT ![k] = e][i] = seq[i]
OBVIOUS

LEMMA CountedType ==
    ASSUME NEW v \in Server, NEW m \in Arriving
    PROVE  /\ Counted(v, m) \in Server
           /\ Counted(v, m).pc = v.pc /\ Counted(v, m).peer = v.peer
           /\ Counted(v, m).acks = v.acks /\ Counted(v, m).queue = v.queue
<1>1. (v.alien \/ m.from # v.peer) \in BOOLEAN /\ (v.fin \/ m.kind = "fin") \in BOOLEAN
  OBVIOUS
<1>2. v.count + 1 \in Int /\ Largest(v.last, m.id) \in Int
  BY DEF Server, Arriving, Largest
<1> QED
  BY <1>1, <1>2 DEF Counted, Server

LEMMA CountedAsType ==
    ASSUME NEW v \in Server, NEW m \in Arriving, NEW n \in Negated(m)
    PROVE  /\ CountedAs(v, m, n) \in Server
           /\ CountedAs(v, m, n).pc = v.pc /\ CountedAs(v, m, n).peer = v.peer
           /\ CountedAs(v, m, n).acks = v.acks /\ CountedAs(v, m, n).queue = v.queue
<1>1. n \in Int
  BY HalfAssumption DEF Negated, Arriving
<1>2. CASE n < 0
  BY <1>2 DEF CountedAs, Server
<1>3. CASE ~(n < 0)
  <2>1. [m EXCEPT !.id = n] \in Arriving
    BY <1>1 DEF Arriving
  <2> QED
    BY <1>3, <2>1, CountedType DEF CountedAs
<1> QED
  BY <1>2, <1>3

LEMMA QueueChanged ==
    ASSUME NEW v \in Server, NEW q \in Seq(Arriving)
    PROVE  /\ [v EXCEPT !.queue = q] \in Server
           /\ [v EXCEPT !.queue = q].pc = v.pc /\ [v EXCEPT !.queue = q].peer = v.peer
           /\ [v EXCEPT !.queue = q].acks = v.acks
BY DEF Server

LEMMA PlaceChanged ==
    ASSUME NEW v \in Server, NEW p \in Place
    PROVE  /\ [v EXCEPT !.pc = p] \in Server
           /\ [v EXCEPT !.pc = p].pc = p /\ [v EXCEPT !.pc = p].peer = v.peer
           /\ [v EXCEPT !.pc = p].acks = v.acks
BY DEF Server

(* The oldest datagram of a socket is taken.                                     *)
LEMMA OldestTaken ==
    ASSUME NEW v \in Server, v.queue # <<>>
    PROVE  /\ Head(v.queue) \in Arriving
           /\ [v EXCEPT !.queue = Tail(@)] \in Server
           /\ [v EXCEPT !.queue = Tail(@)].pc = v.pc
           /\ [v EXCEPT !.queue = Tail(@)].peer = v.peer
           /\ [v EXCEPT !.queue = Tail(@)].acks = v.acks
<1>1. v.queue \in Seq(Arriving)
  BY DEF Server
<1>2. Head(v.queue) \in Arriving /\ Tail(v.queue) \in Seq(Arriving)
  BY <1>1
<1> QED
  BY <1>2, QueueChanged

--------------------------------------------------------------------------------
(* The invariant at the start, and the types in it.                              *)

LEMMA ScenarioFacts ==
    ASSUME run \in Scenario
    PROVE  /\ run.tries \in Nat \ {0} /\ run.writes \in Nat \ {0} /\ run.flow \in Nat
           /\ run.streams \subseteq Stream
BY ScenarioAssumption

LEMMA TypesFollow ==
    ASSUME ClientShapes, ServerShapes
    PROVE  TypeOK
<1>1. \A s \in DOMAIN servers : servers[s] \in Server
  BY DEF ServerShapes
<1>2. \A s \in DOMAIN servers : servers[s].acks \in 0 .. run.tries
  BY <1>1, ScenarioFacts DEF ServerShapes, ClientShapes, Answers, Server
<1>3. \A s \in DOMAIN servers : servers[s].pc \in Place
  BY <1>1 DEF Server
<1> QED
  BY <1>2, <1>3 DEF TypeOK, ClientShapes, ServerShapes, Place

LEMMA NewSocket ==
    /\ Socket \in Server
    /\ Socket.pc = "idle" /\ Socket.acks = 0 /\ Socket.peer = NobodyPeer
<1>1. <<>> \in Seq(Arriving)
  OBVIOUS
<1>2. Socket \in Server
  BY <1>1 DEF Socket, Server, Place
<1> QED
  BY <1>2 DEF Socket

LEMMA NewSocketMayBeShut ==
    ASSUME NEW b \in BOOLEAN
    PROVE  /\ [Socket EXCEPT !.open = b] \in Server
           /\ [Socket EXCEPT !.open = b].pc = "idle" /\ [Socket EXCEPT !.open = b].acks = 0
BY NewSocket DEF Server

LEMMA InitIInv == Init => IInv
<1> SUFFICES ASSUME Init PROVE IInv
  OBVIOUS
<1> USE DEF Init
<1>1. run.tries \in Nat \ {0} /\ run.writes \in Nat \ {0}
  BY ScenarioFacts
<1>2. ClientShapes
  BY <1>1 DEF ClientShapes
<1>3. servers \in Seq(Server) /\ DOMAIN servers = {1} /\ servers[1] = Socket
  <2>1. servers = <<Socket>>
    OBVIOUS
  <2> HIDE DEF Init
  <2> QED
    BY <2>1, NewSocket
<1>4. clients \in Seq(Entry) /\ DOMAIN clients = {} /\ cur \in Seq(Arriving)
  OBVIOUS
<1>5. ServerShapes
  <2>1. \A s \in DOMAIN servers : Answers(servers[s])
    BY <1>1, <1>3, NewSocket DEF Answers
  <2>2. listening \in DOMAIN servers /\ lpc = "accept" /\ groupID \in Nat
    BY <1>3
  <2> HIDE DEF Init
  <2> QED
    BY <2>1, <2>2, <1>3, <1>4 DEF ServerShapes
<1>6. DatagramShapes
  BY FS_EmptySet DEF DatagramShapes
<1>7. ListInv
  BY <1>3, <1>4, NewSocket DEF ListInv, ClientsAreServed, Serving, HandOver, GroupsMade, OfAllowedHost
<1> QED
  BY <1>2, <1>5, <1>6, <1>7 DEF IInv

--------------------------------------------------------------------------------
(* Steps that leave the list of clients and the listener alone.                  *)

ServingPlace == {"recv", "answer", "linger", "delete", "report"}
SameService ==
    /\ DOMAIN servers' = DOMAIN servers
    /\ \A s \in DOMAIN servers :
         /\ servers'[s].peer = servers[s].peer
         /\ servers'[s].pc \in ServingPlace <=> servers[s].pc \in ServingPlace
         /\ servers[s].pc = "idle" => servers'[s].pc = "idle"

LEMMA StillServed ==
    ASSUME ClientsAreServed, UNCHANGED clients, Serving' = Serving,
           \A s \in Serving : servers'[s].peer = servers[s].peer
    PROVE  ClientsAreServed'
<1>1. \A i \in DOMAIN clients : clients[i].server \in Serving
  BY DEF ClientsAreServed
<1>2. \A i \in DOMAIN clients' : servers'[clients'[i].server].peer = clients'[i].peer
  BY <1>1 DEF ClientsAreServed
<1>3. {clients'[i].server : i \in DOMAIN clients'} = Serving'
  BY DEF ClientsAreServed
<1> QED
  BY <1>2, <1>3 DEF ClientsAreServed, SameHost

LEMMA ServedKept ==
    ASSUME ListInv, SameService, UNCHANGED clients
    PROVE  ClientsAreServed'
<1>1. Serving' = Serving
  BY DEF SameService, Serving, ServingPlace
<1>2. \A s \in Serving : servers'[s].peer = servers[s].peer
  BY DEF SameService, Serving
<1> QED
  BY <1>1, <1>2, StillServed DEF ListInv

LEMMA ListKept ==
    ASSUME ServerShapes, ListInv, SameService,
           UNCHANGED <<run, listening, lpc, cur, clients, groupID, allowed>>
    PROVE  ListInv'
<1>1. ClientsAreServed'
  BY ServedKept
<1>2. HandOver'
  BY DEF ListInv, HandOver, SameService, ServerShapes
<1>3. GroupsMade' /\ OfAllowedHost'
  BY DEF ListInv, GroupsMade, OfAllowedHost
<1> QED
  BY <1>1, <1>2, <1>3 DEF ListInv

LEMMA SameSocketsSameService == UNCHANGED servers => SameService
BY DEF SameService

(* One socket changes.                                                           *)
LEMMA OneSocket ==
    ASSUME ServerShapes, NEW s \in DOMAIN servers, NEW v \in Server,
           servers' = [servers EXCEPT ![s] = v],
           UNCHANGED run, Answers(v)
    PROVE  /\ servers' \in Seq(Server)
           /\ DOMAIN servers' = DOMAIN servers
           /\ servers'[s] = v
           /\ \A t \in DOMAIN servers \ {s} : servers'[t] = servers[t]
           /\ \A t \in DOMAIN servers' : Answers(servers[t])'
<1>1. servers \in Seq(Server) /\ \A t \in DOMAIN servers : Answers(servers[t])
  BY DEF ServerShapes
<1>2. /\ servers' \in Seq(Server)
      /\ DOMAIN servers' = DOMAIN servers
      /\ servers'[s] = v
      /\ \A t \in DOMAIN servers \ {s} : servers'[t] = servers[t]
  BY <1>1, Replaced
<1> QED
  BY <1>1, <1>2 DEF Answers

LEMMA OneSocketShapes ==
    ASSUME ServerShapes, NEW s \in DOMAIN servers, NEW v \in Server,
           servers' = [servers EXCEPT ![s] = v],
           UNCHANGED <<run, listening, groupID>>, Answers(v),
           lpc' \in {"accept", "check", "start", "listen", "relisten", "stopped"},
           clients' \in Seq(Entry), cur' \in Seq(Arriving)
    PROVE  ServerShapes'
BY OneSocket DEF ServerShapes

LEMMA OneSocketService ==
    ASSUME ServerShapes, NEW s \in DOMAIN servers, NEW v \in Server,
           servers' = [servers EXCEPT ![s] = v],
           v.peer = servers[s].peer,
           v.pc \in ServingPlace <=> servers[s].pc \in ServingPlace,
           servers[s].pc = "idle" => v.pc = "idle"
    PROVE  SameService
BY Replaced DEF SameService, ServerShapes

--------------------------------------------------------------------------------
(* The network and the clients.                                                  *)

LEMMA ServerSideKept ==
    ASSUME IInv, UNCHANGED <<run, servers, listenerVars>>
    PROVE  ServerShapes' /\ ListInv'
<1>1. ServerShapes'
  BY DEF IInv, ServerShapes, Answers, listenerVars
<1>2. ListInv'
  BY ListKept, SameSocketsSameService DEF IInv, listenerVars
<1> QED
  BY <1>1, <1>2

LEMMA ClientSideKept ==
    ASSUME IInv, UNCHANGED <<run, clientVars, refused>>
    PROVE  ClientShapes'
BY DEF IInv, ClientShapes, clientVars

LEMMA LoseIInv ==
    ASSUME IInv, NEW m \in net, Lose(m)
    PROVE  IInv'
<1>1. UNCHANGED <<run, servers, listenerVars>> /\ UNCHANGED <<run, clientVars, refused>>
  BY DEF Lose
<1>2. DatagramShapes'
  BY FS_RemoveElement DEF Lose, IInv, DatagramShapes
<1> QED
  BY <1>1, <1>2, ServerSideKept, ClientSideKept DEF IInv

LEMMA DeliverToServerIInv ==
    ASSUME IInv, NEW m \in net, DeliverToServer(m)
    PROVE  IInv'
<1> DEFINE reached == IF Connected(m.from) # {} THEN Connected(m.from) ELSE Unconnected
<1>1. m \in Arriving
  BY DEF IInv, DatagramShapes, DeliverToServer
<1>2. reached \subseteq DOMAIN servers
  BY DEF Connected, Unconnected
<1>3. DatagramShapes'
  BY FS_RemoveElement DEF DeliverToServer, Taken, IInv, DatagramShapes
<1>4. UNCHANGED <<run, cpc, packetID, written, tries, listenerVars>>
  BY DEF DeliverToServer, clientVars
<1>5. CASE reached = {}
  <2>1. UNCHANGED servers /\ refused' = [refused EXCEPT ![m.from] = @ \/ cpc[m.from] # "done"]
    BY <1>5 DEF DeliverToServer
  <2>2. refused' \in [Stream -> BOOLEAN]
    BY <2>1 DEF IInv, ClientShapes
  <2>3. ClientShapes'
    BY <1>4, <2>2 DEF IInv, ClientShapes
  <2> QED
    BY <1>3, <1>4, <2>1, <2>3, ServerSideKept DEF IInv
<1>6. CASE reached # {}
  <2>1. PICK s \in reached : servers' = [servers EXCEPT ![s].queue = Append(@, m)]
    BY <1>6 DEF DeliverToServer
  <2>2. UNCHANGED refused
    BY <1>6 DEF DeliverToServer
  <2>3. s \in DOMAIN servers /\ servers[s] \in Server /\ Answers(servers[s])
    BY <1>2, <2>1 DEF IInv, ServerShapes
  <2> DEFINE v == [servers[s] EXCEPT !.queue = Append(@, m)]
  <2>4. v \in Server /\ v.pc = servers[s].pc /\ v.peer = servers[s].peer
        /\ v.acks = servers[s].acks
    <3>1. servers[s].queue \in Seq(Arriving)
      BY <2>3 DEF Server
    <3>2. Append(servers[s].queue, m) \in Seq(Arriving)
      BY <1>1, <3>1
    <3> QED
      BY <2>3, <3>2, QueueChanged
  <2>5. servers' = [servers EXCEPT ![s] = v]
    BY <2>1
  <2>6. Answers(v)
    BY <2>3, <2>4 DEF Answers
  <2> HIDE DEF v
  <2>7. ServerShapes'
    BY <1>4, <2>3, <2>4, <2>5, <2>6, OneSocketShapes
       DEF IInv, ServerShapes, listenerVars
  <2>8. ListInv'
    BY <1>4, <2>3, <2>4, <2>5, OneSocketService, ListKept DEF IInv, listenerVars
  <2> QED
    BY <1>3, <1>4, <2>2, <2>7, <2>8 DEF IInv, ClientShapes
<1> QED
  BY <1>5, <1>6

LEMMA DeliverToClientIInv ==
    ASSUME IInv, NEW m \in net, DeliverToClient(m)
    PROVE  IInv'
<1>1. UNCHANGED <<run, servers, listenerVars>> /\ UNCHANGED <<run, clientVars, refused>>
  BY DEF DeliverToClient
<1>2. DatagramShapes'
  BY FS_RemoveElement DEF DeliverToClient, Taken, IInv, DatagramShapes
<1> QED
  BY <1>1, <1>2, ServerSideKept, ClientSideKept DEF IInv

LEMMA OneMoreSent ==
    ASSUME IInv, NEW m, net' \subseteq net \cup {m}
    PROVE  IsFiniteSet(net')
BY FS_AddElement, FS_Subset DEF IInv, DatagramShapes

LEMMA Written ==
    ASSUME IInv, NEW c \in Stream, NEW kind \in {"head", "data", "fin", "late"}, NEW id \in Int,
           Write(c, Datagram(c, kind, id))
    PROVE  DatagramShapes' /\ refused' \in [Stream -> BOOLEAN]
<1>1. Datagram(c, kind, id) \in Arriving
  BY DEF Datagram, Arriving, IInv, ClientShapes
<1>2. net' \subseteq net \cup {Datagram(c, kind, id)}
  BY DEF Write
<1>3. DatagramShapes'
  BY <1>1, <1>2, OneMoreSent DEF IInv, DatagramShapes
<1>4. refused' \in [Stream -> BOOLEAN]
  BY DEF Write, IInv, ClientShapes
<1> QED
  BY <1>3, <1>4

LEMMA ClientIInv ==
    ASSUME IInv, NEW c \in Stream, ClientStep(c)
    PROVE  IInv'
<1> DEFINE before == {"connect", "header", "run"}
<1>0. ClientShapes /\ run.tries \in Nat \ {0} /\ run.writes \in Nat \ {0} /\ run.flow \in Nat
  BY ScenarioFacts DEF IInv, ClientShapes
<1>1. UNCHANGED <<run, servers, listenerVars>>
  BY DEF ClientStep, InitiateServer, HdrXchange, Run, SendFIN, ReadAnswer, GiveUp,
         SelectTimeout
<1>2. ServerShapes' /\ ListInv'
  BY <1>1, ServerSideKept
<1>3. CASE InitiateServer(c)
  <2>1. DatagramShapes' /\ refused' \in [Stream -> BOOLEAN]
    <3>1. CASE run.extended
      BY <1>3, <3>1, Written DEF InitiateServer
    <3>2. CASE ~run.extended
      BY <1>3, <3>2 DEF InitiateServer, IInv, DatagramShapes, ClientShapes
    <3> QED
      BY <3>1, <3>2
  <2>2. ClientShapes'
    BY <1>0, <1>3, <2>1 DEF InitiateServer, ClientShapes
  <2> QED
    BY <1>2, <2>1, <2>2 DEF IInv
<1>4. CASE HdrXchange(c)
  <2>1. DatagramShapes'
    BY <1>4 DEF HdrXchange, IInv, DatagramShapes
  <2>2. refused' \in [Stream -> BOOLEAN]
    BY <1>0, <1>4 DEF HdrXchange, ClientShapes
  <2>3. ClientShapes'
    BY <1>0, <1>4, <2>2 DEF HdrXchange, ClientShapes
  <2> QED
    BY <1>2, <2>1, <2>3 DEF IInv
<1>5. CASE Run(c)
  <2>1. DatagramShapes' /\ refused' \in [Stream -> BOOLEAN]
    BY <1>0, <1>5, Written DEF Run, NumberSent
  <2>2. cpc[c] = "run" /\ written[c] < run.writes /\ written[c] \in Nat
    BY <1>0, <1>5 DEF Run, ClientShapes
  <2>3. packetID' \in [Stream -> Nat] /\ written' \in [Stream -> 0 .. run.writes]
    BY <1>0, <1>5, <2>2 DEF Run, ClientShapes
  <2>4. /\ cpc' \in [Stream -> {"connect", "header", "run", "fin", "wait", "done"}]
        /\ \A d \in Stream : cpc'[d] \in before => written'[d] < run.writes
    BY <1>0, <1>5, <2>2 DEF Run, ClientShapes
  <2>5. ClientShapes'
    BY <1>0, <1>5, <2>1, <2>3, <2>4 DEF Run, ClientShapes
  <2> QED
    BY <1>2, <2>1, <2>5 DEF IInv
<1>6. CASE SendFIN(c)
  <2>1. FinID(c) \in Int /\ FinKind(c) \in {"head", "data", "fin", "late"}
    BY <1>0, HalfAssumption DEF FinID, FinKind, ClientShapes
  <2>2. DatagramShapes' /\ refused' \in [Stream -> BOOLEAN]
    BY <1>6, <2>1, Written DEF SendFIN
  <2>3. tries' \in [Stream -> 0 .. run.tries]
    BY <1>0, <1>6 DEF SendFIN, OneMoreTry, ClientShapes
  <2>4. ClientShapes'
    BY <1>0, <1>6, <2>2, <2>3 DEF SendFIN, ClientShapes
  <2> QED
    BY <1>2, <2>2, <2>4 DEF IInv
<1>7. CASE ReadAnswer(c) \/ GiveUp(c)
  <2>1. DatagramShapes'
    BY <1>7 DEF ReadAnswer, GiveUp, IInv, DatagramShapes
  <2>2. /\ UNCHANGED <<run, packetID, written, tries>>
        /\ cpc' = [cpc EXCEPT ![c] = "done"]
        /\ refused' = [refused EXCEPT ![c] = FALSE]
    BY <1>7 DEF ReadAnswer, GiveUp, End
  <2>3. ClientShapes'
    BY <1>0, <2>2 DEF ClientShapes
  <2> QED
    BY <1>2, <2>1, <2>3 DEF IInv
<1>8. CASE SelectTimeout(c)
  <2>1. DatagramShapes'
    BY <1>8 DEF SelectTimeout, kernelVars, IInv, DatagramShapes
  <2>2. ClientShapes'
    BY <1>0, <1>8 DEF SelectTimeout, kernelVars, ClientShapes
  <2> QED
    BY <1>2, <2>1, <2>2 DEF IInv
<1> QED
  BY <1>3, <1>4, <1>5, <1>6, <1>7, <1>8 DEF ClientStep

--------------------------------------------------------------------------------
(* The server threads.                                                           *)

LEMMA ListOfOthers ==
    ASSUME IInv, NEW s \in DOMAIN servers, NEW v \in Server,
           servers' = [servers EXCEPT ![s] = v], Answers(v),
           v.peer = servers[s].peer,
           v.pc \in ServingPlace <=> servers[s].pc \in ServingPlace,
           servers[s].pc # "idle",
           ServerOnly, UNCHANGED clients,
           IsFiniteSet(net'), \A m \in net' : m \in net \/ m.to # "server"
    PROVE  IInv'
<1>1. UNCHANGED <<run, clientVars, refused, listening, lpc, cur, groupID, allowed>>
  BY DEF ServerOnly
<1>2. ServerShapes'
  BY <1>1, OneSocketShapes DEF IInv, ServerShapes
<1>3. SameService
  BY OneSocketService DEF IInv
<1>4. ListInv'
  BY <1>1, <1>3, ListKept DEF IInv
<1>5. DatagramShapes'
  BY DEF IInv, DatagramShapes
<1> QED
  BY <1>1, <1>2, <1>4, <1>5, ClientSideKept DEF IInv

LEMMA SocketFacts ==
    ASSUME IInv, NEW s \in DOMAIN servers
    PROVE  /\ servers[s] \in Server /\ Answers(servers[s])
           /\ servers[s].acks \in Nat /\ servers[s].peer \in Stream \cup {NobodyPeer}
           /\ run.tries \in Nat \ {0}
<1>1. servers[s] \in Server /\ Answers(servers[s])
  BY DEF IInv, ServerShapes
<1>2. servers[s].acks \in Nat /\ servers[s].peer \in Stream \cup {NobodyPeer}
  BY <1>1 DEF Server
<1> QED
  BY <1>1, <1>2, ScenarioFacts DEF IInv, ClientShapes

LEMMA RecvUDPIInv ==
    ASSUME IInv, NEW s \in DOMAIN servers, RecvUDP(s)
    PROVE  IInv'
<1> DEFINE u == [servers[s] EXCEPT !.queue = Tail(@)]
           m == NextDatagram(s)
           w == Counted(u, m)
<1>1. servers[s].pc = "recv" /\ servers[s].queue # <<>> /\ ServerOnly
      /\ UNCHANGED <<net, clients>>
  BY DEF RecvUDP
<1>2. m \in Arriving /\ u \in Server /\ u.pc = "recv" /\ u.peer = servers[s].peer
      /\ u.acks = servers[s].acks
  BY <1>1, OldestTaken, SocketFacts DEF NextDatagram
<1>3. w \in Server /\ w.peer = servers[s].peer /\ w.acks = servers[s].acks
  <2> HIDE DEF u, m
  <2> QED
    BY <1>2, CountedType
<1>4. PICK pc \in {"recv", "answer"} :
        servers' = [Popped(s) EXCEPT ![s] = [Counted(@, m) EXCEPT !.pc = pc]]
  BY DEF RecvUDP
<1>5. Popped(s) = [servers EXCEPT ![s] = u]
  BY DEF Popped
<1>6. Popped(s) \in Seq(Server) /\ DOMAIN Popped(s) = DOMAIN servers /\ Popped(s)[s] = u
      /\ \A t \in DOMAIN servers \ {s} : Popped(s)[t] = servers[t]
  <2> HIDE DEF u
  <2> QED
    BY <1>2, <1>5, Replaced DEF IInv, ServerShapes
<1> DEFINE v == [w EXCEPT !.pc = pc]
<1> HIDE DEF u, m
<1>7. servers' = [Popped(s) EXCEPT ![s] = v]
  BY <1>4, <1>6
<1>8. v \in Server /\ v.pc = pc /\ v.peer = servers[s].peer /\ v.acks = servers[s].acks
  <2> HIDE DEF w
  <2>1. pc \in Place
    BY DEF Place
  <2> QED
    BY <1>3, <2>1, PlaceChanged
<1> HIDE DEF w, v
<1>9. servers' = [servers EXCEPT ![s] = v]
  BY <1>5, <1>6, <1>7 DEF IInv, ServerShapes
<1>10. Answers(v)
  BY <1>1, <1>8, SocketFacts DEF Answers
<1> QED
  BY <1>1, <1>8, <1>9, <1>10, ListOfOthers DEF ServingPlace, IInv, DatagramShapes

LEMMA TimeIsUpIInv ==
    ASSUME IInv, NEW s \in DOMAIN servers, TimeIsUp(s) \/ AckTimeout(s)
    PROVE  IInv'
<1>1. PICK p \in {"answer", "delete"} :
        /\ servers' = [servers EXCEPT ![s].pc = p]
        /\ p = "answer" => servers[s].pc = "recv"
        /\ servers[s].pc \in {"recv", "linger"}
        /\ ServerOnly /\ UNCHANGED <<net, clients>>
  BY DEF TimeIsUp, AckTimeout
<1> DEFINE v == [servers[s] EXCEPT !.pc = p]
<1>2. servers' = [servers EXCEPT ![s] = v]
  BY <1>1
<1>3. v \in Server /\ v.pc = p /\ v.peer = servers[s].peer /\ v.acks = servers[s].acks
  <2>1. p \in Place
    BY DEF Place
  <2>2. servers[s] \in Server
    BY SocketFacts
  <2> QED
    BY <2>1, <2>2, PlaceChanged
<1> HIDE DEF v
<1>4. Answers(v)
  BY <1>1, <1>3, SocketFacts DEF Answers
<1> QED
  BY <1>1, <1>2, <1>3, <1>4, ListOfOthers DEF ServingPlace, IInv, DatagramShapes

LEMMA SendTotalsIInv ==
    ASSUME IInv, NEW s \in DOMAIN servers, SendTotals(s)
    PROVE  IInv'
<1> DEFINE v == [servers[s] EXCEPT !.acks = @ + 1, !.pc = "linger"]
<1>1. /\ servers[s].pc = "answer" /\ ServerOnly /\ UNCHANGED clients
      /\ servers' = [servers EXCEPT ![s] = v]
  BY DEF SendTotals
<1>2. v \in Server /\ v.pc = "linger" /\ v.peer = servers[s].peer
      /\ v.acks = servers[s].acks + 1
  <2>1. servers[s] \in Server /\ servers[s].acks + 1 \in Nat /\ "linger" \in Place
    BY SocketFacts DEF Place
  <2> QED
    BY <2>1 DEF Server
<1> HIDE DEF v
<1>3. Answers(v)
  BY <1>1, <1>2, SocketFacts DEF Answers
<1>4. IsFiniteSet(net') /\ \A m \in net' : m \in net \/ m.to # "server"
  <2>1. Totals(servers[s].peer, s, servers[s]).to = servers[s].peer
    BY DEF Totals
  <2>2. servers[s].peer # "server"
    BY SocketFacts, PeerAssumption DEF NobodyPeer
  <2> QED
    BY <2>1, <2>2, OneMoreSent DEF SendTotals
<1> QED
  BY <1>1, <1>2, <1>3, <1>4, ListOfOthers DEF ServingPlace

LEMMA AskedAgainIInv ==
    ASSUME IInv, NEW s \in DOMAIN servers, AskedAgain(s)
    PROVE  IInv'
<1> DEFINE u == [servers[s] EXCEPT !.queue = Tail(@)]
           p == IF MoreAcks(s) THEN "answer" ELSE "delete"
           v == [u EXCEPT !.pc = p]
<1>1. /\ servers[s].pc = "linger" /\ servers[s].queue # <<>>
      /\ ServerOnly /\ UNCHANGED <<net, clients>>
      /\ servers' = [Popped(s) EXCEPT ![s].pc = p]
  BY DEF AskedAgain
<1>2. u \in Server /\ u.peer = servers[s].peer /\ u.acks = servers[s].acks
  BY <1>1, OldestTaken, SocketFacts
<1>3. Popped(s) = [servers EXCEPT ![s] = u]
  BY DEF Popped
<1> HIDE DEF u
<1>4. Popped(s) \in Seq(Server) /\ DOMAIN Popped(s) = DOMAIN servers /\ Popped(s)[s] = u
      /\ \A t \in DOMAIN servers \ {s} : Popped(s)[t] = servers[t]
  BY <1>2, <1>3, Replaced DEF IInv, ServerShapes
<1>5. servers' = [Popped(s) EXCEPT ![s] = v]
  BY <1>1, <1>4
<1>6. v \in Server /\ v.pc = p /\ v.peer = servers[s].peer /\ v.acks = servers[s].acks
  <2> HIDE DEF p
  <2>1. p \in Place
    BY DEF p, Place
  <2> QED
    BY <1>2, <2>1, PlaceChanged
<1> HIDE DEF v
<1>7. servers' = [servers EXCEPT ![s] = v]
  BY <1>3, <1>4, <1>5 DEF IInv, ServerShapes
<1>8. Answers(v)
  BY <1>1, <1>6, SocketFacts DEF Answers, MoreAcks
<1> QED
  BY <1>1, <1>6, <1>7, <1>8, ListOfOthers DEF ServingPlace, IInv, DatagramShapes

LEMMA CloseIInv ==
    ASSUME IInv, NEW s \in DOMAIN servers, Close(s)
    PROVE  IInv'
<1> DEFINE v == [servers[s] EXCEPT !.pc = "gone", !.open = FALSE, !.queue = <<>>]
<1>1. /\ servers[s].pc = "close" /\ ServerOnly /\ UNCHANGED <<net, clients>>
      /\ servers' = [servers EXCEPT ![s] = v]
  BY DEF Close
<1>2. v \in Server /\ v.pc = "gone" /\ v.peer = servers[s].peer /\ v.acks = servers[s].acks
  <2>1. <<>> \in Seq(Arriving)
    OBVIOUS
  <2>2. servers[s] \in Server /\ "gone" \in Place
    BY SocketFacts DEF Place
  <2> QED
    BY <2>1, <2>2 DEF Server
<1> HIDE DEF v
<1>3. Answers(v)
  BY <1>2, SocketFacts DEF Answers
<1> QED
  BY <1>1, <1>2, <1>3, ListOfOthers DEF ServingPlace, IInv, DatagramShapes

--------------------------------------------------------------------------------
(* An entry goes out of the list, or into it.                                    *)

LEMMA EntryFacts ==
    ASSUME ServerShapes
    PROVE  \A i \in DOMAIN clients : clients[i].peer \in Stream /\ clients[i].group \in Nat
<1>1. \A i \in DOMAIN clients : clients[i] \in Entry
  BY DEF ServerShapes
<1> QED
  BY <1>1 DEF Entry

LEMMA EntryOfThread ==
    ASSUME ServerShapes, ClientsAreServed, NEW s \in Serving
    PROVE  /\ PlaceOf(servers[s].peer) \in 1 .. Len(clients)
           /\ clients[PlaceOf(servers[s].peer)].server = s
           /\ Iperf_present(servers[s].peer)
<1>1. PICK j \in DOMAIN clients : clients[j].server = s
  BY DEF ClientsAreServed
<1>2. clients[j].peer = servers[s].peer
  BY <1>1 DEF ClientsAreServed
<1>3. DOMAIN clients = 1 .. Len(clients)
  BY DEF ServerShapes
<1>4. /\ Iperf_present(servers[s].peer) /\ PlaceOf(servers[s].peer) \in 1 .. Len(clients)
      /\ clients[PlaceOf(servers[s].peer)].peer = servers[s].peer
  BY <1>2, <1>3, FoundByPeer
<1>5. PlaceOf(servers[s].peer) = j
  BY <1>2, <1>3, <1>4 DEF ClientsAreServed
<1> QED
  BY <1>1, <1>4, <1>5

LEMMA EntryDeleted ==
    ASSUME ServerShapes, ClientsAreServed, GroupsMade, NEW s \in Serving,
           clients' = Deleted(servers[s].peer), UNCHANGED groupID,
           Serving' = Serving \ {s},
           \A t \in Serving : servers'[t].peer = servers[t].peer
    PROVE  /\ clients' \in Seq(Entry)
           /\ ClientsAreServed' /\ GroupsMade'
           /\ \A i \in DOMAIN clients' : \E j \in DOMAIN clients :
                clients'[i].peer = clients[j].peer
<1> DEFINE k == PlaceOf(servers[s].peer)
           old(i) == IF i < k THEN i ELSE i + 1
<1>1. k \in 1 .. Len(clients) /\ clients[k].server = s
  BY EntryOfThread
<1>2. clients' = RemoveAt(clients, k)
  BY EntryOfThread DEF Deleted
<1>3. clients \in Seq(Entry) /\ DOMAIN clients = 1 .. Len(clients)
  BY DEF ServerShapes
<1> HIDE DEF k
<1>4. clients' \in Seq(Entry) /\ DOMAIN clients' = 1 .. Len(clients) - 1
  BY <1>1, <1>2, <1>3, TakenOut
<1>5. \A i \in DOMAIN clients' : clients'[i] = clients[old(i)] /\ old(i) \in DOMAIN clients
                                 /\ old(i) # k
  <2>1. \A i \in 1 .. Len(clients) - 1 :
          RemoveAt(clients, k)[i] = IF i < k THEN clients[i] ELSE clients[i + 1]
    BY <1>1, <1>3, TakenOut
  <2>2. \A i \in DOMAIN clients' : clients'[i] = clients[old(i)]
    BY <1>2, <1>4, <2>1
  <2>3. \A i \in DOMAIN clients' : old(i) \in DOMAIN clients /\ old(i) # k
    BY <1>1, <1>3, <1>4
  <2> QED
    BY <2>2, <2>3
<1>6. \A i, j \in DOMAIN clients' : old(i) = old(j) => i = j
  BY <1>1, <1>3, <1>4
<1>7. \A j \in DOMAIN clients \ {k} : \E i \in DOMAIN clients' : old(i) = j
  <2> SUFFICES ASSUME NEW j \in DOMAIN clients \ {k}
               PROVE  \E i \in DOMAIN clients' : old(i) = j
    OBVIOUS
  <2>1. CASE j < k
    <3>1. j \in DOMAIN clients' /\ old(j) = j
      BY <1>1, <1>3, <1>4, <2>1
    <3> QED
      BY <3>1
  <2>2. CASE ~(j < k)
    <3>1. j - 1 \in DOMAIN clients' /\ old(j - 1) = j
      BY <1>1, <1>3, <1>4, <2>2
    <3> QED
      BY <3>1
  <2> QED
    BY <2>1, <2>2
<1> HIDE DEF old
<1>8. {clients'[i].server : i \in DOMAIN clients'} = Serving \ {s}
  <2>1. ASSUME NEW i \in DOMAIN clients' PROVE clients'[i].server \in Serving \ {s}
    <3>1. clients[old(i)].server \in Serving
      BY <1>5 DEF ClientsAreServed
    <3>2. ASSUME clients[old(i)].server = s PROVE FALSE
      <4>1. clients[old(i)].peer = clients[k].peer
        BY <1>1, <1>3, <1>5, <3>2 DEF ClientsAreServed
      <4> QED
        BY <1>1, <1>3, <1>5, <4>1 DEF ClientsAreServed
    <3> QED
      BY <1>5, <3>1, <3>2
  <2>2. ASSUME NEW t \in Serving \ {s}
        PROVE  \E i \in DOMAIN clients' : clients'[i].server = t
    <3>1. PICK j \in DOMAIN clients : clients[j].server = t
      BY DEF ClientsAreServed
    <3>2. j # k
      BY <1>1, <3>1
    <3> QED
      BY <1>5, <1>7, <3>1, <3>2
  <2> QED
    BY <2>1, <2>2
<1>9. \A i \in DOMAIN clients' : servers'[clients'[i].server].peer = clients'[i].peer
  <2> SUFFICES ASSUME NEW i \in DOMAIN clients'
               PROVE  servers'[clients'[i].server].peer = clients'[i].peer
    OBVIOUS
  <2>1. clients'[i] = clients[old(i)] /\ old(i) \in DOMAIN clients
    BY <1>5
  <2>2. clients[old(i)].server \in Serving
        /\ servers[clients[old(i)].server].peer = clients[old(i)].peer
    BY <2>1 DEF ClientsAreServed
  <2> QED
    BY <2>1, <2>2
<1>10. \A i, j \in DOMAIN clients' :
         /\ clients'[i].peer = clients'[j].peer => i = j
         /\ SameHost(clients'[i].peer, clients'[j].peer) <=> clients'[i].group = clients'[j].group
  BY <1>5, <1>6 DEF ClientsAreServed
<1>11. ClientsAreServed'
  BY <1>8, <1>9, <1>10 DEF ClientsAreServed, SameHost
<1>12. GroupsMade'
  BY <1>5 DEF GroupsMade
<1> QED
  BY <1>4, <1>5, <1>11, <1>12

LEMMA GroupChosen ==
    ASSUME ServerShapes, ClientsAreServed, GroupsMade, NEW c \in Stream
    PROVE  /\ GroupOf(c) \in Nat /\ Largest(groupID, GroupOf(c)) \in Nat
           /\ GroupOf(c) <= Largest(groupID, GroupOf(c))
           /\ groupID <= Largest(groupID, GroupOf(c))
           /\ \A i \in DOMAIN clients :
                SameHost(clients[i].peer, c) <=> clients[i].group = GroupOf(c)
<1>1. /\ groupID \in Nat /\ DOMAIN clients = 1 .. Len(clients)
      /\ \A i \in DOMAIN clients : clients[i].group \in Nat
  BY EntryFacts DEF ServerShapes
<1>2. /\ GroupOf(c) \in Nat
      /\ \A i \in DOMAIN clients : SameHost(clients[i].peer, c) <=> clients[i].group = GroupOf(c)
  <2>1. CASE Iperf_hostpresent(c)
    <3> DEFINE h == PlaceOfHost(c)
    <3>1. h \in DOMAIN clients /\ SameHost(clients[h].peer, c) /\ GroupOf(c) = clients[h].group
      BY <1>1, <2>1, FoundByHost DEF GroupOf
    <3> HIDE DEF h
    <3>2. ASSUME NEW i \in DOMAIN clients
          PROVE  SameHost(clients[i].peer, c) <=> clients[i].group = GroupOf(c)
      <4>1. SameHost(clients[i].peer, clients[h].peer) <=> clients[i].group = clients[h].group
        BY <3>1 DEF ClientsAreServed
      <4> QED
        BY <3>1, <4>1 DEF SameHost
    <3> QED
      BY <1>1, <3>1, <3>2
  <2>2. CASE ~Iperf_hostpresent(c)
    <3>1. GroupOf(c) = groupID + 1
      BY <2>2 DEF GroupOf
    <3>2. \A i \in DOMAIN clients : ~SameHost(clients[i].peer, c)
      BY <1>1, <2>2, FoundByHost
    <3> QED
      BY <1>1, <3>1, <3>2 DEF GroupsMade
  <2> QED
    BY <2>1, <2>2
<1> QED
  BY <1>1, <1>2 DEF Largest

LEMMA EntryAdded ==
    ASSUME ServerShapes, ClientsAreServed, GroupsMade,
           NEW c \in Stream, NEW s \in Nat, Iperf_pushback(c, s),
           \A i \in DOMAIN clients : clients[i].peer # c,
           Serving' = Serving \cup {s}, servers'[s].peer = c,
           \A t \in Serving : servers'[t].peer = servers[t].peer
    PROVE  /\ clients' \in Seq(Entry) /\ groupID' \in Nat
           /\ ClientsAreServed' /\ GroupsMade'
           /\ \A i \in DOMAIN clients' :
                \/ clients'[i].peer = c
                \/ \E j \in DOMAIN clients : clients'[i].peer = clients[j].peer
<1> DEFINE entry == [peer |-> c, server |-> s, group |-> GroupOf(c)]
<1>1. clients \in Seq(Entry) /\ DOMAIN clients = 1 .. Len(clients)
  BY DEF ServerShapes
<1>2. entry \in Entry
  BY GroupChosen DEF Entry
<1>3. clients' = Cons(entry, clients) /\ groupID' = Largest(groupID, GroupOf(c))
  BY DEF Iperf_pushback
<1>4. entry.peer = c /\ entry.server = s /\ entry.group = GroupOf(c)
  OBVIOUS
<1> HIDE DEF entry
<1>5. clients' \in Seq(Entry) /\ DOMAIN clients' = 1 .. Len(clients) + 1
      /\ \A i \in DOMAIN clients' : clients'[i] = IF i = 1 THEN entry ELSE clients[i - 1]
  <2>1. /\ Cons(entry, clients) \in Seq(Entry)
        /\ Len(Cons(entry, clients)) = Len(clients) + 1
        /\ \A i \in 1 .. Len(clients) + 1 :
             Cons(entry, clients)[i] = IF i = 1 THEN entry ELSE clients[i - 1]
    BY <1>1, <1>2, SMT DEF Cons
  <2>2. DOMAIN Cons(entry, clients) = 1 .. Len(clients) + 1
    BY <2>1
  <2> QED
    BY <1>3, <2>1, <2>2
<1>6. 1 \in DOMAIN clients' /\ clients'[1] = entry
  BY <1>1, <1>5
<1>7. \A i \in DOMAIN clients' \ {1} : i - 1 \in DOMAIN clients /\ clients'[i] = clients[i - 1]
  BY <1>1, <1>5
<1>8. \A j \in DOMAIN clients : j + 1 \in DOMAIN clients' /\ clients'[j + 1] = clients[j]
  BY <1>1, <1>5
<1>9. {clients'[i].server : i \in DOMAIN clients'} = Serving \cup {s}
  <2>1. ASSUME NEW i \in DOMAIN clients' PROVE clients'[i].server \in Serving \cup {s}
    BY <1>4, <1>6, <1>7 DEF ClientsAreServed
  <2>2. ASSUME NEW t \in Serving PROVE \E i \in DOMAIN clients' : clients'[i].server = t
    BY <1>8 DEF ClientsAreServed
  <2> QED
    BY <1>4, <1>6, <2>1, <2>2
<1>10. ASSUME NEW i \in DOMAIN clients'
       PROVE  servers'[clients'[i].server].peer = clients'[i].peer
  <2>1. CASE i = 1
    BY <1>4, <1>6, <2>1
  <2>2. CASE i # 1
    <3>1. i - 1 \in DOMAIN clients /\ clients'[i] = clients[i - 1]
      BY <1>7, <2>2
    <3>2. clients[i - 1].server \in Serving
          /\ servers[clients[i - 1].server].peer = clients[i - 1].peer
      BY <3>1 DEF ClientsAreServed
    <3> QED
      BY <3>1, <3>2
  <2> QED
    BY <2>1, <2>2
<1>11. ASSUME NEW i \in DOMAIN clients', NEW j \in DOMAIN clients'
       PROVE  /\ clients'[i].peer = clients'[j].peer => i = j
              /\ SameHost(clients'[i].peer, clients'[j].peer)
                   <=> clients'[i].group = clients'[j].group
  <2>1. CASE i = 1 /\ j = 1
    BY <1>6, <2>1 DEF SameHost
  <2>2. CASE i = 1 /\ j # 1
    <3>1. j - 1 \in DOMAIN clients /\ clients'[j] = clients[j - 1] /\ clients'[i] = entry
      BY <1>6, <1>7, <2>2
    <3>2. SameHost(clients[j - 1].peer, c) <=> clients[j - 1].group = GroupOf(c)
      BY <3>1, GroupChosen
    <3> QED
      BY <1>4, <3>1, <3>2 DEF SameHost
  <2>3. CASE i # 1 /\ j = 1
    <3>1. i - 1 \in DOMAIN clients /\ clients'[i] = clients[i - 1] /\ clients'[j] = entry
      BY <1>6, <1>7, <2>3
    <3>2. SameHost(clients[i - 1].peer, c) <=> clients[i - 1].group = GroupOf(c)
      BY <3>1, GroupChosen
    <3> QED
      BY <1>4, <3>1, <3>2 DEF SameHost
  <2>4. CASE i # 1 /\ j # 1
    <3>1. /\ i - 1 \in DOMAIN clients /\ clients'[i] = clients[i - 1]
          /\ j - 1 \in DOMAIN clients /\ clients'[j] = clients[j - 1]
      BY <1>7, <2>4
    <3>2. /\ clients[i - 1].peer = clients[j - 1].peer => i - 1 = j - 1
          /\ SameHost(clients[i - 1].peer, clients[j - 1].peer)
               <=> clients[i - 1].group = clients[j - 1].group
      BY <3>1 DEF ClientsAreServed
    <3>3. i - 1 = j - 1 => i = j
      BY <1>1, <1>5
    <3> QED
      BY <3>1, <3>2, <3>3
  <2> QED
    BY <2>1, <2>2, <2>3, <2>4
<1>12. ClientsAreServed'
  BY <1>9, <1>10, <1>11 DEF ClientsAreServed, SameHost
<1>13. GroupsMade'
  <2>1. groupID \in Nat /\ \A i \in DOMAIN clients : clients[i].group \in Nat
    BY EntryFacts DEF ServerShapes
  <2> QED
    BY <1>3, <1>4, <1>6, <1>7, <2>1, GroupChosen DEF GroupsMade
<1>14. groupID' \in Nat
  BY <1>3, GroupChosen
<1> QED
  BY <1>4, <1>5, <1>6, <1>7, <1>12, <1>13, <1>14

LEMMA WithoutEntry ==
    ASSUME IInv, NEW s \in Serving,
           DOMAIN servers' = DOMAIN servers,
           \A t \in DOMAIN servers : servers'[t].peer = servers[t].peer,
           \A t \in DOMAIN servers \ {s} : servers'[t].pc \in ServingPlace
                                              <=> servers[t].pc \in ServingPlace,
           \A t \in DOMAIN servers : servers[t].pc = "idle" => servers'[t].pc = "idle",
           servers'[s].pc \in {"close", "gone"},
           clients' = Deleted(servers[s].peer),
           UNCHANGED <<run, listening, lpc, cur, groupID, allowed>>
    PROVE  clients' \in Seq(Entry) /\ ListInv'
<1>1. ServerShapes /\ ClientsAreServed /\ GroupsMade
  BY DEF IInv, ListInv
<1>2. Serving' = Serving \ {s}
  BY DEF Serving, ServingPlace
<1>3. \A t \in Serving : servers'[t].peer = servers[t].peer
  BY DEF Serving
<1>4. /\ clients' \in Seq(Entry) /\ ClientsAreServed' /\ GroupsMade'
      /\ \A i \in DOMAIN clients' : \E j \in DOMAIN clients :
           clients'[i].peer = clients[j].peer
  BY <1>1, <1>2, <1>3, EntryDeleted
<1>5. HandOver'
  BY <1>1, <1>4 DEF IInv, ListInv, HandOver, ServerShapes
<1>6. OfAllowedHost'
  BY <1>4 DEF IInv, ListInv, OfAllowedHost
<1> QED
  BY <1>4, <1>5, <1>6 DEF ListInv

LEMMA ForgetIInv ==
    ASSUME IInv, NEW s \in DOMAIN servers, Forget(s)
    PROVE  IInv'
<1> DEFINE v == [servers[s] EXCEPT !.pc = "close"]
<1>1. /\ servers[s].pc = "delete" /\ ServerOnly /\ UNCHANGED net
      /\ servers' = [servers EXCEPT ![s] = v]
      /\ clients' = Deleted(servers[s].peer)
  BY DEF Forget
<1>2. v \in Server /\ v.pc = "close" /\ v.peer = servers[s].peer /\ v.acks = servers[s].acks
  <2>1. servers[s] \in Server /\ "close" \in Place
    BY SocketFacts DEF Place
  <2> QED
    BY <2>1, PlaceChanged
<1> HIDE DEF v
<1>3. Answers(v)
  BY <1>2, SocketFacts DEF Answers
<1>4. UNCHANGED <<run, clientVars, refused, listening, lpc, cur, groupID, allowed>>
  BY <1>1 DEF ServerOnly
<1>5. ServerShapes
  BY DEF IInv
<1>6. /\ DOMAIN servers' = DOMAIN servers
      /\ servers'[s] = v
      /\ \A t \in DOMAIN servers \ {s} : servers'[t] = servers[t]
  BY <1>1, <1>2, <1>3, <1>4, <1>5, OneSocket
<1>7. s \in Serving
  BY <1>1 DEF Serving
<1>8. /\ \A t \in DOMAIN servers : servers'[t].peer = servers[t].peer
      /\ \A t \in DOMAIN servers \ {s} : servers'[t].pc = servers[t].pc
      /\ \A t \in DOMAIN servers : servers[t].pc = "idle" => servers'[t].pc = "idle"
  BY <1>1, <1>2, <1>6
<1>9. clients' \in Seq(Entry) /\ ListInv'
  BY <1>1, <1>2, <1>4, <1>6, <1>7, <1>8, WithoutEntry
<1>10. ServerShapes'
  BY <1>1, <1>2, <1>3, <1>4, <1>5, <1>9, OneSocketShapes DEF ServerShapes
<1>11. DatagramShapes'
  BY <1>1 DEF IInv, DatagramShapes
<1> QED
  BY <1>4, <1>9, <1>10, <1>11, ClientSideKept DEF IInv

LEMMA ServerIInv ==
    ASSUME IInv, NEW s \in DOMAIN servers, ServerStep(s)
    PROVE  IInv'
BY RecvUDPIInv, TimeIsUpIInv, SendTotalsIInv, AskedAgainIInv, ForgetIInv, CloseIInv
   DEF ServerStep

--------------------------------------------------------------------------------
(* The listener.                                                                 *)

LEMMA ListenerFacts ==
    ASSUME IInv
    PROVE  /\ ServerShapes /\ ListInv /\ ClientsAreServed /\ GroupsMade
           /\ listening \in DOMAIN servers /\ servers \in Seq(Server)
           /\ servers[listening] \in Server /\ Answers(servers[listening])
           /\ lpc \in {"accept", "check", "start"} =>
                servers[listening].pc = "idle" /\ listening \notin Serving
BY SocketFacts DEF IInv, ListInv, ServerShapes, HandOver, Serving

LEMMA AcceptIInv ==
    ASSUME IInv, Accept
    PROVE  IInv'
<1> DEFINE m == NextDatagram(listening)
           u == [servers[listening] EXCEPT !.queue = Tail(@)]
<1>1. /\ lpc = "accept" /\ servers[listening].queue # <<>>
      /\ UNCHANGED <<run, clientVars, refused, net, listening, clients, groupID, allowed>>
  BY DEF Accept, kernelVars
<1>2. m \in Arriving /\ u \in Server /\ u.pc = "idle" /\ u.peer = servers[listening].peer
      /\ u.acks = servers[listening].acks
  BY <1>1, OldestTaken, ListenerFacts DEF NextDatagram
<1>3. Popped(listening) = [servers EXCEPT ![listening] = u]
  BY DEF Popped
<1>4. DatagramShapes' /\ ClientShapes'
  BY <1>1, ClientSideKept DEF IInv, DatagramShapes
<1> HIDE DEF u
<1>5. CASE ~Takes(m)
  <2>1. servers' = [servers EXCEPT ![listening] = u] /\ UNCHANGED <<cur, lpc>>
    BY <1>3, <1>5 DEF Accept
  <2>2. Answers(u)
    BY <1>1, <1>2, ListenerFacts DEF Answers
  <2>3. SameService
    BY <1>1, <1>2, <2>1, ListenerFacts, OneSocketService DEF ServingPlace
  <2>4. ListInv'
    BY <1>1, <2>1, <2>3, ListenerFacts, ListKept
  <2>5. ServerShapes'
    BY <1>1, <1>2, <2>1, <2>2, ListenerFacts, OneSocketShapes DEF ServerShapes
  <2> QED
    BY <1>4, <2>4, <2>5 DEF IInv
<1>6. CASE Takes(m)
  <2> DEFINE v == [u EXCEPT !.peer = m.from]
  <2>1. servers' = [Popped(listening) EXCEPT ![listening].peer = m.from]
        /\ cur' = <<m>> /\ lpc' = "check"
    BY <1>6 DEF Accept
  <2> HIDE DEF m
  <2>2. servers' = [servers EXCEPT ![listening] = v]
    <3>1. Popped(listening)[listening] = u
      BY <1>2, <1>3, ListenerFacts, Replaced
    <3>2. servers' = [Popped(listening) EXCEPT ![listening] = v]
      BY <2>1, <3>1
    <3> QED
      BY <1>3, <3>2, ListenerFacts
  <2>3. m.from \in Stream
    BY <1>2 DEF Arriving
  <2>4. v \in Server /\ v.peer = m.from /\ v.pc = "idle" /\ v.acks = u.acks
    BY <1>2, <2>3 DEF Server
  <2> HIDE DEF v
  <2>5. Answers(v)
    BY <1>1, <1>2, <2>4, ListenerFacts DEF Answers
  <2>6. cur' \in Seq(Arriving) /\ cur' # <<>> /\ cur'[1] = m
    BY <1>2, <2>1
  <2>7. ServerShapes'
    BY <1>1, <2>1, <2>2, <2>4, <2>5, <2>6, ListenerFacts, OneSocketShapes DEF ServerShapes
  <2>8. /\ DOMAIN servers' = DOMAIN servers /\ servers'[listening] = v
        /\ \A t \in DOMAIN servers \ {listening} : servers'[t] = servers[t]
    BY <1>1, <2>2, <2>4, <2>5, ListenerFacts, OneSocket
  <2>9. Serving' = Serving
    BY <1>1, <2>4, <2>8, ListenerFacts DEF Serving
  <2>10. ClientsAreServed'
    <3>1. \A t \in Serving : servers'[t].peer = servers[t].peer
      BY <1>1, <2>8, ListenerFacts DEF Serving
    <3> QED
      BY <1>1, <2>9, <3>1, ListenerFacts, StillServed
  <2>11. HandOver'
    <3>1. \A i \in DOMAIN clients : clients[i].peer # m.from
      BY <1>6, FoundByPeer, ListenerFacts DEF Takes, ServerShapes
    <3> QED
      BY <1>1, <2>1, <2>4, <2>6, <2>8, <3>1 DEF HandOver
  <2>12. GroupsMade' /\ OfAllowedHost'
    BY <1>1, <2>1 DEF IInv, ListInv, GroupsMade, OfAllowedHost
  <2> QED
    BY <1>4, <2>7, <2>10, <2>11, <2>12 DEF IInv, ListInv
<1> QED
  BY <1>5, <1>6

(* A socket is shut: nothing else that matters changes.                          *)
LEMMA Shut ==
    ASSUME IInv, servers' = [servers EXCEPT ![listening].open = FALSE],
           UNCHANGED <<run, listening, cur, clients, groupID>>,
           lpc' \in {"relisten", "stopped"}
    PROVE  ServerShapes' /\ ClientsAreServed' /\ HandOver' /\ GroupsMade'
<1> DEFINE v == [servers[listening] EXCEPT !.open = FALSE]
<1>1. v \in Server /\ v.pc = servers[listening].pc /\ v.peer = servers[listening].peer
      /\ v.acks = servers[listening].acks
  BY ListenerFacts DEF Server
<1>2. servers' = [servers EXCEPT ![listening] = v]
  OBVIOUS
<1> HIDE DEF v
<1>3. Answers(v)
  BY <1>1, ListenerFacts DEF Answers
<1>4. ServerShapes'
  BY <1>1, <1>2, <1>3, ListenerFacts, OneSocketShapes DEF ServerShapes
<1>5. SameService
  <2>1. /\ servers \in Seq(Server) /\ listening \in DOMAIN servers
        /\ servers[listening] \in Server
    BY ListenerFacts
  <2> QED
    BY <1>1, <1>2, <2>1, OneSocketService DEF IInv
<1> QED
  BY <1>4, <1>5, ServedKept DEF IInv, ListInv, HandOver, GroupsMade

(* The stream that is admitted, and those in the list, are of the host that is   *)
(* allowed from then on.                                                         *)
LEMMA AdmittedHost ==
    ASSUME IInv, run.only, NEW c \in Stream
    PROVE  /\ \A i \in DOMAIN clients : Host[clients[i].peer] = AllowedNow(c)
           /\ Admitted(c) => Host[c] = AllowedNow(c)
<1>1. clients \in Seq(Entry)
  BY DEF IInv, ServerShapes
<1>2. \A i \in DOMAIN clients : Host[clients[i].peer] = allowed
  BY DEF IInv, ListInv, OfAllowedHost
<1>3. CASE Reset
  BY <1>3 DEF Reset, AllowedNow
<1>4. CASE ~Reset
  <2>1. 1 \in DOMAIN clients
    BY <1>1, <1>4 DEF Reset
  <2>2. clients[1].peer \in Stream
    BY <2>1, EntryFacts DEF IInv
  <2>3. AllowedNow(c) = allowed /\ allowed # NobodyPeer
    BY <1>2, <1>4, <2>1, <2>2, PeerAssumption DEF AllowedNow
  <2> QED
    BY <1>2, <2>3 DEF Admitted
<1> QED
  BY <1>3, <1>4

LEMMA CheckIInv ==
    ASSUME IInv, Check
    PROVE  IInv'
<1> DEFINE m == cur[1]
<1>1. /\ lpc = "check" /\ allowed' = AllowedNow(m.from)
      /\ UNCHANGED <<run, clientVars, refused, listening, cur, clients, groupID>>
  BY DEF Check, ResetSingleClient
<1>2. m \in Arriving /\ m.from \in Stream
  <2>1. cur \in Seq(Arriving) /\ cur # <<>>
    BY <1>1 DEF IInv, ServerShapes, ListInv, HandOver
  <2>2. m \in Arriving
    BY <2>1
  <2> QED
    BY <2>2 DEF Arriving
<1> HIDE DEF m
<1>3. ClientShapes'
  BY <1>1, ClientSideKept
<1>4. run.only => \A i \in DOMAIN clients' : Host[clients'[i].peer] = allowed'
  BY <1>1, <1>2, AdmittedHost
<1>5. CASE Admitted(m.from)
  <2>1. /\ lpc' = "start" /\ UNCHANGED servers
        /\ net' = IF run.extended THEN net \cup {Reply(m.from, "version", listening)} ELSE net
    BY <1>5 DEF Check, m
  <2>2. DatagramShapes'
    <3>1. Reply(m.from, "version", listening).to # "server"
      BY <1>2, PeerAssumption DEF Reply
    <3>2. IsFiniteSet(net')
      BY <2>1, OneMoreSent
    <3> QED
      BY <2>1, <3>1, <3>2 DEF IInv, DatagramShapes
  <2>3. ServerShapes'
    BY <1>1, <2>1 DEF IInv, ServerShapes, Answers
  <2>4. ClientsAreServed' /\ HandOver' /\ GroupsMade'
    BY <1>1, <2>1, SameSocketsSameService, ServedKept DEF IInv, ListInv, HandOver, GroupsMade
  <2>5. OfAllowedHost'
    <3>1. run.only => Host[cur'[1].from] = allowed'
      BY <1>1, <1>2, <1>5, AdmittedHost DEF m
    <3> QED
      BY <1>1, <1>4, <3>1 DEF OfAllowedHost
  <2> QED
    BY <1>3, <2>2, <2>3, <2>4, <2>5 DEF IInv, ListInv
<1>6. CASE ~Admitted(m.from)
  <2>1. /\ lpc' = "relisten" /\ UNCHANGED net
        /\ servers' = [servers EXCEPT ![listening].open = FALSE]
    BY <1>6 DEF Check, m
  <2>2. ServerShapes' /\ ClientsAreServed' /\ HandOver' /\ GroupsMade'
    BY <1>1, <2>1, Shut
  <2>3. OfAllowedHost'
    BY <1>1, <1>4, <2>1 DEF OfAllowedHost
  <2>4. DatagramShapes'
    BY <2>1 DEF IInv, DatagramShapes
  <2> QED
    BY <1>3, <2>2, <2>3, <2>4 DEF IInv, ListInv
<1> QED
  BY <1>5, <1>6

LEMMA StopListeningIInv ==
    ASSUME IInv, StopListening
    PROVE  IInv'
<1>1. /\ servers' = [servers EXCEPT ![listening].open = FALSE] /\ lpc' = "stopped"
      /\ UNCHANGED <<run, clientVars, refused, net, listening, cur, clients, groupID, allowed>>
  BY DEF StopListening, kernelVars
<1>2. ServerShapes' /\ ClientsAreServed' /\ HandOver' /\ GroupsMade'
  BY <1>1, Shut
<1>3. OfAllowedHost'
  BY <1>1 DEF IInv, ListInv, OfAllowedHost
<1>4. DatagramShapes'
  BY <1>1 DEF IInv, DatagramShapes
<1> QED
  BY <1>1, <1>2, <1>3, <1>4, ClientSideKept DEF IInv, ListInv

LEMMA StartServerIInv ==
    ASSUME IInv, StartServer
    PROVE  IInv'
<1> DEFINE c == cur[1].from
           v == [servers[listening] EXCEPT !.pc = "recv"]
<1>1. /\ lpc = "start" /\ lpc' = "listen"
      /\ Iperf_pushback(c, listening)
      /\ servers' = [servers EXCEPT ![listening] = v]
      /\ UNCHANGED <<run, clientVars, refused, net, listening, cur, allowed>>
  BY DEF StartServer, kernelVars
<1>2. v \in Server /\ v.pc = "recv" /\ v.peer = servers[listening].peer
      /\ v.acks = servers[listening].acks
  <2>1. servers[listening] \in Server /\ "recv" \in Place
    BY ListenerFacts DEF Place
  <2> QED
    BY <2>1, PlaceChanged
<1> HIDE DEF v
<1>3. Answers(v)
  BY <1>1, <1>2, ListenerFacts DEF Answers
<1>4. c \in Stream /\ servers[listening].peer = c
      /\ \A i \in DOMAIN clients : clients[i].peer # c
  <2>1. cur \in Seq(Arriving) /\ cur # <<>> /\ servers[listening].peer = c
        /\ \A i \in DOMAIN clients : clients[i].peer # c
    BY <1>1 DEF IInv, ServerShapes, ListInv, HandOver
  <2>2. cur[1] \in Arriving
    BY <2>1
  <2> QED
    BY <2>1, <2>2 DEF Arriving
<1> HIDE DEF c
<1>5. /\ servers' \in Seq(Server) /\ DOMAIN servers' = DOMAIN servers
      /\ servers'[listening] = v
      /\ \A t \in DOMAIN servers \ {listening} : servers'[t] = servers[t]
      /\ \A t \in DOMAIN servers' : Answers(servers[t])'
  BY <1>1, <1>2, <1>3, ListenerFacts, OneSocket
<1>6. Serving' = Serving \cup {listening} /\ \A t \in Serving : servers'[t].peer = servers[t].peer
  BY <1>1, <1>2, <1>5, ListenerFacts DEF Serving
<1>7. listening \in Nat
  BY ListenerFacts
<1>8. /\ clients' \in Seq(Entry) /\ groupID' \in Nat /\ ClientsAreServed' /\ GroupsMade'
      /\ \A i \in DOMAIN clients' :
           \/ clients'[i].peer = c
           \/ \E j \in DOMAIN clients : clients'[i].peer = clients[j].peer
  BY <1>1, <1>2, <1>4, <1>5, <1>6, <1>7, ListenerFacts, EntryAdded
<1>9. ServerShapes'
  BY <1>1, <1>5, <1>8, ListenerFacts DEF ServerShapes
<1>10. HandOver'
  BY <1>1 DEF HandOver
<1>11. OfAllowedHost'
  BY <1>1, <1>8 DEF IInv, ListInv, OfAllowedHost, c
<1>12. DatagramShapes'
  BY <1>1 DEF IInv, DatagramShapes
<1> QED
  BY <1>1, <1>8, <1>9, <1>10, <1>11, <1>12, ClientSideKept DEF IInv, ListInv

(* A socket is opened.                                                           *)
LEMMA Opened ==
    ASSUME NEW seq \in Seq(Server), NEW v \in Server
    PROVE  /\ Append(seq, v) \in Seq(Server)
           /\ DOMAIN Append(seq, v) = DOMAIN seq \cup {Len(seq) + 1}
           /\ Append(seq, v)[Len(seq) + 1] = v
           /\ Len(seq) + 1 \notin DOMAIN seq
           /\ \A t \in DOMAIN seq : Append(seq, v)[t] = seq[t]
OBVIOUS

LEMMA MoreClientsIsBoolean ==
    ASSUME NEW n
    PROVE  MoreClients(n) \in BOOLEAN
BY Zenon DEF MoreClients

LEMMA ListenIInv ==
    ASSUME IInv, Listen
    PROVE  IInv'
<1> DEFINE n == Len(servers) + 1
           v == [Socket EXCEPT !.open = MoreClients(mClients')]
<1>1. /\ listening' = n /\ servers' = Append(servers, v) /\ cur' = <<>>
      /\ UNCHANGED <<run, clientVars, refused, net, clients, groupID, allowed>>
  BY DEF Listen, kernelVars
<1>2. lpc' \in {"accept", "stopped"}
  BY Zenon DEF Listen
<1>3. v \in Server /\ v.pc = "idle" /\ v.acks = 0
  BY MoreClientsIsBoolean, NewSocketMayBeShut
<1> HIDE DEF v
<1>4. /\ servers' \in Seq(Server) /\ DOMAIN servers' = DOMAIN servers \cup {n}
      /\ servers'[n] = v /\ n \notin DOMAIN servers
      /\ \A t \in DOMAIN servers : servers'[t] = servers[t]
  BY <1>1, <1>3, ListenerFacts, Opened
<1> HIDE DEF n
<1>5. \A t \in DOMAIN servers' : Answers(servers[t])'
  <2>1. run.tries \in Nat /\ \A t \in DOMAIN servers : Answers(servers[t])
    BY ScenarioFacts DEF IInv, ClientShapes, ServerShapes
  <2> QED
    BY <1>1, <1>3, <1>4, <2>1 DEF Answers
<1>6. ServerShapes'
  <2>1. clients \in Seq(Entry) /\ groupID \in Nat /\ cur' \in Seq(Arriving)
    BY <1>1 DEF IInv, ServerShapes
  <2> QED
    BY <1>1, <1>2, <1>4, <1>5, <2>1 DEF ServerShapes
<1>7. Serving' = Serving /\ \A t \in Serving : servers'[t].peer = servers[t].peer
  BY <1>3, <1>4 DEF Serving
<1>8. ClientsAreServed'
  BY <1>1, <1>7, ListenerFacts, StillServed
<1>9. HandOver'
  BY <1>1, <1>2, <1>3, <1>4 DEF HandOver
<1>10. GroupsMade' /\ OfAllowedHost'
  BY <1>1, <1>2 DEF IInv, ListInv, GroupsMade, OfAllowedHost
<1>11. DatagramShapes'
  BY <1>1 DEF IInv, DatagramShapes
<1> QED
  BY <1>1, <1>6, <1>8, <1>9, <1>10, <1>11, ClientSideKept DEF IInv, ListInv

--------------------------------------------------------------------------------
(* One socket for all streams.                                                   *)

LEMMA TakingFacts ==
    ASSUME IInv, NEW m, Taking(m)
    PROVE  /\ lpc = "accept" /\ m \in Arriving /\ m.from \in Stream
           /\ Popped(listening) \in Seq(Server)
           /\ DOMAIN Popped(listening) = DOMAIN servers
           /\ Len(Popped(listening)) = Len(servers)
           /\ \A t \in DOMAIN servers : /\ Answers(Popped(listening)[t])
                                        /\ Popped(listening)[t].pc = servers[t].pc
                                        /\ Popped(listening)[t].peer = servers[t].peer
                                        /\ Popped(listening)[t].acks = servers[t].acks
<1> DEFINE u == [servers[listening] EXCEPT !.queue = Tail(@)]
<1>1. lpc = "accept" /\ servers[listening].queue # <<>> /\ m = Head(servers[listening].queue)
  BY DEF Taking, NextDatagram
<1>2. m \in Arriving /\ u \in Server /\ u.pc = servers[listening].pc
      /\ u.peer = servers[listening].peer /\ u.acks = servers[listening].acks
  BY <1>1, OldestTaken, ListenerFacts
<1>3. Popped(listening) = [servers EXCEPT ![listening] = u]
  BY DEF Popped
<1> HIDE DEF u
<1>4. /\ Popped(listening) \in Seq(Server) /\ DOMAIN Popped(listening) = DOMAIN servers
      /\ Len(Popped(listening)) = Len(servers) /\ Popped(listening)[listening] = u
      /\ \A t \in DOMAIN servers \ {listening} : Popped(listening)[t] = servers[t]
  BY <1>2, <1>3, ListenerFacts, Replaced
<1>5. \A t \in DOMAIN servers : /\ Popped(listening)[t].pc = servers[t].pc
                                /\ Popped(listening)[t].peer = servers[t].peer
                                /\ Popped(listening)[t].acks = servers[t].acks
  BY <1>2, <1>4
<1>6. \A t \in DOMAIN servers : Answers(servers[t])
  BY ListenerFacts DEF ServerShapes
<1>7. \A t \in DOMAIN servers : Answers(Popped(listening)[t])
  BY <1>5, <1>6 DEF Answers
<1>8. m.from \in Stream
  BY <1>2 DEF Arriving
<1> QED
  BY <1>1, <1>2, <1>4, <1>5, <1>7, <1>8

LEMMA OnePoppedSocket ==
    ASSUME IInv, NEW m, Taking(m), NEW s \in DOMAIN servers, NEW v \in Server,
           servers' = [Popped(listening) EXCEPT ![s] = v], Answers(v), UNCHANGED run
    PROVE  /\ servers' \in Seq(Server) /\ DOMAIN servers' = DOMAIN servers
           /\ servers'[s] = v
           /\ \A t \in DOMAIN servers \ {s} :
                servers'[t].pc = servers[t].pc /\ servers'[t].peer = servers[t].peer
           /\ \A t \in DOMAIN servers' : Answers(servers[t])'
<1>1. /\ servers' \in Seq(Server) /\ DOMAIN servers' = DOMAIN servers
      /\ servers'[s] = v
      /\ \A t \in DOMAIN servers \ {s} : servers'[t] = Popped(listening)[t]
  BY TakingFacts, Replaced
<1> QED
  BY <1>1, TakingFacts DEF Answers

LEMMA EntryOfPeer ==
    ASSUME IInv, NEW c, Iperf_present(c)
    PROVE  /\ clients[PlaceOf(c)].server \in Serving
           /\ clients[PlaceOf(c)].server \in DOMAIN servers
           /\ servers[clients[PlaceOf(c)].server].peer = c
<1>1. PlaceOf(c) \in DOMAIN clients /\ clients[PlaceOf(c)].peer = c
  BY FoundByPeer, ListenerFacts DEF ServerShapes
<1> QED
  BY <1>1, ListenerFacts DEF ClientsAreServed, Serving

LEMMA SingleDataIInv ==
    ASSUME IInv, NEW m, SingleData(m)
    PROVE  IInv'
<1> DEFINE s == clients[PlaceOf(m.from)].server
           u == Popped(listening)[s]
           v == Counted(u, m)
<1>1. /\ Taking(m) /\ Iperf_present(m.from)
      /\ servers' = [Popped(listening) EXCEPT ![s] = Counted(@, m)]
      /\ UNCHANGED <<run, clientVars, refused, net, listening, lpc, cur, clients, groupID,
                     allowed>>
  BY DEF SingleData, SingleOnly
<1>2. s \in DOMAIN servers
  BY <1>1, EntryOfPeer
<1> HIDE DEF s
<1>3. m \in Arriving /\ u \in Server /\ Answers(u) /\ u.pc = servers[s].pc
      /\ u.peer = servers[s].peer
  BY <1>1, <1>2, TakingFacts
<1>4. servers' = [Popped(listening) EXCEPT ![s] = v]
  BY <1>1, <1>2, TakingFacts
<1> HIDE DEF u
<1>5. v \in Server /\ v.pc = servers[s].pc /\ v.peer = servers[s].peer /\ v.acks = u.acks
  BY <1>3, CountedType
<1> HIDE DEF v
<1>6. Answers(v)
  BY <1>3, <1>5 DEF Answers
<1>7. /\ servers' \in Seq(Server) /\ DOMAIN servers' = DOMAIN servers
      /\ servers'[s] = v
      /\ \A t \in DOMAIN servers \ {s} :
           servers'[t].pc = servers[t].pc /\ servers'[t].peer = servers[t].peer
      /\ \A t \in DOMAIN servers' : Answers(servers[t])'
  BY <1>1, <1>2, <1>4, <1>5, <1>6, OnePoppedSocket
<1>8. SameService
  BY <1>5, <1>7 DEF SameService
<1>9. ListInv'
  BY <1>1, <1>8, ListenerFacts, ListKept
<1>10. ServerShapes'
  BY <1>1, <1>7, ListenerFacts DEF ServerShapes
<1>11. DatagramShapes'
  BY <1>1 DEF IInv, DatagramShapes
<1> QED
  BY <1>1, <1>9, <1>10, <1>11, ClientSideKept DEF IInv

LEMMA OnlyPopped ==
    ASSUME IInv, NEW m, Taking(m), servers' = Popped(listening),
           UNCHANGED <<run, listening, lpc, cur, clients, groupID, allowed>>
    PROVE  ServerShapes' /\ ListInv'
<1>1. /\ servers' \in Seq(Server) /\ DOMAIN servers' = DOMAIN servers
      /\ \A t \in DOMAIN servers' : Answers(servers[t])'
      /\ SameService
  BY TakingFacts DEF SameService, Answers
<1>2. ListInv'
  BY <1>1, ListenerFacts, ListKept
<1>3. ServerShapes'
  BY <1>1, ListenerFacts DEF ServerShapes
<1> QED
  BY <1>2, <1>3

LEMMA SingleFINIInv ==
    ASSUME IInv, NEW m, SingleFIN(m)
    PROVE  IInv'
<1>1. /\ Taking(m)
      /\ UNCHANGED <<run, clientVars, refused, listening, lpc, cur, groupID, allowed>>
  BY DEF SingleFIN, SingleOnly
<1>2. m \in Arriving /\ m.from \in Stream /\ m.from # "server" /\ lpc = "accept"
  BY <1>1, TakingFacts, PeerAssumption
<1>3. CASE ~Iperf_present(m.from)
  <2>1. /\ servers' = Popped(listening) /\ UNCHANGED clients
        /\ net' = net \cup {Reply(m.from, "nothing", listening)}
    BY <1>3 DEF SingleFIN
  <2>2. ServerShapes' /\ ListInv'
    BY <1>1, <2>1, OnlyPopped
  <2>3. DatagramShapes'
    <3>1. IsFiniteSet(net')
      BY <2>1, OneMoreSent
    <3> QED
      BY <1>2, <2>1, <3>1 DEF IInv, DatagramShapes, Reply
  <2> QED
    BY <1>1, <2>2, <2>3, ClientSideKept DEF IInv
<1>4. CASE Iperf_present(m.from)
  <2> DEFINE s == clients[PlaceOf(m.from)].server
  <2> PICK n \in Negated(m) :
        LET w == CountedAs(servers[s], m, n) IN
        /\ servers' = [Popped(listening) EXCEPT ![s] = [w EXCEPT !.pc = "gone"]]
        /\ net' = net \cup {Totals(m.from, s, w)}
        /\ clients' = Deleted(m.from)
    BY <1>4 DEF SingleFIN
  <2> DEFINE w == CountedAs(servers[s], m, n)
             v == [w EXCEPT !.pc = "gone"]
  <2>1. /\ servers' = [Popped(listening) EXCEPT ![s] = v]
        /\ net' = net \cup {Totals(m.from, s, w)}
        /\ clients' = Deleted(m.from)
    OBVIOUS
  <2>2. s \in Serving /\ s \in DOMAIN servers /\ servers[s].peer = m.from
    BY <1>4, EntryOfPeer
  <2> HIDE DEF s
  <2>3. w \in Server /\ w.peer = m.from /\ w.acks = servers[s].acks
    BY <1>2, <2>2, SocketFacts, CountedAsType
  <2>4. Totals(m.from, s, w).to = m.from
    BY DEF Totals
  <2>5. DatagramShapes'
    BY <1>2, <2>1, <2>4, OneMoreSent DEF IInv, DatagramShapes
  <2> HIDE DEF w
  <2>6. v \in Server /\ v.pc = "gone" /\ v.peer = servers[s].peer /\ v.acks = servers[s].acks
    <3>1. "gone" \in Place
      BY DEF Place
    <3> QED
      BY <2>2, <2>3, <3>1, PlaceChanged
  <2> HIDE DEF v
  <2>7. Answers(v)
    BY <2>2, <2>6, SocketFacts DEF Answers
  <2>8. /\ servers' \in Seq(Server) /\ DOMAIN servers' = DOMAIN servers
        /\ servers'[s] = v
        /\ \A t \in DOMAIN servers \ {s} :
             servers'[t].pc = servers[t].pc /\ servers'[t].peer = servers[t].peer
        /\ \A t \in DOMAIN servers' : Answers(servers[t])'
    BY <1>1, <2>1, <2>2, <2>6, <2>7, OnePoppedSocket
  <2>9. /\ \A t \in DOMAIN servers : servers'[t].peer = servers[t].peer
        /\ \A t \in DOMAIN servers : servers[t].pc = "idle" => servers'[t].pc = "idle"
    BY <2>2, <2>6, <2>8 DEF Serving
  <2>10. clients' \in Seq(Entry) /\ ListInv'
    BY <1>1, <2>1, <2>2, <2>6, <2>8, <2>9, WithoutEntry
  <2>11. ServerShapes'
    BY <1>1, <2>8, <2>10, ListenerFacts DEF ServerShapes
  <2> QED
    BY <1>1, <2>5, <2>10, <2>11, ClientSideKept DEF IInv
<1> QED
  BY <1>3, <1>4

LEMMA SingleNewIInv ==
    ASSUME IInv, NEW m, SingleNew(m)
    PROVE  IInv'
<1> DEFINE n == Len(servers) + 1
           c == m.from
<1>1. /\ Taking(m) /\ ~Iperf_present(c)
      /\ UNCHANGED <<run, clientVars, refused, net, cur>>
  BY DEF SingleNew, kernelVars
<1>2. lpc = "accept" /\ c \in Stream /\ Popped(listening) \in Seq(Server)
      /\ DOMAIN Popped(listening) = DOMAIN servers /\ Len(Popped(listening)) = Len(servers)
  BY <1>1, TakingFacts
<1>3. \A i \in DOMAIN clients : clients[i].peer # c
  BY <1>1, FoundByPeer, ListenerFacts DEF ServerShapes
<1>4. run.tries \in Nat /\ run.tries \in Nat \ {0}
  BY ScenarioFacts DEF IInv, ClientShapes
<1>5. DatagramShapes' /\ ClientShapes'
  BY <1>1, ClientSideKept DEF IInv, DatagramShapes
<1> HIDE DEF c
<1>6. CASE Admitted(c)
  <2> DEFINE v == [Socket EXCEPT !.open = FALSE, !.peer = c, !.pc = "report"]
  <2>1. /\ Iperf_pushback(c, n) /\ servers' = Append(Popped(listening), v)
        /\ UNCHANGED listening /\ allowed' = AllowedNow(c)
    BY <1>6 DEF SingleNew, c
  <2>2. lpc' \in {"accept", "stopped"}
    BY <1>6, Zenon DEF SingleNew, c
  <2>3. v \in Server /\ v.pc = "report" /\ v.peer = c /\ v.acks = 0
    <3>1. "report" \in Place
      BY DEF Place
    <3> QED
      BY <1>2, <3>1, NewSocket DEF Server
  <2> HIDE DEF v
  <2>4. /\ servers' \in Seq(Server) /\ DOMAIN servers' = DOMAIN servers \cup {n}
        /\ servers'[n] = v /\ n \notin DOMAIN servers
        /\ \A t \in DOMAIN servers : servers'[t] = Popped(listening)[t]
    BY <1>2, <2>1, <2>3, Opened
  <2>5. n \in Nat
    BY ListenerFacts
  <2> HIDE DEF n
  <2>6. \A t \in DOMAIN servers :
          /\ servers'[t].pc = servers[t].pc /\ servers'[t].peer = servers[t].peer
          /\ Answers(servers'[t])
    BY <1>1, <2>4, TakingFacts
  <2>7. \A t \in DOMAIN servers' : Answers(servers[t])'
    <3>1. Answers(v)
      BY <1>4, <2>3 DEF Answers
    <3> QED
      BY <1>1, <2>4, <2>6, <3>1 DEF Answers
  <2>8. Serving' = Serving \cup {n} /\ \A t \in Serving : servers'[t].peer = servers[t].peer
    BY <2>3, <2>4, <2>6 DEF Serving
  <2>9. /\ clients' \in Seq(Entry) /\ groupID' \in Nat /\ ClientsAreServed' /\ GroupsMade'
        /\ \A i \in DOMAIN clients' :
             \/ clients'[i].peer = c
             \/ \E j \in DOMAIN clients : clients'[i].peer = clients[j].peer
    BY <1>2, <1>3, <2>1, <2>3, <2>4, <2>5, <2>8, ListenerFacts, EntryAdded
  <2>10. ServerShapes'
    BY <1>1, <2>1, <2>2, <2>4, <2>7, <2>9, ListenerFacts DEF ServerShapes
  <2>11. HandOver'
    BY <1>2, <2>1, <2>2, <2>6, ListenerFacts DEF HandOver
  <2>12. OfAllowedHost'
    BY <1>1, <1>2, <1>6, <2>1, <2>2, <2>9, AdmittedHost DEF OfAllowedHost
  <2> QED
    BY <1>5, <2>9, <2>10, <2>11, <2>12 DEF IInv, ListInv
<1>7. CASE ~Admitted(c)
  <2> DEFINE u == [servers[listening] EXCEPT !.open = FALSE]
             shut == [servers EXCEPT ![listening] = u]
  <2>1. /\ servers' = Append(shut, Socket) /\ listening' = n
        /\ UNCHANGED <<clients, groupID, allowed, lpc>>
    BY <1>7 DEF SingleNew, c
  <2>2. u \in Server /\ u.pc = servers[listening].pc /\ u.peer = servers[listening].peer
        /\ u.acks = servers[listening].acks
    BY ListenerFacts DEF Server
  <2> HIDE DEF u
  <2>3. /\ shut \in Seq(Server) /\ DOMAIN shut = DOMAIN servers /\ Len(shut) = Len(servers)
        /\ shut[listening] = u
        /\ \A t \in DOMAIN servers \ {listening} : shut[t] = servers[t]
    BY <2>2, ListenerFacts, Replaced
  <2> HIDE DEF shut
  <2>4. /\ servers' \in Seq(Server) /\ DOMAIN servers' = DOMAIN servers \cup {n}
        /\ servers'[n] = Socket /\ n \notin DOMAIN servers
        /\ \A t \in DOMAIN servers : servers'[t] = shut[t]
    BY <2>1, <2>3, NewSocket, Opened
  <2> HIDE DEF n
  <2>5. \A t \in DOMAIN servers :
          /\ servers'[t].pc = servers[t].pc /\ servers'[t].peer = servers[t].peer
          /\ servers'[t].acks = servers[t].acks
    BY <2>2, <2>3, <2>4
  <2>6. \A t \in DOMAIN servers' : Answers(servers[t])'
    <3>1. \A t \in DOMAIN servers : Answers(servers[t])
      BY ListenerFacts DEF ServerShapes
    <3> QED
      BY <1>1, <1>4, <2>4, <2>5, <3>1, NewSocket DEF Answers
  <2>7. Serving' = Serving /\ \A t \in Serving : servers'[t].peer = servers[t].peer
    BY <2>4, <2>5, NewSocket DEF Serving
  <2>8. ClientsAreServed'
    BY <2>1, <2>7, ListenerFacts, StillServed
  <2>9. ServerShapes'
    BY <1>1, <2>1, <2>4, <2>6, ListenerFacts DEF ServerShapes
  <2>10. HandOver'
    BY <1>2, <2>1, <2>4, NewSocket DEF HandOver
  <2>11. GroupsMade' /\ OfAllowedHost'
    BY <1>1, <1>2, <2>1 DEF IInv, ListInv, GroupsMade, OfAllowedHost
  <2> QED
    BY <1>5, <2>8, <2>9, <2>10, <2>11 DEF IInv, ListInv
<1> QED
  BY <1>6, <1>7

LEMMA ListenerIInv ==
    ASSUME IInv, ListenerStep
    PROVE  IInv'
BY AcceptIInv, CheckIInv, StartServerIInv, ListenIInv, SingleDataIInv, SingleFINIInv,
   SingleNewIInv DEF ListenerStep, SingleServe

--------------------------------------------------------------------------------
(* The theorems.                                                                 *)

LEMMA NextIInv == IInv /\ [Next]_vars => IInv'
<1> SUFFICES ASSUME IInv, [Next]_vars PROVE IInv'
  OBVIOUS
<1>1. CASE UNCHANGED vars
  <2>1. /\ UNCHANGED <<run, servers, listenerVars>>
        /\ UNCHANGED <<run, clientVars, refused>> /\ UNCHANGED net
    BY <1>1 DEF vars, kernelVars
  <2> QED
    BY <2>1, ServerSideKept, ClientSideKept DEF IInv, DatagramShapes
<1>2. CASE \E m \in net : Lose(m) \/ DeliverToServer(m) \/ DeliverToClient(m)
  BY <1>2, LoseIInv, DeliverToServerIInv, DeliverToClientIInv
<1>3. CASE \E c \in Stream : ClientStep(c)
  BY <1>3, ClientIInv
<1>4. CASE ListenerStep \/ StopListening
  BY <1>4, ListenerIInv, StopListeningIInv
<1>5. CASE \E s \in DOMAIN servers : ServerStep(s)
  BY <1>5, ServerIInv
<1> QED
  BY <1>1, <1>2, <1>3, <1>4, <1>5 DEF Next

LEMMA AlwaysIInv == Spec => []IInv
BY InitIInv, NextIInv, PTL DEF Spec

(* Types, for any number of streams of any hosts and of any length: no thread    *)
(* leaves its places, and no server answers more often than it may               *)
(* (Server::write_UDP_AckFIN).                                                   *)
THEOREM TypeCorrect == Spec => []TypeOK
<1>1. IInv => TypeOK
  BY TypesFollow DEF IInv
<1> QED
  BY <1>1, AlwaysIInv, PTL

(* The list of clients and the running server threads always agree, and the      *)
(* groups are the hosts, however the threads take turns and whatever the network *)
(* does: the listener enters a thread before it runs, and each thread deletes    *)
(* its own entry only (Listener::Run, Server::write_UDP_AckFIN, Iperf_delete).   *)
THEOREM ListAgreesWithThreads == Spec => []ClientsAreServed
<1>1. IInv => ClientsAreServed
  BY DEF IInv, ListInv
<1> QED
  BY <1>1, AlwaysIInv, PTL

(* A server for a single client never serves two hosts at the same time          *)
(* (Listener::Run, UDPSingleServer).                                             *)
THEOREM SingleClientIsSingle == Spec => []OneHostOnly
<1>1. IInv => OneHostOnly
  BY DEF IInv, ListInv, OfAllowedHost, OneHostOnly, SameHost
<1> QED
  BY <1>1, AlwaysIInv, PTL

--------------------------------------------------------------------------------
(* The answers are even.  First, the data of a stream, counted.                  *)

(* A datagram of the data of a stream; how many of them wait in a queue, and how *)
(* many are on their way.                                                        *)
IsData(m, c) == m.from = c /\ m.kind = "data"
DataIn(q, c) == {i \in DOMAIN q : IsData(q[i], c)}
Queued(q, c) == Cardinality(DataIn(q, c))
DataOf(N, c) == {m \in N : m.to = "server" /\ IsData(m, c)}
Sent(N, c) == Cardinality(DataOf(N, c))
One(m, c) == IF IsData(m, c) THEN 1 ELSE 0

LEMMA QueuedIsNat ==
    ASSUME NEW q \in Seq(Arriving), NEW c
    PROVE  /\ IsFiniteSet(DataIn(q, c)) /\ Queued(q, c) \in Nat
           /\ q = <<>> => Queued(q, c) = 0
<1>1. IsFiniteSet(1 .. Len(q))
  BY FS_Interval
<1>2. DataIn(q, c) \subseteq 1 .. Len(q)
  BY DEF DataIn
<1>3. IsFiniteSet(DataIn(q, c))
  BY <1>1, <1>2, FS_Subset
<1>4. q = <<>> => DataIn(q, c) = {}
  BY <1>2
<1> QED
  BY <1>3, <1>4, FS_CardinalityType, FS_EmptySet DEF Queued

LEMMA QueuedAppend ==
    ASSUME NEW q \in Seq(Arriving), NEW m \in Arriving, NEW c
    PROVE  Queued(Append(q, m), c) = Queued(q, c) + One(m, c)
<1> DEFINE n == Len(q) + 1
<1>1. DOMAIN Append(q, m) = DOMAIN q \cup {n} /\ n \notin DOMAIN q
      /\ Append(q, m)[n] = m /\ \A i \in DOMAIN q : Append(q, m)[i] = q[i]
  OBVIOUS
<1>2. DataIn(Append(q, m), c) = IF IsData(m, c) THEN DataIn(q, c) \cup {n} ELSE DataIn(q, c)
  <2> HIDE DEF n
  <2> QED
    BY <1>1 DEF DataIn
<1>3. n \notin DataIn(q, c)
  BY <1>1 DEF DataIn
<1> HIDE DEF n
<1>4. IsFiniteSet(DataIn(q, c)) /\ Cardinality(DataIn(q, c)) \in Nat
  BY QueuedIsNat DEF Queued
<1>5. Cardinality(DataIn(q, c) \cup {n}) = Cardinality(DataIn(q, c)) + 1
  BY <1>3, <1>4, FS_AddElement
<1> QED
  BY <1>2, <1>4, <1>5 DEF Queued, One

LEMMA QueuedTail ==
    ASSUME NEW q \in Seq(Arriving), q # <<>>, NEW c
    PROVE  Queued(Tail(q), c) + One(Head(q), c) <= Queued(q, c)
<1> DEFINE t == Tail(q)
           E == DataIn(t, c)
           D == DataIn(q, c)
           f == [i \in E |-> i + 1]
<1>1. t \in Seq(Arriving) /\ Head(q) = q[1] /\ 1 \in DOMAIN q
  OBVIOUS
<1>2. DOMAIN t \subseteq Nat \ {0}
      /\ \A i \in DOMAIN t : i + 1 \in DOMAIN q /\ t[i] = q[i + 1]
  OBVIOUS
<1>3. 1 \in D <=> IsData(Head(q), c)
  BY <1>1 DEF DataIn
<1> HIDE DEF t
<1>4. E \subseteq Nat \ {0} /\ \A i \in E : i + 1 \in D \ {1}
  BY <1>2 DEF DataIn
<1>5. IsFiniteSet(D) /\ Cardinality(D) \in Nat /\ Cardinality(E) \in Nat
  BY <1>1, QueuedIsNat DEF Queued
<1> HIDE DEF D, E
<1>6. f \in Injection(E, D \ {1})
  <2>1. f \in [E -> D \ {1}]
    BY <1>4
  <2>2. \A a, b \in E : f[a] = f[b] => a = b
    BY <1>4
  <2> QED
    BY <2>1, <2>2 DEF Injection, IsInjective
<1> HIDE DEF f
<1>7. IsFiniteSet(D \ {1}) /\ Cardinality(D \ {1})
                                = IF 1 \in D THEN Cardinality(D) - 1 ELSE Cardinality(D)
  BY <1>5, FS_RemoveElement
<1>8. Cardinality(E) <= Cardinality(D \ {1})
  BY <1>6, <1>7, FS_Injection
<1> DEFINE a == Cardinality(E)
           b == Cardinality(D)
           d == Cardinality(D \ {1})
<1>9. a <= d /\ (IF 1 \in D THEN d = b - 1 ELSE d = b) /\ a \in Nat /\ b \in Nat
  BY <1>5, <1>7, <1>8
<1> HIDE DEF a, b, d
<1>10. a + One(Head(q), c) <= b
  BY <1>3, <1>9 DEF One
<1> QED
  BY <1>10 DEF a, b, D, E, t, Queued

LEMMA SentIsNat ==
    ASSUME NEW N, IsFiniteSet(N), NEW c
    PROVE  IsFiniteSet(DataOf(N, c)) /\ Sent(N, c) \in Nat
<1>1. IsFiniteSet(DataOf(N, c))
  BY FS_Subset DEF DataOf
<1> QED
  BY <1>1, FS_CardinalityType DEF Sent

LEMMA SentLess ==
    ASSUME NEW N, IsFiniteSet(N), NEW M, M \subseteq N, NEW c
    PROVE  Sent(M, c) <= Sent(N, c)
<1>1. DataOf(M, c) \subseteq DataOf(N, c)
  BY DEF DataOf
<1> QED
  BY <1>1, SentIsNat, FS_Subset DEF Sent

LEMMA SentMore ==
    ASSUME NEW N, IsFiniteSet(N), NEW m, NEW c
    PROVE  /\ m.to # "server" \/ m.kind # "data" \/ m.from # c =>
                Sent(N \cup {m}, c) = Sent(N, c)
           /\ Sent(N \cup {m}, c) <= Sent(N, c) + 1
<1>1. CASE m.to = "server" /\ IsData(m, c)
  <2>1. DataOf(N \cup {m}, c) = DataOf(N, c) \cup {m}
    BY <1>1 DEF DataOf
  <2>2. IsFiniteSet(DataOf(N, c)) /\ Sent(N, c) \in Nat
    BY SentIsNat
  <2> DEFINE D == DataOf(N, c)
  <2> HIDE DEF D
  <2>3. Cardinality(D \cup {m}) <= Cardinality(D) + 1
    <3>1. IsFiniteSet(D) /\ Cardinality(D) \in Nat
      BY <2>2 DEF D, Sent
    <3>2. Cardinality(D \cup {m}) = IF m \in D THEN Cardinality(D) ELSE Cardinality(D) + 1
      BY <3>1, FS_AddElement
    <3> QED
      BY <3>1, <3>2
  <2> QED
    BY <1>1, <2>1, <2>3 DEF Sent, IsData, D
<1>2. CASE ~(m.to = "server" /\ IsData(m, c))
  <2>1. DataOf(N \cup {m}, c) = DataOf(N, c)
    BY <1>2 DEF DataOf
  <2> QED
    BY <1>2, <2>1, SentIsNat DEF Sent, IsData
<1> QED
  BY <1>1, <1>2

--------------------------------------------------------------------------------
(* What is even.                                                                 *)

(* Tests without headers, 64 bit counters and a time of the server, of which     *)
(* nothing has been copied yet.                                                  *)
Plain == ~run.extended /\ ~run.wide /\ ~run.timed /\ copies = run.copies
Over == {"fin", "wait", "done"}

(* What the totals of record v of a stream that has numbered p datagrams and     *)
(* sent t FINs say, with w of its data still to come: nothing if one of them had *)
(* a number below zero, which is a matter of p and t alone once it is over.      *)
(* one: there is a single server, which takes the number of a FIN from 2^31.     *)
Wrapped(p, t, over) == over /\ p + 1 < t
EvenRec(v, w, p, t, over, f, one) ==
    \/ Wrapped(p, t, over)
    \/ /\ v.count + 1 + w <= p + (IF v.fin THEN 1 ELSE 0)
       /\ v.fin => over
       /\ ~one => v.last <= Largest(p, f) /\ (v.fin => p < v.last + t)
FineRec(m, p, t, over, f, one) ==
    \/ Wrapped(p, t, over)
    \/ over /\ m.count <= p /\ (~one => p < m.last + t /\ m.last <= Largest(p, f))

(* Where the datagrams that thread s counts wait; those of stream c it may still *)
(* get, and those that are on their way to its own socket or wait there.         *)
Source(s) == IF run.single THEN servers[listening].queue ELSE servers[s].queue
Load(s, c) == Sent(net, c) + Queued(Source(s), c)
OwnLoad(s, c) == Sent(net, c) + Queued(servers[s].queue, c)

(* A datagram some client has written: data with the flow id for a number, or a  *)
(* FIN, whose number is that of the next datagram less the FINs before it.       *)
Genuine(m) ==
    \/ m.kind = "data" /\ m.id = run.flow
    \/ /\ m.kind = "fin" /\ cpc[m.from] \in Over
       /\ m.id <= packetID[m.from] /\ packetID[m.from] < m.id + tries[m.from]
    \/ /\ m.kind = "late"
       /\ Wrapped(packetID[m.from], tries[m.from], cpc[m.from] \in Over)

(* What the server sends, and how a client may end.                              *)
Answer == [to : Stream, from : Nat, kind : {"nothing"}, id : {0}]
          \cup [to : Stream, from : Nat, kind : {"totals"}, id : Nat,
                count : Int, last : Int, alien : BOOLEAN]
Outcome == Answer \cup {[kind |-> "none"], [kind |-> "warning"]}

(* What stream c is told by m is even.                                           *)
Fine(c, m) ==
    m.kind = "totals" /\ ~m.alien =>
      /\ FineRec(m, packetID[c], tries[c], cpc[c] \in Over, run.flow, run.single)
      /\ m.from \in DOMAIN servers /\ servers[m.from].pc # "idle" /\ servers[m.from].peer = c

(* A socket without a thread has counted nothing, a thread that still reads has  *)
(* seen no FIN, and one that answers has.                                        *)
Stage(v) ==
    /\ v.pc = "idle" => v.count = 0 /\ v.last = 0 /\ ~v.fin
    /\ v.pc \in {"recv", "report"} => ~v.fin
    /\ v.pc \in {"answer", "linger", "delete", "close", "gone"} => v.fin
    /\ IF run.single THEN v.pc \in {"idle", "report", "gone"} ELSE v.pc # "report"
(* A stream has numbered every datagram that waits.  What a thread has counted,  *)
(* the datagram the listener took and those still to come are no more than that. *)
Spare(s) == \A c \in Stream : OwnLoad(s, c) <= packetID[c]
EvenSocket(s) ==
    LET c == servers[s].peer IN
    c # NobodyPeer /\ ~servers[s].alien =>
      EvenRec(servers[s], Load(s, c), packetID[c], tries[c], cpc[c] \in Over, run.flow,
              run.single)
GenuineQueue(s) == \A i \in DOMAIN servers[s].queue : Genuine(servers[s].queue[i])
EvenThread(s) == Stage(servers[s]) /\ Spare(s) /\ EvenSocket(s) /\ GenuineQueue(s)

(* What is on its way, what the threads have counted and what the clients were   *)
(* told is even; PlainEven is the invariant, kept as long as nothing is copied.  *)
MessageEven(m) ==
    IF m.to = "server" THEN Genuine(m) ELSE m \in Answer /\ Fine(m.to, m)

OneAccepts == run.single => lpc \in {"accept", "stopped"}
NetEven == \A m \in net : MessageEven(m)
ThreadsEven == \A s \in DOMAIN servers : EvenThread(s)
ToldEven ==
    /\ inbox \in [Stream -> Seq(Answer)] /\ outcome \in [Stream -> Outcome]
    /\ \A c \in Stream : /\ \A i \in DOMAIN inbox[c] : Fine(c, inbox[c][i])
                         /\ Fine(c, outcome[c])
EvenInv == OneAccepts /\ NetEven /\ ThreadsEven /\ ToldEven
PlainEven == copies \in Nat /\ copies <= run.copies /\ (Plain => EvenInv)

--------------------------------------------------------------------------------
(* Counting.                                                                     *)
LEMMA StillEven ==
    ASSUME NEW v \in Server, NEW u \in Server,
           u.count = v.count, u.last = v.last, u.fin = v.fin,
           NEW w \in Int, NEW x \in Int, NEW p \in Nat, NEW q \in Nat,
           NEW t \in Nat, NEW r \in Nat, NEW f \in Nat, NEW over, NEW ended, NEW one,
           EvenRec(v, w, p, t, over, f, one),
           p <= q, t <= r, over => ended /\ q = p, x + p <= w + q
    PROVE  EvenRec(u, x, q, r, ended, f, one)
<1>1. v.count \in Int /\ v.last \in Int
  BY DEF Server
<1>2. CASE Wrapped(p, t, over)
  BY <1>2 DEF Wrapped, EvenRec
<1>3. CASE ~Wrapped(p, t, over)
  <2>1. u.count + 1 + x <= q + (IF u.fin THEN 1 ELSE 0)
    BY <1>1, <1>3 DEF EvenRec
  <2>2. ~one => u.last <= Largest(q, f)
    BY <1>1, <1>3 DEF EvenRec, Largest
  <2>3. (u.fin => ended) /\ (~one /\ u.fin => q < u.last + r)
    BY <1>1, <1>3 DEF EvenRec
  <2> QED
    BY <2>1, <2>2, <2>3 DEF EvenRec
<1> QED
  BY <1>2, <1>3

LEMMA CountedFields ==
    ASSUME NEW v \in Server, NEW m \in Arriving
    PROVE  /\ Counted(v, m).count = v.count + 1 /\ Counted(v, m).last = Largest(v.last, m.id)
           /\ Counted(v, m).fin = (v.fin \/ m.kind = "fin")
           /\ Counted(v, m).alien = (v.alien \/ m.from # v.peer)
BY DEF Counted, Server

(* Record u is v after datagram m has been counted; a single server may take     *)
(* another number for that of a FIN, or not count it.                            *)
Counts(v, m, u) ==
    /\ u.count = v.count + 1 \/ (m.kind = "fin" /\ u.count = v.count)
    /\ ~run.single => u.last = Largest(v.last, m.id)
    /\ u.fin = (v.fin \/ m.kind = "fin")
    /\ u.alien = (v.alien \/ m.from # v.peer)

LEMMA CountedAsCounts ==
    ASSUME NEW v \in Server, NEW m \in Arriving, NEW n \in Negated(m), run.single,
           m.kind = "fin", m.from = v.peer
    PROVE  Counts(v, m, CountedAs(v, m, n))
<1>1. n \in Int
  BY HalfAssumption DEF Negated, Arriving
<1>2. CASE n < 0
  BY <1>2 DEF CountedAs, Counts, Server
<1>3. CASE ~(n < 0)
  <2> PICK k \in Arriving : k = [m EXCEPT !.id = n]
    BY <1>1 DEF Arriving
  <2>1. k.kind = m.kind /\ k.from = m.from
    BY DEF Arriving
  <2>2. /\ Counted(v, k).count = v.count + 1
        /\ Counted(v, k).fin = (v.fin \/ k.kind = "fin")
        /\ Counted(v, k).alien = (v.alien \/ k.from # v.peer)
    BY CountedFields
  <2>3. CountedAs(v, m, n) = Counted(v, k)
    BY <1>3 DEF CountedAs
  <2> QED
    BY <2>1, <2>2, <2>3 DEF Counts
<1> QED
  BY <1>2, <1>3

LEMMA CountedEven ==
    ASSUME NEW v \in Server, NEW u \in Server, NEW m \in Arriving, ~v.fin, Counts(v, m, u),
           NEW w \in Int, NEW x \in Int, NEW p \in Nat, NEW t \in Nat, NEW f \in Nat, NEW over,
           EvenRec(v, w, p, t, over, f, run.single), x + One(m, m.from) <= w,
           \/ m.kind = "data" /\ m.id = f
           \/ m.kind = "fin" /\ over /\ m.id <= p /\ p < m.id + t
           \/ Wrapped(p, t, over)
    PROVE  EvenRec(u, x, p, t, over, f, run.single)
<1>1. v.count \in Int /\ v.last \in Int /\ m.id \in Int /\ u.count \in Int /\ u.last \in Int
  BY DEF Server, Arriving
<1>2. /\ u.count = v.count + 1 \/ (m.kind = "fin" /\ u.count = v.count)
      /\ ~run.single => u.last = Largest(v.last, m.id)
      /\ u.fin <=> m.kind = "fin"
  BY DEF Counts
<1>3. CASE Wrapped(p, t, over)
  BY <1>3 DEF EvenRec
<1>4. CASE ~Wrapped(p, t, over)
  <2>1. ~run.single => u.last <= Largest(p, f)
    BY <1>1, <1>2, <1>4 DEF EvenRec, Largest
  <2>2. (u.fin => over) /\ (~run.single /\ u.fin => p < u.last + t)
    BY <1>1, <1>2, <1>4 DEF Largest
  <2>3. u.count + 1 + x <= p + (IF u.fin THEN 1 ELSE 0)
    <3>1. CASE m.kind = "data"
      <4>1. x + 1 <= w /\ ~u.fin
        BY <1>2, <3>1 DEF One, IsData
      <4> QED
        BY <1>1, <1>2, <1>4, <3>1, <4>1 DEF EvenRec
    <3>2. CASE m.kind = "fin"
      <4>1. x <= w /\ u.fin
        BY <1>2, <3>2 DEF One, IsData
      <4> QED
        BY <1>1, <1>2, <1>4, <4>1 DEF EvenRec
    <3> QED
      BY <1>4, <3>1, <3>2
  <2> QED
    BY <2>1, <2>2, <2>3 DEF EvenRec
<1> QED
  BY <1>3, <1>4

LEMMA TotalsFine ==
    ASSUME NEW v \in Server, v.fin, NEW c, NEW s,
           NEW w \in Nat, NEW p \in Nat, NEW t \in Nat, NEW f \in Nat, NEW over, NEW one,
           EvenRec(v, w, p, t, over, f, one)
    PROVE  FineRec(Totals(c, s, v), p, t, over, f, one)
<1>1. v.count \in Int /\ v.last \in Int
  BY DEF Server
<1>2. Totals(c, s, v).count = v.count /\ Totals(c, s, v).last = v.last
  BY DEF Totals
<1> QED
  BY <1>1, <1>2 DEF EvenRec, FineRec

LEMMA StillFine ==
    ASSUME NEW m, m.last \in Int, NEW p \in Nat, NEW t \in Nat, NEW r \in Nat, NEW f \in Nat,
           NEW over, NEW ended, NEW one, FineRec(m, p, t, over, f, one), t <= r, over => ended
    PROVE  FineRec(m, p, r, ended, f, one)
BY DEF FineRec, Wrapped

--------------------------------------------------------------------------------
(* What steps do not undo.                                                       *)
ClientsGrow ==
    /\ UNCHANGED <<run, copies>>
    /\ \A c \in Stream :
         /\ packetID[c] <= packetID'[c] /\ tries[c] <= tries'[c]
         /\ cpc[c] \in Over => cpc'[c] \in Over /\ packetID'[c] = packetID[c]
ThreadsStay ==
    \A s \in DOMAIN servers :
        /\ s \in DOMAIN servers'
        /\ servers[s].pc # "idle" =>
             servers'[s].pc # "idle" /\ servers'[s].peer = servers[s].peer

LEMMA Counters ==
    ASSUME IInv, NEW c \in Stream
    PROVE  packetID[c] \in Nat /\ tries[c] \in Nat /\ run.flow \in Nat
BY ScenarioFacts DEF IInv, ClientShapes

LEMMA GenuineKept ==
    ASSUME IInv, IInv', ClientsGrow, NEW m \in Arriving, Genuine(m)
    PROVE  Genuine(m)'
<1>1. m.from \in Stream /\ m.id \in Int
  BY DEF Arriving
<1> DEFINE c == m.from
<1>2. packetID[c] \in Nat /\ tries[c] \in Nat /\ tries'[c] \in Nat
  BY <1>1, Counters DEF IInv, ClientShapes
<1>3. CASE m.kind = "data" /\ m.id = run.flow
  BY <1>3 DEF Genuine, ClientsGrow
<1>4. CASE m.kind = "fin" /\ cpc[c] \in Over /\ m.id <= packetID[c] /\ packetID[c] < m.id + tries[c]
  <2>1. cpc'[c] \in Over /\ packetID'[c] = packetID[c] /\ tries[c] <= tries'[c]
    BY <1>1, <1>4 DEF ClientsGrow
  <2>2. m.id <= packetID'[c] /\ packetID'[c] < m.id + tries'[c]
    BY <1>1, <1>2, <1>4, <2>1
  <2> QED
    BY <1>4, <2>1, <2>2 DEF Genuine
<1>5. CASE m.kind = "late" /\ Wrapped(packetID[c], tries[c], cpc[c] \in Over)
  <2>1. cpc'[c] \in Over /\ packetID'[c] = packetID[c] /\ tries[c] <= tries'[c]
    BY <1>1, <1>5 DEF ClientsGrow, Wrapped
  <2>2. Wrapped(packetID'[c], tries'[c], cpc'[c] \in Over)
    BY <1>2, <1>5, <2>1 DEF Wrapped
  <2> QED
    BY <1>5, <2>2 DEF Genuine
<1> QED
  BY <1>3, <1>4, <1>5 DEF Genuine

LEMMA FineKept ==
    ASSUME IInv, IInv', ClientsGrow, ThreadsStay, NEW c \in Stream, NEW m \in Outcome,
           Fine(c, m)
    PROVE  Fine(c, m)'
<1> SUFFICES ASSUME m.kind = "totals", ~m.alien PROVE Fine(c, m)'
  BY DEF Fine
<1>1. /\ FineRec(m, packetID[c], tries[c], cpc[c] \in Over, run.flow, run.single)
      /\ m.from \in DOMAIN servers /\ servers[m.from].pc # "idle"
      /\ servers[m.from].peer = c
  BY DEF Fine
<1>2. m.last \in Int
  BY DEF Outcome, Answer
<1>3. packetID[c] \in Nat /\ tries[c] \in Nat /\ tries'[c] \in Nat /\ run.flow \in Nat
  BY Counters DEF IInv, ClientShapes
<1>4. cpc[c] \in Over
  BY <1>1 DEF FineRec, Wrapped
<1>5. packetID'[c] = packetID[c] /\ tries[c] <= tries'[c] /\ cpc'[c] \in Over /\ run' = run
  BY <1>4 DEF ClientsGrow
<1>6. FineRec(m, packetID[c], tries'[c], cpc'[c] \in Over, run.flow, run.single)
  BY <1>1, <1>2, <1>3, <1>5, StillFine
<1>7. m.from \in DOMAIN servers' /\ servers'[m.from].pc # "idle" /\ servers'[m.from].peer = c
  BY <1>1 DEF ThreadsStay
<1> QED
  BY <1>5, <1>6, <1>7 DEF Fine

LEMMA MessageKept ==
    ASSUME IInv, IInv', ClientsGrow, ThreadsStay, NEW m \in net, MessageEven(m)
    PROVE  MessageEven(m)'
<1>1. CASE m.to = "server"
  BY <1>1, GenuineKept DEF MessageEven, IInv, DatagramShapes
<1>2. CASE m.to # "server"
  <2>1. m \in Answer /\ Fine(m.to, m)
    BY <1>2 DEF MessageEven
  <2>2. m.to \in Stream /\ m \in Outcome
    BY <2>1 DEF Answer, Outcome
  <2> QED
    BY <1>2, <2>1, <2>2, FineKept DEF MessageEven
<1> QED
  BY <1>1, <1>2

LEMMA NetKept ==
    ASSUME IInv, IInv', ClientsGrow, ThreadsStay, NetEven,
           \A m \in net' : m \in net \/ MessageEven(m)'
    PROVE  NetEven'
BY MessageKept DEF NetEven

LEMMA ToldKept ==
    ASSUME IInv, IInv', ClientsGrow, ThreadsStay, ToldEven, UNCHANGED <<inbox, outcome>>
    PROVE  ToldEven'
<1>1. \A c \in Stream : /\ \A i \in DOMAIN inbox[c] : inbox[c][i] \in Outcome
                        /\ outcome[c] \in Outcome
  <2>1. ASSUME NEW c \in Stream, NEW i \in DOMAIN inbox[c] PROVE inbox[c][i] \in Answer
    <3>1. inbox[c] \in Seq(Answer)
      BY DEF ToldEven
    <3> QED
      BY <3>1
  <2> QED
    BY <2>1 DEF ToldEven, Outcome
<1>2. \A c \in Stream : /\ \A i \in DOMAIN inbox[c] : Fine(c, inbox[c][i])'
                        /\ Fine(c, outcome[c])'
  BY <1>1, FineKept DEF ToldEven
<1> QED
  BY <1>2 DEF ToldEven

--------------------------------------------------------------------------------
(* The datagrams still to be counted, over a step.                               *)

(* The datagrams that may still be counted grow by those that are written.       *)
OwnLoads ==
    \A s \in DOMAIN servers, c \in Stream :
        OwnLoad(s, c)' + packetID[c] <= OwnLoad(s, c) + packetID'[c]
SameSource == run.single => listening' = listening \/ servers'[listening'].queue = <<>>

LEMMA QueueFacts ==
    ASSUME ServerShapes, DatagramShapes, NEW s \in DOMAIN servers, NEW c
    PROVE  /\ servers[s] \in Server /\ servers[s].queue \in Seq(Arriving)
           /\ Queued(servers[s].queue, c) \in Nat /\ Sent(net, c) \in Nat
           /\ OwnLoad(s, c) \in Nat
<1>1. servers[s] \in Server
  BY DEF ServerShapes
<1>2. servers[s].queue \in Seq(Arriving)
  BY <1>1 DEF Server
<1>3. Queued(servers[s].queue, c) \in Nat /\ Sent(net, c) \in Nat
  BY <1>2, QueuedIsNat, SentIsNat DEF DatagramShapes
<1> DEFINE a == Queued(servers[s].queue, c)
           b == Sent(net, c)
<1> HIDE DEF a, b
<1>4. a \in Nat /\ b \in Nat
  BY <1>3 DEF a, b
<1>5. a + b \in Nat /\ b + a \in Nat
  BY <1>4
<1> QED
  BY <1>1, <1>2, <1>3, <1>5 DEF OwnLoad, a, b

LEMMA QueueFactsNext ==
    ASSUME ServerShapes', DatagramShapes', NEW s \in DOMAIN servers', NEW c
    PROVE  /\ servers'[s] \in Server /\ servers'[s].queue \in Seq(Arriving)
           /\ Queued(servers'[s].queue, c) \in Nat /\ Sent(net', c) \in Nat
           /\ OwnLoad(s, c)' \in Nat
<1>1. servers'[s] \in Server
  BY DEF ServerShapes
<1>2. servers'[s].queue \in Seq(Arriving)
  BY <1>1 DEF Server
<1>3. Queued(servers'[s].queue, c) \in Nat /\ Sent(net', c) \in Nat
  BY <1>2, QueuedIsNat, SentIsNat DEF DatagramShapes
<1> DEFINE a == Queued(servers'[s].queue, c)
           b == Sent(net', c)
<1> HIDE DEF a, b
<1>4. a \in Nat /\ b \in Nat
  BY <1>3 DEF a, b
<1>5. a + b \in Nat /\ b + a \in Nat
  BY <1>4
<1> QED
  BY <1>1, <1>2, <1>3, <1>5 DEF OwnLoad, a, b

LEMMA LoadKept ==
    ASSUME IInv, IInv', UNCHANGED run, ThreadsStay, OwnLoads, SameSource,
           NEW s \in DOMAIN servers, NEW c \in Stream
    PROVE  /\ Load(s, c)' + packetID[c] <= Load(s, c) + packetID'[c]
           /\ Load(s, c) \in Nat /\ Load(s, c)' \in Nat
<1>1. listening \in DOMAIN servers /\ listening' \in DOMAIN servers'
  BY DEF IInv, ServerShapes
<1>2. s \in DOMAIN servers' /\ listening \in DOMAIN servers'
  BY <1>1 DEF ThreadsStay
<1>3. ServerShapes /\ ServerShapes' /\ DatagramShapes /\ DatagramShapes'
  BY DEF IInv
<1>4. /\ OwnLoad(s, c) \in Nat /\ OwnLoad(s, c)' \in Nat
      /\ OwnLoad(listening, c) \in Nat
  BY <1>1, <1>2, <1>3, QueueFacts, QueueFactsNext
<1>5. CASE ~run.single
  <2>1. Load(s, c) = OwnLoad(s, c) /\ Load(s, c)' = OwnLoad(s, c)'
    BY <1>5 DEF Load, OwnLoad, Source
  <2> QED
    BY <1>4, <2>1 DEF OwnLoads
<1>6. CASE run.single
  <2>1. Load(s, c) = OwnLoad(listening, c)
    BY <1>6 DEF Load, OwnLoad, Source
  <2> DEFINE n == Sent(net', c) + Queued(servers'[listening].queue, c)
  <2>2. n + packetID[c] <= OwnLoad(listening, c) + packetID'[c]
    BY <1>1 DEF OwnLoads, OwnLoad
  <2>3. Load(s, c)' = Sent(net', c) + Queued(servers'[listening'].queue, c)
    BY <1>6 DEF Load, Source
  <2>4. CASE listening' = listening
    <3>1. Load(s, c)' = n
      BY <2>3, <2>4
    <3>2. Sent(net', c) \in Nat /\ Queued(servers'[listening].queue, c) \in Nat
      BY <1>2, <1>3, QueueFactsNext
    <3>3. n \in Nat
      BY <3>2
    <3> HIDE DEF n
    <3> QED
      BY <1>4, <2>1, <2>2, <3>1, <3>3
  <2>5. CASE servers'[listening'].queue = <<>>
    <3>1. Queued(servers'[listening'].queue, c) = 0
      <4>1. servers'[listening'].queue \in Seq(Arriving)
        BY <1>1, <1>3, QueueFactsNext
      <4> QED
        BY <2>5, <4>1, QueuedIsNat
    <3>2. Sent(net', c) \in Nat /\ Queued(servers'[listening].queue, c) \in Nat
      BY <1>2, <1>3, QueueFactsNext
    <3>3. Load(s, c)' = Sent(net', c)
      BY <2>3, <3>1, <3>2
    <3>4. Sent(net', c) <= n /\ n \in Nat /\ Sent(net', c) \in Nat
      BY <3>2
    <3> HIDE DEF n
    <3>5. packetID[c] \in Nat /\ packetID'[c] \in Nat
      BY DEF IInv, ClientShapes
    <3> QED
      BY <1>4, <2>1, <2>2, <3>3, <3>4, <3>5
  <2> QED
    BY <1>6, <2>4, <2>5 DEF SameSource
<1> QED
  BY <1>5, <1>6

LEMMA SpareKept ==
    ASSUME IInv, IInv', OwnLoads, NEW s \in DOMAIN servers, s \in DOMAIN servers', Spare(s)
    PROVE  Spare(s)'
<1> SUFFICES ASSUME NEW c \in Stream PROVE OwnLoad(s, c)' <= packetID'[c]
  BY DEF Spare
<1>1. OwnLoad(s, c)' + packetID[c] <= OwnLoad(s, c) + packetID'[c]
  BY DEF OwnLoads
<1>2. OwnLoad(s, c) <= packetID[c]
  BY DEF Spare
<1>3. OwnLoad(s, c) \in Nat /\ OwnLoad(s, c)' \in Nat /\ packetID[c] \in Nat
      /\ packetID'[c] \in Nat
  BY QueueFacts, QueueFactsNext DEF IInv, ClientShapes
<1> QED
  BY <1>1, <1>2, <1>3

(* A thread that counts nothing.                                                 *)
LEMMA ThreadKept ==
    ASSUME IInv, IInv', ClientsGrow, ThreadsStay, OwnLoads, SameSource,
           NEW s \in DOMAIN servers, EvenThread(s),
           Stage(servers[s])',
           servers'[s].peer = servers[s].peer, servers'[s].count = servers[s].count,
           servers'[s].last = servers[s].last, servers'[s].fin = servers[s].fin,
           servers'[s].alien = servers[s].alien,
           GenuineQueue(s)'
    PROVE  EvenThread(s)'
<1>1. ServerShapes /\ ServerShapes' /\ s \in DOMAIN servers' /\ run' = run
  BY DEF IInv, ThreadsStay, ClientsGrow
<1>2. servers[s] \in Server /\ servers'[s] \in Server
  BY <1>1 DEF ServerShapes
<1>3. Spare(s)'
  BY <1>1, SpareKept DEF EvenThread
<1>4. EvenSocket(s)'
  <2> DEFINE c == servers[s].peer
  <2> SUFFICES ASSUME c # NobodyPeer, ~servers[s].alien
               PROVE  EvenRec(servers'[s], Load(s, c)', packetID'[c], tries'[c],
                              cpc'[c] \in Over, run.flow, run.single)
    BY <1>1 DEF EvenSocket
  <2>1. c \in Stream
    BY <1>2 DEF Server
  <2>2. EvenRec(servers[s], Load(s, c), packetID[c], tries[c],
                cpc[c] \in Over, run.flow, run.single)
    BY DEF EvenThread, EvenSocket
  <2>3. /\ Load(s, c)' + packetID[c] <= Load(s, c) + packetID'[c]
        /\ Load(s, c) \in Int /\ Load(s, c)' \in Int
    BY <1>1, <2>1, LoadKept
  <2>4. packetID[c] \in Nat /\ packetID'[c] \in Nat /\ tries[c] \in Nat /\ tries'[c] \in Nat
        /\ run.flow \in Nat
    BY <2>1, Counters DEF IInv, ClientShapes
  <2>5. packetID[c] <= packetID'[c] /\ tries[c] <= tries'[c]
        /\ (cpc[c] \in Over => cpc'[c] \in Over /\ packetID'[c] = packetID[c])
    BY <2>1 DEF ClientsGrow
  <2> HIDE DEF c
  <2> QED
    BY <1>2, <2>2, <2>3, <2>4, <2>5, StillEven
<1> QED
  BY <1>3, <1>4 DEF EvenThread

(* A thread that counts m.                                                       *)
LEMMA ThreadCounts ==
    ASSUME IInv, IInv', ThreadsStay, UNCHANGED <<run, packetID, tries, cpc>>,
           NEW s \in DOMAIN servers, EvenThread(s), NEW m \in Arriving, Genuine(m),
           ~servers[s].fin, Spare(s)', Stage(servers[s])',
           servers[s].peer \in Stream,
           Load(s, servers[s].peer) \in Int, Load(s, servers[s].peer)' \in Int,
           Load(s, servers[s].peer)' + One(m, servers[s].peer) <= Load(s, servers[s].peer),
           servers'[s].peer = servers[s].peer,
           NEW v \in Server, v.count = servers[s].count, v.last = servers[s].last,
           v.fin = servers[s].fin, v.alien = servers[s].alien, v.peer = servers[s].peer,
           Counts(v, m, servers'[s]), GenuineQueue(s)'
    PROVE  EvenThread(s)'
<1> DEFINE c == servers[s].peer
           u == servers'[s]
<1>1. s \in DOMAIN servers'
  BY DEF ThreadsStay
<1>2. servers[s] \in Server /\ u \in Server
  BY <1>1 DEF IInv, ServerShapes
<1>3. EvenSocket(s)'
  <2> SUFFICES ASSUME ~servers'[s].alien
               PROVE  EvenRec(servers'[s], Load(s, c)', packetID[c], tries[c],
                              cpc[c] \in Over, run.flow, run.single)
    BY DEF EvenSocket
  <2>1. ~v.alien /\ m.from = c
    BY DEF Counts
  <2>2. EvenRec(servers[s], Load(s, c), packetID[c], tries[c],
                cpc[c] \in Over, run.flow, run.single)
    <3>1. c # NobodyPeer
      BY PeerAssumption
    <3> QED
      BY <2>1, <3>1 DEF EvenThread, EvenSocket
  <2>3. packetID[c] \in Nat /\ tries[c] \in Nat /\ run.flow \in Nat
    BY Counters
  <2>4. \/ m.kind = "data" /\ m.id = run.flow
        \/ m.kind = "fin" /\ cpc[c] \in Over /\ m.id <= packetID[c]
           /\ packetID[c] < m.id + tries[c]
        \/ Wrapped(packetID[c], tries[c], cpc[c] \in Over)
    BY <2>1 DEF Genuine
  <2> DEFINE w == Load(s, c)
             x == Load(s, c)'
             p == packetID[c]
             t == tries[c]
             over == cpc[c] \in Over
  <2>5. w \in Int /\ x \in Int /\ x + One(m, m.from) <= w
    BY <2>1
  <2> HIDE DEF w, x, p, t, over, c
  <2>6. EvenRec(v, w, p, t, over, run.flow, run.single)
    <3>1. EvenRec(servers[s], w, p, t, over, run.flow, run.single)
      BY <2>2 DEF w, p, t, over
    <3> QED
      BY <3>1 DEF EvenRec
  <2>7. p \in Nat /\ t \in Nat /\ run.flow \in Nat
    BY <2>3 DEF p, t
  <2>8. \/ m.kind = "data" /\ m.id = run.flow
        \/ m.kind = "fin" /\ over /\ m.id <= p /\ p < m.id + t
        \/ Wrapped(p, t, over)
    BY <2>4 DEF over, p, t
  <2>9. EvenRec(u, x, p, t, over, run.flow, run.single)
    <3> PICK z : z = u
      OBVIOUS
    <3>1. z \in Server /\ Counts(v, m, z) /\ ~v.fin
      BY <1>2
    <3>2. EvenRec(z, x, p, t, over, run.flow, run.single)
      BY <2>5, <2>6, <2>7, <2>8, <3>1, CountedEven
    <3> QED
      BY <3>2
  <2> QED
    BY <2>9 DEF x, p, t, over
<1> QED
  BY <1>3 DEF EvenThread

LEMMA ToldChanged ==
    ASSUME IInv, IInv', ClientsGrow, ThreadsStay, ToldEven, NEW c \in Stream,
           NEW q \in Seq(Answer), \A i \in DOMAIN q : Fine(c, q[i]),
           NEW h \in Outcome, Fine(c, h),
           inbox' = [inbox EXCEPT ![c] = q], outcome' = [outcome EXCEPT ![c] = h]
    PROVE  ToldEven'
<1>1. /\ inbox \in [Stream -> Seq(Answer)] /\ outcome \in [Stream -> Outcome]
      /\ \A d \in Stream : /\ \A i \in DOMAIN inbox[d] : Fine(d, inbox[d][i])
                           /\ Fine(d, outcome[d])
  BY DEF ToldEven
<1>2. inbox' \in [Stream -> Seq(Answer)] /\ outcome' \in [Stream -> Outcome]
  BY <1>1
<1>3. ASSUME NEW d \in Stream, NEW i \in DOMAIN inbox'[d]
      PROVE  inbox'[d][i] \in Outcome /\ Fine(d, inbox'[d][i])
  <2>1. inbox'[d] \in Seq(Answer)
    BY <1>2
  <2>2. inbox'[d][i] \in Answer
    BY <2>1
  <2>3. Fine(d, inbox'[d][i])
    BY <1>1
  <2> QED
    BY <2>2, <2>3 DEF Outcome
<1>4. ASSUME NEW d \in Stream
      PROVE  outcome'[d] \in Outcome /\ Fine(d, outcome'[d])
  BY <1>1
<1>5. \A d \in Stream, m \in Outcome : Fine(d, m) => Fine(d, m)'
  BY FineKept
<1> QED
  BY <1>2, <1>3, <1>4, <1>5 DEF ToldEven

(* The sockets and the listener do nothing.                                      *)
LEMMA Quiet ==
    ASSUME IInv, IInv', ClientsGrow, ThreadsEven, UNCHANGED <<servers, listening>>,
           \A c \in Stream : Sent(net', c) + packetID[c] <= Sent(net, c) + packetID'[c]
    PROVE  ThreadsStay /\ ThreadsEven'
<1>1. ThreadsStay /\ SameSource
  BY DEF ThreadsStay, SameSource
<1>2. OwnLoads
  <2> SUFFICES ASSUME NEW s \in DOMAIN servers, NEW c \in Stream
               PROVE  OwnLoad(s, c)' + packetID[c] <= OwnLoad(s, c) + packetID'[c]
    BY DEF OwnLoads
  <2>1. Queued(servers[s].queue, c) \in Nat /\ Sent(net, c) \in Nat
    BY QueueFacts DEF IInv
  <2>2. Sent(net', c) \in Nat
    BY SentIsNat DEF IInv, DatagramShapes
  <2>3. packetID[c] \in Nat /\ packetID'[c] \in Nat
    BY DEF IInv, ClientShapes
  <2> DEFINE a == Queued(servers[s].queue, c)
             x == Sent(net, c)
             y == Sent(net', c)
             p == packetID[c]
             q == packetID'[c]
  <2>4. OwnLoad(s, c)' = y + a /\ OwnLoad(s, c) = x + a
    BY DEF OwnLoad
  <2>5. y + p <= x + q /\ a \in Int /\ x \in Int /\ y \in Int /\ p \in Int /\ q \in Int
    BY <2>1, <2>2, <2>3
  <2> HIDE DEF a, x, y, p, q
  <2>6. (y + a) + p <= (x + a) + q
    BY <2>5
  <2> QED
    BY <2>4, <2>6 DEF p, q
<1>3. ASSUME NEW s \in DOMAIN servers PROVE EvenThread(s)'
  <2>1. EvenThread(s)
    BY DEF ThreadsEven
  <2>2. \A i \in DOMAIN servers[s].queue : servers[s].queue[i] \in Arriving
    <3>1. servers[s].queue \in Seq(Arriving)
      BY QueueFacts DEF IInv
    <3> QED
      BY <3>1
  <2>3. GenuineQueue(s)'
    BY <2>1, <2>2, GenuineKept DEF EvenThread, GenuineQueue
  <2>4. Stage(servers[s])'
    BY <2>1 DEF EvenThread, Stage, ClientsGrow
  <2> QED
    BY <1>1, <1>2, <2>1, <2>3, <2>4, ThreadKept
<1> QED
  BY <1>1, <1>3 DEF ThreadsEven

LEMMA SameClients ==
    ASSUME IInv, UNCHANGED <<run, copies, cpc, packetID, tries>>
    PROVE  ClientsGrow
BY Counters DEF ClientsGrow

LEMMA FewerSent ==
    ASSUME IInv, IInv', net' \subseteq net, UNCHANGED packetID
    PROVE  \A c \in Stream : Sent(net', c) + packetID[c] <= Sent(net, c) + packetID'[c]
<1> SUFFICES ASSUME NEW c \in Stream
             PROVE  Sent(net', c) + packetID[c] <= Sent(net, c) + packetID[c]
  OBVIOUS
<1>1. Sent(net', c) <= Sent(net, c) /\ Sent(net', c) \in Nat /\ Sent(net, c) \in Nat
  BY SentLess, SentIsNat DEF IInv, DatagramShapes
<1>2. packetID[c] \in Nat
  BY Counters
<1> DEFINE x == Sent(net, c)
           y == Sent(net', c)
<1> HIDE DEF x, y
<1>3. y <= x /\ x \in Int /\ y \in Int
  BY <1>1 DEF x, y
<1>4. y + packetID[c] <= x + packetID[c]
  BY <1>2, <1>3
<1> QED
  BY <1>4 DEF x, y

--------------------------------------------------------------------------------
(* The network.                                                                  *)
LEMMA LoseEven ==
    ASSUME IInv, IInv', Plain, EvenInv, NEW m \in net, Lose(m)
    PROVE  EvenInv'
<1>1. /\ net' \subseteq net
      /\ UNCHANGED <<run, cpc, packetID, tries, outcome, inbox, copies, servers, listening, lpc>>
  BY DEF Lose, clientVars, listenerVars
<1>2. ClientsGrow
  BY <1>1, SameClients
<1>3. ThreadsStay /\ ThreadsEven'
  BY <1>1, <1>2, FewerSent, Quiet DEF EvenInv
<1> QED
  BY <1>1, <1>2, <1>3, NetKept, ToldKept DEF EvenInv, OneAccepts

LEMMA DeliverToClientEven ==
    ASSUME IInv, IInv', Plain, EvenInv, NEW m \in net, DeliverToClient(m), UNCHANGED copies
    PROVE  EvenInv'
<1>1. /\ m.to # "server" /\ net' \subseteq net
      /\ UNCHANGED <<run, cpc, packetID, tries, outcome, servers, listening, lpc>>
      /\ inbox' = [inbox EXCEPT ![m.to] = IF cpc[m.to] = "done" THEN @ ELSE Append(@, m)]
  BY DEF DeliverToClient, Taken, clientVars, listenerVars
<1>2. ClientsGrow
  BY <1>1, SameClients
<1>3. ThreadsStay /\ ThreadsEven'
  BY <1>1, <1>2, FewerSent, Quiet DEF EvenInv
<1>4. m \in Answer /\ m.to \in Stream /\ Fine(m.to, m)
  <2>1. m \in Answer /\ Fine(m.to, m)
    BY <1>1 DEF EvenInv, NetEven, MessageEven
  <2> QED
    BY <2>1 DEF Answer
<1> PICK c \in Stream : c = m.to
  BY <1>4
<1>5. /\ inbox[c] \in Seq(Answer) /\ \A i \in DOMAIN inbox[c] : Fine(c, inbox[c][i])
      /\ outcome[c] \in Outcome /\ Fine(c, outcome[c])
      /\ outcome \in [Stream -> Outcome]
  BY DEF EvenInv, ToldEven
<1> DEFINE box == IF cpc[c] = "done" THEN inbox[c] ELSE Append(inbox[c], m)
<1>6. box \in Seq(Answer)
      /\ \A i \in DOMAIN box : box[i] = m \/ (i \in DOMAIN inbox[c] /\ box[i] = inbox[c][i])
  <2>1. m \in Answer /\ inbox[c] \in Seq(Answer)
    BY <1>4, <1>5
  <2>2. /\ Append(inbox[c], m) \in Seq(Answer)
        /\ \A i \in DOMAIN Append(inbox[c], m) :
             \/ Append(inbox[c], m)[i] = m
             \/ i \in DOMAIN inbox[c] /\ Append(inbox[c], m)[i] = inbox[c][i]
    BY <2>1
  <2> QED
    BY <2>1, <2>2
<1>7. inbox' = [inbox EXCEPT ![c] = box]
  BY <1>1
<1> HIDE DEF box
<1> PICK q \in Seq(Answer) : q = box
  BY <1>6
<1>8. \A i \in DOMAIN q : Fine(c, q[i])
  BY <1>4, <1>5, <1>6
<1>9. ToldEven'
  <2>1. outcome' = [outcome EXCEPT ![c] = outcome[c]]
    BY <1>1, <1>5
  <2>2. inbox' = [inbox EXCEPT ![c] = q] /\ outcome[c] \in Outcome /\ Fine(c, outcome[c])
        /\ ToldEven
    BY <1>5, <1>7 DEF EvenInv
  <2> QED
    BY <1>2, <1>3, <1>8, <2>1, <2>2, ToldChanged
<1>10. NetEven'
  BY <1>1, <1>2, <1>3, NetKept DEF EvenInv
<1> QED
  BY <1>1, <1>3, <1>9, <1>10 DEF EvenInv, OneAccepts

--------------------------------------------------------------------------------
(* The clients.                                                                  *)
LEMMA WriteEven ==
    ASSUME IInv, IInv', EvenInv, ClientsGrow, UNCHANGED <<servers, listening, lpc, inbox, outcome>>,
           NEW c \in Stream, NEW k \in {"data", "fin", "late"}, NEW id \in Int,
           NEW m, m = Datagram(c, k, id), Write(c, m), ~refused[c] => Genuine(m)',
           k = "data" /\ ~refused[c] => packetID'[c] = packetID[c] + 1
    PROVE  EvenInv'
<1>1. net' = net \/ (net' = net \cup {m} /\ ~refused[c])
  BY DEF Write
<1>2. m.to = "server" /\ m.from = c /\ m.kind = k
  BY DEF Datagram
<1>3. ASSUME NEW d \in Stream
      PROVE  Sent(net', d) + packetID[d] <= Sent(net, d) + packetID'[d]
  <2>1. /\ packetID[d] \in Nat /\ packetID'[d] \in Nat /\ packetID[d] <= packetID'[d]
        /\ Sent(net, d) \in Nat /\ Sent(net', d) \in Nat
    BY SentIsNat DEF IInv, ClientShapes, ClientsGrow, DatagramShapes
  <2>2. \/ Sent(net', d) = Sent(net, d)
        \/ Sent(net', d) <= Sent(net, d) + 1 /\ packetID'[d] = packetID[d] + 1
    <3>1. CASE net' = net
      BY <3>1
    <3>2. CASE net' = net \cup {m} /\ ~refused[c] /\ (d # c \/ k # "data")
      BY <1>2, <3>2, SentMore DEF IInv, DatagramShapes
    <3>3. CASE net' = net \cup {m} /\ ~refused[c] /\ d = c /\ k = "data"
      BY <3>3, SentMore DEF IInv, DatagramShapes
    <3> QED
      BY <1>1, <3>1, <3>2, <3>3
  <2> DEFINE x == Sent(net, d)
             y == Sent(net', d)
             p == packetID[d]
             q == packetID'[d]
  <2>3. /\ p \in Int /\ q \in Int /\ x \in Int /\ y \in Int /\ p <= q
        /\ y = x \/ (y <= x + 1 /\ q = p + 1)
    BY <2>1, <2>2
  <2> HIDE DEF x, y, p, q
  <2>4. y + p <= x + q
    BY <2>3
  <2> QED
    BY <2>4 DEF x, y, p, q
<1>4. ThreadsStay /\ ThreadsEven'
  BY <1>3, Quiet DEF EvenInv
<1>5. \A n \in net' : n \in net \/ MessageEven(n)'
  BY <1>1, <1>2 DEF MessageEven
<1>6. NetEven' /\ ToldEven'
  BY <1>4, <1>5, NetKept, ToldKept DEF EvenInv
<1> QED
  BY <1>4, <1>6 DEF EvenInv, OneAccepts, ClientsGrow

(* The client reads, is told how it ended, or only moves on.                     *)
LEMMA ClientReads ==
    ASSUME IInv, IInv', EvenInv, ClientsGrow, UNCHANGED <<servers, listening, lpc, net, packetID>>,
           NEW c \in Stream, NEW q \in Seq(Answer), \A i \in DOMAIN q : Fine(c, q[i]),
           NEW h \in Outcome, Fine(c, h),
           inbox' = [inbox EXCEPT ![c] = q], outcome' = [outcome EXCEPT ![c] = h]
    PROVE  EvenInv'
<1>1. ThreadsStay /\ ThreadsEven'
  BY FewerSent, Quiet DEF EvenInv
<1>2. NetEven' /\ ToldEven'
  BY <1>1, NetKept, ToldChanged DEF EvenInv
<1> QED
  BY <1>1, <1>2 DEF EvenInv, OneAccepts, ClientsGrow

LEMMA ClientEven ==
    ASSUME IInv, IInv', Plain, EvenInv, NEW c \in Stream, ClientStep(c)
    PROVE  EvenInv'
<1>1. UNCHANGED <<run, copies, servers, listening, lpc>>
  BY DEF ClientStep, InitiateServer, HdrXchange, Run, SendFIN, ReadAnswer, GiveUp,
         SelectTimeout, faultVars, listenerVars, kernelVars
<1>2. /\ cpc \in [Stream -> {"connect", "header", "run", "fin", "wait", "done"}]
      /\ packetID \in [Stream -> Nat]
      /\ tries \in [Stream -> 0 .. run.tries] /\ run.tries \in Nat /\ run.flow \in Nat
  BY ScenarioFacts DEF IInv, ClientShapes
<1>3. /\ inbox \in [Stream -> Seq(Answer)] /\ outcome \in [Stream -> Outcome]
      /\ inbox[c] \in Seq(Answer) /\ outcome[c] \in Outcome
      /\ \A i \in DOMAIN inbox[c] : Fine(c, inbox[c][i])
      /\ Fine(c, outcome[c])
  BY DEF EvenInv, ToldEven
<1>4. \A d \in Stream : packetID[d] \in Nat /\ tries[d] \in Nat
  BY <1>2
<1>5. CASE InitiateServer(c)
  <2>1. /\ cpc' = [cpc EXCEPT ![c] = "run"] /\ cpc[c] = "connect"
        /\ UNCHANGED <<packetID, tries, net, inbox, outcome>>
    BY <1>5 DEF InitiateServer, Plain
  <2>2. ClientsGrow
    BY <1>1, <1>2, <1>4, <2>1 DEF ClientsGrow, Over
  <2>3. ThreadsStay /\ ThreadsEven'
    BY <1>1, <2>1, <2>2, FewerSent, Quiet DEF EvenInv
  <2>4. NetEven' /\ ToldEven'
    BY <2>1, <2>2, <2>3, NetKept, ToldKept DEF EvenInv
  <2> QED
    BY <1>1, <2>3, <2>4 DEF EvenInv, OneAccepts
<1>6. CASE HdrXchange(c)
  <2> DEFINE q == IF refused[c] \/ inbox[c] = <<>> THEN inbox[c] ELSE Tail(inbox[c])
  <2>1. /\ cpc' = [cpc EXCEPT ![c] = "run"] /\ cpc[c] = "header"
        /\ UNCHANGED <<packetID, tries, net, outcome>>
        /\ inbox' = [inbox EXCEPT ![c] = q]
    BY <1>3, <1>6 DEF HdrXchange
  <2>2. ClientsGrow
    BY <1>1, <1>2, <1>4, <2>1 DEF ClientsGrow, Over
  <2>3. q \in Seq(Answer) /\ \A i \in DOMAIN q : \E j \in DOMAIN inbox[c] : q[i] = inbox[c][j]
    <3>1. inbox[c] \in Seq(Answer)
      BY <1>3
    <3>2. inbox[c] # <<>> => /\ Tail(inbox[c]) \in Seq(Answer)
                             /\ \A i \in DOMAIN Tail(inbox[c]) :
                                  i + 1 \in DOMAIN inbox[c] /\ Tail(inbox[c])[i] = inbox[c][i + 1]
      BY <3>1
    <3> QED
      BY <3>1, <3>2
  <2>4. outcome' = [outcome EXCEPT ![c] = outcome[c]]
    BY <1>3, <2>1
  <2> HIDE DEF q
  <2>5. \A i \in DOMAIN q : Fine(c, q[i])
    BY <1>3, <2>3
  <2> QED
    BY <1>1, <1>3, <2>1, <2>2, <2>3, <2>4, <2>5, ClientReads
<1>7. CASE Run(c)
  <2>1. /\ cpc[c] = "run" /\ Write(c, Datagram(c, "data", run.flow))
        /\ packetID' = [packetID EXCEPT ![c] = IF refused[c] THEN @ ELSE @ + 1]
        /\ cpc' = [cpc EXCEPT ![c] = "fin"] \/ cpc' = cpc
        /\ UNCHANGED <<tries, inbox, outcome>>
    BY <1>7 DEF Run, NumberSent
  <2>2. ClientsGrow
    BY <1>1, <1>2, <1>4, <2>1 DEF ClientsGrow, Over
  <2> PICK m : m = Datagram(c, "data", run.flow)
    OBVIOUS
  <2>3. Genuine(m)' /\ Write(c, m)
    BY <1>1, <2>1 DEF Genuine, Datagram
  <2>4. ~refused[c] => packetID'[c] = packetID[c] + 1
    BY <1>2, <2>1
  <2> QED
    BY <1>1, <1>2, <2>1, <2>2, <2>3, <2>4, WriteEven
<1>8. CASE SendFIN(c)
  <2>1. /\ cpc[c] = "fin" /\ Write(c, Datagram(c, FinKind(c), FinID(c)))
        /\ tries' = [tries EXCEPT ![c] = @ + 1]
        /\ cpc' = [cpc EXCEPT ![c] = "wait"]
        /\ UNCHANGED <<packetID, inbox, outcome>>
    BY <1>8 DEF SendFIN, OneMoreTry
  <2>2. ClientsGrow
    BY <1>1, <1>2, <1>4, <2>1 DEF ClientsGrow, Over
  <2> PICK id \in Int, k \in {"fin", "late"} : id = FinID(c) /\ k = FinKind(c)
    BY <1>4, HalfAssumption DEF FinID, FinKind
  <2>3. cpc'[c] \in Over /\ tries'[c] = tries[c] + 1 /\ packetID'[c] = packetID[c]
    BY <1>2, <2>1 DEF Over
  <2> PICK m : m = Datagram(c, k, id)
    OBVIOUS
  <2>4. Genuine(m)'
    <3>1. CASE BelowZero(c)
      <4>1. k = "late" /\ Wrapped(packetID'[c], tries'[c], cpc'[c] \in Over)
        BY <1>4, <2>3, <3>1 DEF BelowZero, FinKind, Wrapped, Plain
      <4> QED
        BY <4>1 DEF Genuine, Datagram
    <3>2. CASE ~BelowZero(c)
      <4>1. k = "fin" /\ id <= packetID'[c] /\ packetID'[c] < id + tries'[c]
        BY <1>4, <2>3, <3>2 DEF BelowZero, FinKind, FinID
      <4> QED
        BY <2>3, <4>1 DEF Genuine, Datagram
    <3> QED
      BY <3>1, <3>2
  <2>5. Write(c, m)
    BY <2>1
  <2> QED
    BY <1>1, <2>1, <2>2, <2>3, <2>4, <2>5, WriteEven
<1>9. CASE ReadAnswer(c) \/ GiveUp(c)
  <2>1. PICK h \in Outcome : Fine(c, h) /\ End(c, h)
    <3>1. CASE ReadAnswer(c)
      <4>1. inbox[c] # <<>> /\ End(c, inbox[c][1])
        BY <3>1 DEF ReadAnswer
      <4>2. 1 \in DOMAIN inbox[c] /\ inbox[c][1] \in Answer
        BY <1>3, <4>1
      <4> QED
        BY <1>3, <4>1, <4>2 DEF Outcome
    <3>2. CASE GiveUp(c)
      <4>1. End(c, [kind |-> "warning"])
        BY <3>2 DEF GiveUp
      <4>2. Fine(c, [kind |-> "warning"]) /\ [kind |-> "warning"] \in Outcome
        BY DEF Fine, Outcome
      <4> QED
        BY <4>1, <4>2
    <3> QED
      BY <1>9, <3>1, <3>2
  <2>2. /\ UNCHANGED <<packetID, tries, net>>
        /\ cpc' = [cpc EXCEPT ![c] = "done"]
        /\ inbox' = [inbox EXCEPT ![c] = <<>>] /\ outcome' = [outcome EXCEPT ![c] = h]
    BY <1>9, <2>1 DEF ReadAnswer, GiveUp, End
  <2>3. ClientsGrow
    BY <1>1, <1>2, <1>4, <2>2 DEF ClientsGrow, Over
  <2>4. <<>> \in Seq(Answer) /\ \A i \in DOMAIN <<>> : Fine(c, <<>>[i])
    OBVIOUS
  <2> QED
    BY <1>1, <2>1, <2>2, <2>3, <2>4, ClientReads
<1>10. CASE SelectTimeout(c)
  <2>1. /\ cpc' = [cpc EXCEPT ![c] = "fin"] /\ cpc[c] = "wait"
        /\ UNCHANGED <<packetID, tries, net, inbox, outcome>>
    BY <1>10 DEF SelectTimeout, kernelVars
  <2>2. ClientsGrow
    BY <1>1, <1>2, <1>4, <2>1 DEF ClientsGrow, Over
  <2>3. ThreadsStay /\ ThreadsEven'
    BY <1>1, <2>1, <2>2, FewerSent, Quiet DEF EvenInv
  <2>4. NetEven' /\ ToldEven'
    BY <2>1, <2>2, <2>3, NetKept, ToldKept DEF EvenInv
  <2> QED
    BY <1>1, <2>3, <2>4 DEF EvenInv, OneAccepts
<1> QED
  BY <1>5, <1>6, <1>7, <1>8, <1>9, <1>10 DEF ClientStep

LEMMA ElementsArrive ==
    ASSUME ServerShapes, NEW s \in DOMAIN servers, NEW i \in DOMAIN servers[s].queue
    PROVE  servers[s].queue[i] \in Arriving
<1>1. servers[s] \in Server
  BY DEF ServerShapes
<1>2. servers[s].queue \in Seq(Arriving)
  BY <1>1 DEF Server
<1> QED
  BY <1>2

LEMMA HeadAndTail ==
    ASSUME NEW q \in Seq(Arriving), q # <<>>
    PROVE  /\ Head(q) \in Arriving /\ 1 \in DOMAIN q /\ q[1] = Head(q)
           /\ Tail(q) \in Seq(Arriving)
           /\ \A i \in DOMAIN Tail(q) : i + 1 \in DOMAIN q /\ Tail(q)[i] = q[i + 1]
OBVIOUS

(* Thread s becomes v; the other threads do nothing.                             *)
LEMMA OneLoad ==
    ASSUME IInv, IInv', NEW s \in DOMAIN servers, NEW v \in Server, UNCHANGED packetID,
           servers' = [servers EXCEPT ![s] = v],
           servers[s].pc # "idle" => v.pc # "idle" /\ v.peer = servers[s].peer,
           \A c \in Stream : /\ Sent(net', c) <= Sent(net, c)
                             /\ Sent(net', c) + Queued(v.queue, c) <= OwnLoad(s, c)
    PROVE  /\ OwnLoads /\ ThreadsStay
           /\ DOMAIN servers' = DOMAIN servers /\ servers'[s] = v
           /\ \A t \in DOMAIN servers \ {s} : servers'[t] = servers[t]
<1>1. /\ servers \in Seq(Server) /\ ServerShapes /\ ServerShapes'
      /\ DatagramShapes /\ DatagramShapes'
      /\ \A c \in Stream : packetID[c] \in Nat
  BY DEF IInv, ServerShapes, ClientShapes
<1>2. /\ DOMAIN servers' = DOMAIN servers /\ servers'[s] = v
      /\ \A t \in DOMAIN servers \ {s} : servers'[t] = servers[t]
  BY <1>1, Replaced
<1>3. ThreadsStay
  BY <1>2 DEF ThreadsStay
<1>4. ASSUME NEW t \in DOMAIN servers, NEW c \in Stream
      PROVE  OwnLoad(t, c)' + packetID[c] <= OwnLoad(t, c) + packetID[c]
  <2>1. OwnLoad(t, c) \in Nat /\ OwnLoad(t, c)' \in Nat
    BY <1>1, <1>2, QueueFacts, QueueFactsNext
  <2>2. OwnLoad(t, c)' <= OwnLoad(t, c)
    <3>1. CASE t = s
      BY <1>2, <3>1 DEF OwnLoad
    <3>2. CASE t # s
      <4>1. /\ Queued(servers[t].queue, c) \in Nat /\ Sent(net, c) \in Nat
            /\ Sent(net', c) \in Nat /\ Sent(net', c) <= Sent(net, c)
        BY <1>1, <1>2, QueueFacts, QueueFactsNext
      <4>2. OwnLoad(t, c)' = Sent(net', c) + Queued(servers[t].queue, c)
        BY <1>2, <3>2 DEF OwnLoad
      <4> DEFINE a == Queued(servers[t].queue, c)
                 x == Sent(net, c)
                 y == Sent(net', c)
      <4>3. a \in Int /\ x \in Int /\ y \in Int /\ y <= x
        BY <4>1
      <4> HIDE DEF a, x, y
      <4>4. y + a <= x + a
        BY <4>3
      <4> QED
        BY <4>2, <4>4 DEF OwnLoad, a, x, y
    <3> QED
      BY <3>1, <3>2
  <2>3. packetID[c] \in Nat
    BY <1>1
  <2> DEFINE x == OwnLoad(t, c)
             y == OwnLoad(t, c)'
  <2>4. x \in Int /\ y \in Int /\ y <= x
    BY <2>1, <2>2
  <2> HIDE DEF x, y
  <2>5. y + packetID[c] <= x + packetID[c]
    BY <2>3, <2>4
  <2> QED
    BY <2>5 DEF x, y
<1>5. OwnLoads
  BY <1>4 DEF OwnLoads
<1> QED
  BY <1>2, <1>3, <1>5

LEMMA Others ==
    ASSUME IInv, IInv', ClientsGrow, ThreadsStay, OwnLoads, SameSource, ThreadsEven,
           NEW s \in DOMAIN servers, servers'[s] = servers[s]
    PROVE  EvenThread(s)'
<1>1. EvenThread(s)
  BY DEF ThreadsEven
<1>2. GenuineQueue(s)'
  BY <1>1, ElementsArrive, GenuineKept DEF EvenThread, GenuineQueue, IInv
<1>3. Stage(servers[s])'
  BY <1>1 DEF EvenThread, Stage, ClientsGrow
<1> QED
  BY <1>1, <1>2, <1>3, ThreadKept

(* A thread that goes on without counting, perhaps with less in its queue.       *)
LEMMA GoesOn ==
    ASSUME IInv, IInv', ClientsGrow, UNCHANGED <<packetID, listening>>, ThreadsEven,
           NEW s \in DOMAIN servers, NEW v \in Server,
           servers' = [servers EXCEPT ![s] = v],
           servers[s].pc # "idle" => v.pc # "idle", v.peer = servers[s].peer,
           v.count = servers[s].count, v.last = servers[s].last, v.fin = servers[s].fin,
           v.alien = servers[s].alien, Stage(v),
           \A c \in Stream : /\ Sent(net', c) <= Sent(net, c)
                             /\ Sent(net', c) + Queued(v.queue, c) <= OwnLoad(s, c),
           \A i \in DOMAIN v.queue : v.queue[i] \in Arriving /\ Genuine(v.queue[i])
    PROVE  ThreadsEven' /\ ThreadsStay
<1>1. /\ OwnLoads /\ ThreadsStay
      /\ DOMAIN servers' = DOMAIN servers /\ servers'[s] = v
      /\ \A t \in DOMAIN servers \ {s} : servers'[t] = servers[t]
  BY OneLoad
<1>2. SameSource
  BY DEF SameSource
<1>3. \A t \in DOMAIN servers \ {s} : EvenThread(t)'
  BY <1>1, <1>2, Others
<1>4. GenuineQueue(s)'
  BY <1>1, GenuineKept DEF GenuineQueue
<1>5. Stage(servers[s])'
  BY <1>1 DEF Stage, ClientsGrow
<1>6. EvenThread(s)
  BY DEF ThreadsEven
<1>7. EvenThread(s)'
  BY <1>1, <1>2, <1>4, <1>5, <1>6, ThreadKept
<1> QED
  BY <1>1, <1>3, <1>7 DEF ThreadsEven

(* What is left in a queue when its first datagram is taken, or all of them.     *)
LEMMA LessQueued ==
    ASSUME IInv, ThreadsEven, NEW s \in DOMAIN servers, NEW q,
           \/ q = servers[s].queue \/ q = <<>>
           \/ servers[s].queue # <<>> /\ q = Tail(servers[s].queue)
    PROVE  /\ \A c \in Stream : Sent(net, c) + Queued(q, c) <= OwnLoad(s, c)
           /\ \A i \in DOMAIN q : q[i] \in Arriving /\ Genuine(q[i])
           /\ q \in Seq(Arriving)
<1> DEFINE r == servers[s].queue
<1>1. r \in Seq(Arriving) /\ \A i \in DOMAIN r : r[i] \in Arriving /\ Genuine(r[i])
  BY QueueFacts, ElementsArrive DEF IInv, ThreadsEven, EvenThread, GenuineQueue
<1>2. q \in Seq(Arriving)
  <2>1. <<>> \in Seq(Arriving)
    OBVIOUS
  <2> QED
    BY <1>1, <2>1, HeadAndTail
<1>3. \A i \in DOMAIN q : \E j \in DOMAIN r : q[i] = r[j]
  <2>1. CASE q = r
    BY <2>1
  <2>2. CASE q = <<>>
    BY <2>2
  <2>3. CASE r # <<>> /\ q = Tail(r)
    BY <1>1, <2>3, HeadAndTail
  <2> QED
    BY <2>1, <2>2, <2>3
<1>4. ASSUME NEW c \in Stream PROVE Sent(net, c) + Queued(q, c) <= OwnLoad(s, c)
  <2>1. Queued(r, c) \in Nat /\ Queued(q, c) \in Nat /\ Sent(net, c) \in Nat
    BY <1>1, <1>2, QueuedIsNat, SentIsNat DEF IInv, DatagramShapes
  <2>2. Queued(q, c) <= Queued(r, c)
    <3>1. CASE q = r
      BY <2>1, <3>1
    <3>2. CASE q = <<>>
      <4>1. Queued(q, c) = 0
        BY <1>2, <3>2, QueuedIsNat
      <4> QED
        BY <2>1, <4>1
    <3>3. CASE r # <<>> /\ q = Tail(r)
      <4>1. Queued(q, c) + One(Head(r), c) <= Queued(r, c)
        BY <1>1, <3>3, QueuedTail
      <4> QED
        BY <2>1, <4>1 DEF One
    <3> QED
      BY <3>1, <3>2, <3>3
  <2> DEFINE a == Queued(q, c)
             b == Queued(r, c)
             x == Sent(net, c)
  <2>3. a \in Int /\ b \in Int /\ x \in Int /\ a <= b
    BY <2>1, <2>2
  <2> HIDE DEF a, b, x
  <2>4. x + a <= x + b
    BY <2>3
  <2> QED
    BY <2>4 DEF OwnLoad, a, b, x
<1> HIDE DEF r
<1> QED
  BY <1>1, <1>2, <1>3, <1>4

--------------------------------------------------------------------------------
(* A datagram reaches a socket.                                                  *)
LEMMA DataIsOne ==
    ASSUME IInv, NEW m \in net, m.to = "server", NEW c \in Stream
    PROVE  Sent(net \ {m}, c) + One(m, c) <= Sent(net, c)
<1>1. IsFiniteSet(DataOf(net, c)) /\ Sent(net, c) \in Nat
  BY SentIsNat DEF IInv, DatagramShapes
<1>2. CASE IsData(m, c)
  <2>1. DataOf(net \ {m}, c) = DataOf(net, c) \ {m} /\ m \in DataOf(net, c)
    BY <1>2 DEF DataOf
  <2> DEFINE a == Cardinality(DataOf(net, c))
             b == Cardinality(DataOf(net, c) \ {m})
  <2>2. b = a - 1 /\ a \in Nat
    BY <1>1, <2>1, FS_RemoveElement DEF Sent
  <2> HIDE DEF a, b
  <2>3. b + 1 <= a
    BY <2>2
  <2> QED
    BY <1>2, <2>1, <2>3 DEF One, Sent, a, b
<1>3. CASE ~IsData(m, c)
  <2>1. DataOf(net \ {m}, c) = DataOf(net, c)
    BY <1>3 DEF DataOf
  <2> QED
    BY <1>1, <1>3, <2>1 DEF One, Sent
<1> QED
  BY <1>2, <1>3

LEMMA DeliverToServerEven ==
    ASSUME IInv, IInv', Plain, EvenInv, NEW m \in net, DeliverToServer(m), UNCHANGED copies,
           copies \in Nat
    PROVE  EvenInv'
<1> DEFINE reached == IF Connected(m.from) # {} THEN Connected(m.from) ELSE Unconnected
<1>1. /\ m.to = "server" /\ net' = net \ {m}
      /\ UNCHANGED <<run, cpc, packetID, tries, outcome, inbox, listening, lpc>>
  BY DEF DeliverToServer, Taken, clientVars, listenerVars, faultVars
<1>2. ClientsGrow
  BY <1>1, SameClients
<1>3. m \in Arriving /\ Genuine(m)
  BY <1>1 DEF IInv, DatagramShapes, EvenInv, NetEven, MessageEven
<1>4. ThreadsStay /\ ThreadsEven'
  <2>1. CASE reached = {}
    <3>1. UNCHANGED servers
      BY <2>1 DEF DeliverToServer
    <3> QED
      BY <1>1, <1>2, <3>1, FewerSent, Quiet DEF EvenInv
  <2>2. CASE reached # {}
    <3>1. PICK s \in reached : servers' = [servers EXCEPT ![s].queue = Append(@, m)]
      BY <2>2 DEF DeliverToServer
    <3>2. s \in DOMAIN servers
      BY DEF Connected, Unconnected
    <3> HIDE DEF reached
    <3>3. servers[s] \in Server /\ servers[s].queue \in Seq(Arriving)
      BY <3>2, QueueFacts DEF IInv
    <3> DEFINE q == Append(servers[s].queue, m)
               v == [servers[s] EXCEPT !.queue = q]
    <3>4. servers' = [servers EXCEPT ![s] = v]
      BY <3>1
    <3>5. /\ q \in Seq(Arriving)
          /\ \A i \in DOMAIN q : q[i] = m \/ (i \in DOMAIN servers[s].queue
                                              /\ q[i] = servers[s].queue[i])
      BY <1>3, <3>3
    <3>6. ASSUME NEW c \in Stream
          PROVE  /\ Sent(net', c) <= Sent(net, c)
                 /\ Sent(net', c) + Queued(q, c) <= OwnLoad(s, c)
      <4>1. Sent(net', c) + One(m, c) <= Sent(net, c)
        BY <1>1, DataIsOne DEF EvenInv
      <4>2. Queued(q, c) = Queued(servers[s].queue, c) + One(m, c)
        BY <1>3, <3>3, QueuedAppend
      <4>3. Queued(servers[s].queue, c) \in Nat /\ Sent(net, c) \in Nat
            /\ Sent(net', c) \in Nat /\ One(m, c) \in {0, 1}
        BY <3>3, QueuedIsNat, SentIsNat DEF One, IInv, DatagramShapes
      <4> DEFINE a == Queued(servers[s].queue, c)
                 x == Sent(net, c)
                 y == Sent(net', c)
                 o == One(m, c)
                 b == Queued(q, c)
      <4>4. a \in Int /\ x \in Int /\ y \in Int /\ o \in {0, 1} /\ y + o <= x /\ b = a + o
        BY <4>1, <4>2, <4>3
      <4> HIDE DEF a, x, y, o, b, q
      <4>5. y <= x /\ y + b <= x + a
        BY <4>4
      <4> QED
        BY <4>5 DEF OwnLoad, a, x, y, b
    <3> HIDE DEF q
    <3>7. v \in Server /\ v.queue = q /\ v.pc = servers[s].pc /\ v.peer = servers[s].peer
          /\ v.count = servers[s].count /\ v.last = servers[s].last
          /\ v.fin = servers[s].fin /\ v.alien = servers[s].alien
      BY <3>3, <3>5 DEF Server
    <3>8. \A i \in DOMAIN q : q[i] \in Arriving /\ Genuine(q[i])
      <4>1. \A i \in DOMAIN servers[s].queue :
              servers[s].queue[i] \in Arriving /\ Genuine(servers[s].queue[i])
        BY <3>2, ElementsArrive DEF IInv, EvenInv, ThreadsEven, EvenThread, GenuineQueue
      <4> QED
        BY <1>3, <3>5, <4>1
    <3> HIDE DEF v
    <3>9. Stage(v)
      <4>1. Stage(servers[s])
        BY <3>2 DEF EvenInv, ThreadsEven, EvenThread
      <4> QED
        BY <3>7, <4>1 DEF Stage
    <3> QED
      BY <1>1, <1>2, <3>2, <3>4, <3>6, <3>7, <3>8, <3>9, GoesOn DEF EvenInv
  <2> QED
    BY <2>1, <2>2
<1>5. NetEven' /\ ToldEven'
  BY <1>1, <1>2, <1>4, NetKept, ToldKept DEF EvenInv
<1> QED
  BY <1>1, <1>4, <1>5 DEF EvenInv, OneAccepts

--------------------------------------------------------------------------------
(* The server threads answer.                                                    *)

(* A step of the server side that counts nothing and sends nothing.              *)
LEMMA ServerQuiet ==
    ASSUME IInv, IInv', Plain, EvenInv, NEW s \in DOMAIN servers, NEW v \in Server,
           UNCHANGED <<run, cpc, packetID, tries, outcome, inbox, copies, net, listening>>,
           servers' = [servers EXCEPT ![s] = v], v.peer = servers[s].peer,
           servers[s].pc # "idle" => v.pc # "idle",
           v.count = servers[s].count, v.last = servers[s].last, v.fin = servers[s].fin,
           v.alien = servers[s].alien, Stage(v), OneAccepts',
           \/ v.queue = servers[s].queue \/ v.queue = <<>>
           \/ servers[s].queue # <<>> /\ v.queue = Tail(servers[s].queue)
    PROVE  EvenInv'
<1>1. ClientsGrow /\ ThreadsEven
  BY SameClients DEF EvenInv
<1>2. \A c \in Stream : Sent(net', c) <= Sent(net, c)
  BY SentIsNat DEF IInv, DatagramShapes
<1>3. /\ \A c \in Stream : Sent(net, c) + Queued(v.queue, c) <= OwnLoad(s, c)
      /\ \A i \in DOMAIN v.queue : v.queue[i] \in Arriving /\ Genuine(v.queue[i])
  BY <1>1, LessQueued
<1>4. \A c \in Stream : /\ Sent(net', c) <= Sent(net, c)
                        /\ Sent(net', c) + Queued(v.queue, c) <= OwnLoad(s, c)
  BY <1>2, <1>3
<1>5. ThreadsEven' /\ ThreadsStay
  BY <1>1, <1>3, <1>4, GoesOn
<1>6. NetEven' /\ ToldEven'
  BY <1>1, <1>5, NetKept, ToldKept DEF EvenInv
<1> QED
  BY <1>5, <1>6 DEF EvenInv

LEMMA ThreadFacts ==
    ASSUME IInv, EvenInv, NEW s \in DOMAIN servers
    PROVE  /\ EvenThread(s) /\ Stage(servers[s]) /\ Spare(s) /\ EvenSocket(s) /\ GenuineQueue(s)
           /\ servers[s] \in Server /\ servers[s].queue \in Seq(Arriving)
           /\ \A c \in Stream : OwnLoad(s, c) \in Nat /\ Sent(net, c) \in Nat
BY QueueFacts DEF IInv, EvenInv, ThreadsEven, EvenThread

LEMMA ServersAlone ==
    ASSUME ServerOnly
    PROVE  UNCHANGED <<run, cpc, packetID, tries, outcome, inbox, copies, listening, lpc>>
BY DEF ServerOnly, clientVars, faultVars

LEMMA PeerOfServing ==
    ASSUME IInv, NEW s \in Serving
    PROVE  servers[s].peer \in Stream
<1>1. ServerShapes /\ ClientsAreServed
  BY DEF IInv, ListInv
<1>2. PICK i \in DOMAIN clients : clients[i].server = s
  BY <1>1 DEF ClientsAreServed
<1> QED
  BY <1>1, <1>2, EntryFacts DEF ClientsAreServed

LEMMA EndingEven ==
    ASSUME IInv, IInv', Plain, EvenInv, NEW s \in DOMAIN servers,
           AskedAgain(s) \/ AckTimeout(s) \/ Forget(s) \/ Close(s)
    PROVE  EvenInv'
<1>1. ServerOnly /\ UNCHANGED net /\ servers[s].pc \in {"linger", "delete", "close"}
  BY DEF AskedAgain, AckTimeout, Forget, Close
<1>2. UNCHANGED <<run, cpc, packetID, tries, outcome, inbox, copies, listening, lpc>>
  BY <1>1, ServersAlone
<1>3. /\ servers[s] \in Server /\ servers[s].queue \in Seq(Arriving) /\ Stage(servers[s])
      /\ servers \in Seq(Server)
  BY ThreadFacts DEF IInv, ServerShapes
<1>4. servers[s].fin /\ ~run.single
  BY <1>1, <1>3 DEF Stage
<1> DEFINE Ends(v) ==
             /\ v \in Server /\ servers' = [servers EXCEPT ![s] = v]
             /\ v.peer = servers[s].peer
             /\ v.pc \in {"answer", "delete", "close", "gone"}
             /\ v.count = servers[s].count /\ v.last = servers[s].last
             /\ v.fin = servers[s].fin /\ v.alien = servers[s].alien
             /\ \/ v.queue = servers[s].queue \/ v.queue = <<>>
                \/ servers[s].queue # <<>> /\ v.queue = Tail(servers[s].queue)
<1>5. \E v \in Server : Ends(v)
  <2>1. CASE AskedAgain(s)
    <3> DEFINE u == [servers[s] EXCEPT !.queue = Tail(@)]
               p == IF MoreAcks(s) THEN "answer" ELSE "delete"
               v == [u EXCEPT !.pc = p]
    <3>1. servers[s].queue # <<>> /\ servers' = [Popped(s) EXCEPT ![s].pc = p]
      BY <2>1 DEF AskedAgain
    <3>2. servers' = [servers EXCEPT ![s] = v]
      BY <1>3, <3>1 DEF Popped
    <3>3. Tail(servers[s].queue) \in Seq(Arriving)
      BY <1>3, <3>1, HeadAndTail
    <3>4. p \in {"answer", "delete"} /\ p \in Place
      BY DEF Place
    <3> HIDE DEF p
    <3>5. u \in Server /\ u.queue = Tail(servers[s].queue) /\ u.peer = servers[s].peer
          /\ u.count = servers[s].count /\ u.last = servers[s].last
          /\ u.fin = servers[s].fin /\ u.alien = servers[s].alien
      BY <1>3, <3>3 DEF Server
    <3> HIDE DEF u
    <3>6. v \in Server /\ v.queue = u.queue /\ v.peer = u.peer /\ v.pc = p
          /\ v.count = u.count /\ v.last = u.last /\ v.fin = u.fin /\ v.alien = u.alien
      BY <3>4, <3>5 DEF Server
    <3> HIDE DEF v
    <3>7. Ends(v)
      BY <3>1, <3>2, <3>4, <3>5, <3>6
    <3> QED
      BY <3>6, <3>7
  <2>2. CASE AckTimeout(s) \/ Forget(s)
    <3>1. PICK p \in {"delete", "close"} : servers' = [servers EXCEPT ![s].pc = p]
      BY <2>2 DEF AckTimeout, Forget
    <3> DEFINE v == [servers[s] EXCEPT !.pc = p]
    <3>2. servers' = [servers EXCEPT ![s] = v] /\ p \in Place
      BY <3>1 DEF Place
    <3>3. v \in Server /\ v.queue = servers[s].queue /\ v.peer = servers[s].peer /\ v.pc = p
          /\ v.count = servers[s].count /\ v.last = servers[s].last
          /\ v.fin = servers[s].fin /\ v.alien = servers[s].alien
      BY <1>3, <3>2 DEF Server
    <3> HIDE DEF v
    <3> QED
      BY <3>2, <3>3
  <2>3. CASE Close(s)
    <3> DEFINE v == [servers[s] EXCEPT !.pc = "gone", !.open = FALSE, !.queue = <<>>]
    <3>1. /\ servers' = [servers EXCEPT ![s] = v]
          /\ "gone" \in Place /\ <<>> \in Seq(Arriving)
      <4>1. servers' = [servers EXCEPT ![s].pc = "gone", ![s].open = FALSE, ![s].queue = <<>>]
        BY <2>3 DEF Close
      <4>2. servers' = [servers EXCEPT ![s] = v]
        BY <1>3, <4>1
      <4> QED
        BY <4>2 DEF Place
    <3>2. v \in Server /\ v.queue = <<>> /\ v.peer = servers[s].peer /\ v.pc = "gone"
          /\ v.count = servers[s].count /\ v.last = servers[s].last
          /\ v.fin = servers[s].fin /\ v.alien = servers[s].alien
      BY <1>3, <3>1 DEF Server
    <3> HIDE DEF v
    <3> QED
      BY <3>1, <3>2
  <2> QED
    BY <2>1, <2>2, <2>3
<1>6. PICK v \in Server : Ends(v)
  BY <1>5
<1>7. Stage(v) /\ v.pc # "idle"
  BY <1>4, <1>6 DEF Stage
<1>8. OneAccepts'
  BY <1>2 DEF EvenInv, OneAccepts
<1> QED
  BY <1>1, <1>2, <1>6, <1>7, <1>8, ServerQuiet

(* The totals are sent.                                                          *)
LEMMA TotalsEven ==
    ASSUME IInv, NEW s \in Nat, NEW v \in Server, v.fin, NEW c \in Stream, v.acks \in Nat,
           NEW w \in Nat,
           ~v.alien => EvenRec(v, w, packetID[c], tries[c], cpc[c] \in Over, run.flow, run.single),
           UNCHANGED <<run, packetID, tries, cpc>>,
           s \in DOMAIN servers', servers'[s].pc # "idle", servers'[s].peer = c
    PROVE  MessageEven(Totals(c, s, v))'
<1> DEFINE m == Totals(c, s, v)
<1>1. m.to = c /\ m.from = s /\ m.kind = "totals" /\ m.alien = v.alien /\ c # "server"
  BY PeerAssumption DEF Totals
<1>2. m \in Answer
  <2>1. v.count \in Int /\ v.last \in Int /\ v.alien \in BOOLEAN
    BY DEF Server
  <2> QED
    BY <2>1 DEF Answer, Totals
<1>3. ~v.alien => FineRec(m, packetID[c], tries[c], cpc[c] \in Over, run.flow, run.single)
  <2> SUFFICES ASSUME ~v.alien
               PROVE  FineRec(m, packetID[c], tries[c], cpc[c] \in Over, run.flow, run.single)
    OBVIOUS
  <2>1. packetID[c] \in Nat /\ tries[c] \in Nat /\ run.flow \in Nat
    BY Counters
  <2>2. EvenRec(v, w, packetID[c], tries[c], cpc[c] \in Over, run.flow, run.single)
    OBVIOUS
  <2> HIDE DEF m
  <2> QED
    BY <2>1, <2>2, TotalsFine DEF m
<1> HIDE DEF m
<1>4. MessageEven(m)'
  <2> PICK n : n = m
    OBVIOUS
  <2>1. Fine(c, n)'
    BY <1>1, <1>3 DEF Fine
  <2>2. MessageEven(n)'
    BY <1>1, <1>2, <2>1 DEF MessageEven
  <2> QED
    BY <2>2 DEF m
<1> QED
  BY <1>4 DEF m

LEMMA MoreSent ==
    ASSUME IInv, NEW m, m.to # "server", net' = net \cup {m}
    PROVE  \A c \in Stream : Sent(net', c) = Sent(net, c)
BY SentMore DEF IInv, DatagramShapes

LEMMA SendTotalsEven ==
    ASSUME IInv, IInv', Plain, EvenInv, NEW s \in DOMAIN servers, SendTotals(s)
    PROVE  EvenInv'
<1> DEFINE v == [servers[s] EXCEPT !.acks = @ + 1, !.pc = "linger"]
           c == servers[s].peer
<1>1. /\ servers[s].pc = "answer" /\ ServerOnly
      /\ net' = net \cup {Totals(c, s, servers[s])}
      /\ servers' = [servers EXCEPT ![s] = v]
  BY DEF SendTotals
<1>2. UNCHANGED <<run, cpc, packetID, tries, outcome, inbox, copies, listening, lpc>>
  BY <1>1, ServersAlone
<1>3. /\ Stage(servers[s]) /\ EvenSocket(s) /\ servers[s] \in Server
      /\ servers[s].queue \in Seq(Arriving)
  BY ThreadFacts
<1>4. servers[s].fin /\ ~run.single
  BY <1>1, <1>3 DEF Stage
<1>5. c \in Stream /\ c # "server" /\ c # NobodyPeer
  <2>1. s \in Serving
    BY <1>1 DEF Serving
  <2> QED
    BY <2>1, PeerOfServing, PeerAssumption
<1>6. v \in Server /\ v.pc = "linger" /\ v.peer = c /\ v.queue = servers[s].queue
      /\ v.count = servers[s].count /\ v.last = servers[s].last
      /\ v.fin = servers[s].fin /\ v.alien = servers[s].alien
  <2>1. servers[s].acks + 1 \in Nat /\ "linger" \in Place
    BY SocketFacts DEF Place
  <2> QED
    BY <1>3, <2>1 DEF Server
<1> HIDE DEF v, c
<1>7. Stage(v)
  BY <1>4, <1>6 DEF Stage
<1>8. \A d \in Stream : Sent(net', d) = Sent(net, d)
  <2>1. Totals(c, s, servers[s]).to # "server"
    BY <1>5 DEF Totals
  <2> QED
    BY <1>1, <2>1, MoreSent
<1>9. ClientsGrow /\ ThreadsEven
  BY <1>2, SameClients DEF EvenInv
<1>10. /\ \A d \in Stream : Sent(net, d) + Queued(v.queue, d) <= OwnLoad(s, d)
       /\ \A i \in DOMAIN v.queue : v.queue[i] \in Arriving /\ Genuine(v.queue[i])
  BY <1>6, <1>9, LessQueued
<1>11. \A d \in Stream : /\ Sent(net', d) <= Sent(net, d)
                         /\ Sent(net', d) + Queued(v.queue, d) <= OwnLoad(s, d)
  BY <1>8, <1>10, SentIsNat DEF IInv, DatagramShapes
<1>12. ThreadsEven' /\ ThreadsStay
  BY <1>1, <1>2, <1>6, <1>7, <1>9, <1>10, <1>11, GoesOn DEF c
<1> PICK n : n = Totals(c, s, servers[s])
  OBVIOUS
<1>13. MessageEven(n)'
  <2> PICK d \in Stream : d = c
    BY <1>5
  <2> PICK old \in Server : old = servers[s]
    BY <1>3
  <2>1. s \in Nat /\ s \in DOMAIN servers' /\ servers'[s] = v
    BY <1>1, <1>6, Replaced DEF IInv, ServerShapes
  <2>2. Load(s, d) = OwnLoad(s, d) /\ OwnLoad(s, d) \in Nat
    BY <1>4, ThreadFacts DEF Load, OwnLoad, Source
  <2>3. PICK w \in Nat : w = Load(s, d)
    BY <2>2
  <2>4. ~old.alien => EvenRec(old, w, packetID[d], tries[d], cpc[d] \in Over, run.flow, run.single)
    BY <1>3, <1>5, <2>3 DEF EvenSocket, c
  <2>5. old.fin /\ old.acks \in Nat
    BY <1>4, SocketFacts
  <2>6. MessageEven(Totals(d, s, old))'
    BY <1>2, <1>6, <2>1, <2>4, <2>5, TotalsEven
  <2> QED
    BY <2>6
<1>14. NetEven' /\ ToldEven'
  BY <1>1, <1>2, <1>9, <1>12, <1>13, NetKept, ToldKept DEF EvenInv
<1> QED
  BY <1>2, <1>12, <1>14 DEF EvenInv, OneAccepts

--------------------------------------------------------------------------------
(* A server thread counts.                                                       *)

LEMMA LoadTaken ==
    ASSUME IInv, NEW s \in DOMAIN servers, servers[s].queue # <<>>, NEW c
    PROVE  /\ Sent(net, c) + Queued(Tail(servers[s].queue), c) + One(Head(servers[s].queue), c)
                <= OwnLoad(s, c)
           /\ Sent(net, c) + Queued(Tail(servers[s].queue), c) \in Nat
<1> DEFINE a == Queued(servers[s].queue, c)
           b == Queued(Tail(servers[s].queue), c)
           o == One(Head(servers[s].queue), c)
           x == Sent(net, c)
<1>1. servers[s].queue \in Seq(Arriving) /\ Tail(servers[s].queue) \in Seq(Arriving)
  BY QueueFacts, HeadAndTail DEF IInv
<1>2. b + o <= a /\ a \in Nat /\ b \in Nat /\ x \in Nat /\ o \in {0, 1}
  BY <1>1, QueuedTail, QueuedIsNat, SentIsNat DEF One, IInv, DatagramShapes
<1> HIDE DEF a, b, o, x
<1>3. x + b + o <= x + a /\ x + b \in Nat
  BY <1>2
<1> QED
  BY <1>3 DEF OwnLoad, a, b, o, x

LEMMA RecvUDPEven ==
    ASSUME IInv, IInv', Plain, EvenInv, NEW s \in DOMAIN servers, RecvUDP(s)
    PROVE  EvenInv'
<1> DEFINE q == Tail(servers[s].queue)
           u == [servers[s] EXCEPT !.queue = q]
<1>1. servers[s].pc = "recv" /\ servers[s].queue # <<>> /\ ServerOnly /\ UNCHANGED net
  BY DEF RecvUDP
<1>2. UNCHANGED <<run, cpc, packetID, tries, outcome, inbox, copies, listening, lpc>>
  BY <1>1, ServersAlone
<1>3. /\ Stage(servers[s]) /\ Spare(s) /\ GenuineQueue(s) /\ EvenThread(s)
      /\ servers[s] \in Server /\ servers[s].queue \in Seq(Arriving)
  BY ThreadFacts
<1>4. ~servers[s].fin /\ ~run.single /\ ~run.timed
  BY <1>1, <1>3 DEF Stage, Plain
<1> PICK m \in Arriving : m = NextDatagram(s)
  BY <1>1, <1>3, HeadAndTail DEF NextDatagram
<1>5. m = Head(servers[s].queue) /\ Genuine(m)
  BY <1>1, <1>3, HeadAndTail DEF NextDatagram, GenuineQueue
<1>6. PICK pc \in {"recv", "answer"} :
        /\ pc = "answer" <=> m.kind = "fin"
        /\ servers' = [Popped(s) EXCEPT ![s] = [Counted(@, m) EXCEPT !.pc = pc]]
  BY <1>4 DEF RecvUDP
<1>7. q \in Seq(Arriving)
  BY <1>1, <1>3, HeadAndTail
<1>8. u \in Server /\ u.queue = q /\ u.pc = "recv" /\ u.peer = servers[s].peer
      /\ u.count = servers[s].count /\ u.last = servers[s].last
      /\ u.fin = servers[s].fin /\ u.alien = servers[s].alien
  BY <1>1, <1>3, <1>7 DEF Server
<1>9. Popped(s) = [servers EXCEPT ![s] = u]
  BY DEF Popped
<1> HIDE DEF u
<1>10. Popped(s)[s] = u /\ servers \in Seq(Server)
  BY <1>8, <1>9, Replaced DEF IInv, ServerShapes
<1> DEFINE w == Counted(u, m)
           v == [w EXCEPT !.pc = pc]
<1>11. servers' = [servers EXCEPT ![s] = v]
  <2>1. servers' = [Popped(s) EXCEPT ![s] = v]
    BY <1>6, <1>10
  <2> HIDE DEF v
  <2> QED
    BY <1>9, <1>10, <2>1
<1>12. w \in Server /\ w.queue = q /\ w.peer = servers[s].peer
       /\ w.fin = (u.fin \/ m.kind = "fin")
  BY <1>8, CountedType, CountedFields
<1> HIDE DEF w
<1>13. v \in Server /\ v.queue = q /\ v.pc = pc /\ v.peer = servers[s].peer
       /\ v.count = w.count /\ v.last = w.last /\ v.fin = w.fin /\ v.alien = w.alien
  BY <1>12 DEF Server, Place
<1> HIDE DEF v, q
<1>14. ClientsGrow /\ ThreadsEven /\ SameSource
  BY <1>2, SameClients DEF EvenInv, SameSource
<1>15. /\ \A d \in Stream : Sent(net, d) + Queued(q, d) <= OwnLoad(s, d)
       /\ \A i \in DOMAIN q : q[i] \in Arriving /\ Genuine(q[i])
  BY <1>1, <1>14, LessQueued DEF q
<1>16. /\ OwnLoads /\ ThreadsStay
       /\ DOMAIN servers' = DOMAIN servers /\ servers'[s] = v
       /\ \A t \in DOMAIN servers \ {s} : servers'[t] = servers[t]
  <2>1. \A d \in Stream : /\ Sent(net', d) <= Sent(net, d)
                          /\ Sent(net', d) + Queued(v.queue, d) <= OwnLoad(s, d)
    BY <1>1, <1>13, <1>15, SentIsNat DEF IInv, DatagramShapes
  <2> QED
    BY <1>1, <1>2, <1>6, <1>11, <1>13, <2>1, OneLoad
<1>17. \A t \in DOMAIN servers \ {s} : EvenThread(t)'
  BY <1>14, <1>16, Others
<1>18. EvenThread(s)'
  <2>1. servers[s].peer \in Stream
    <3>1. s \in Serving
      BY <1>1 DEF Serving
    <3> QED
      BY <3>1, PeerOfServing
  <2>2. Spare(s)'
    BY <1>3, <1>16, SpareKept
  <2>3. Stage(servers[s])'
    <3>1. v.fin <=> m.kind = "fin"
      BY <1>4, <1>8, <1>12, <1>13
    <3> QED
      BY <1>2, <1>4, <1>6, <1>13, <1>16, <3>1 DEF Stage
  <2>4. GenuineQueue(s)'
    <3> PICK r : r = q
      OBVIOUS
    <3>1. \A i \in DOMAIN r : Genuine(r[i])'
      BY <1>14, <1>15, GenuineKept
    <3> QED
      BY <1>13, <1>16, <3>1 DEF GenuineQueue
  <2> PICK c \in Stream : c = servers[s].peer
    BY <2>1
  <2>5. /\ Load(s, c) \in Int /\ Load(s, c)' \in Int
        /\ Load(s, c)' + One(m, c) <= Load(s, c)
    <3>1. Load(s, c) = OwnLoad(s, c)
      BY <1>4 DEF Load, OwnLoad, Source
    <3>2. Load(s, c)' = Sent(net, c) + Queued(q, c)
      BY <1>1, <1>2, <1>4, <1>13, <1>16 DEF Load, Source
    <3>3. OwnLoad(s, c) \in Nat
      BY ThreadFacts
    <3> QED
      BY <1>1, <1>5, <3>1, <3>2, <3>3, LoadTaken DEF q
  <2>6. Counts(u, m, servers'[s]) /\ servers'[s].peer = servers[s].peer
    BY <1>8, <1>13, <1>16, CountedFields DEF w, Counts
  <2> PICK old \in Server : old = u
    BY <1>8
  <2> QED
    BY <1>2, <1>3, <1>4, <1>5, <1>8, <1>16, <2>1, <2>2, <2>3, <2>4, <2>5, <2>6, ThreadCounts
<1>19. NetEven' /\ ToldEven'
  BY <1>1, <1>2, <1>14, <1>16, NetKept, ToldKept DEF EvenInv
<1> QED
  BY <1>2, <1>16, <1>17, <1>18, <1>19 DEF EvenInv, OneAccepts, ThreadsEven

--------------------------------------------------------------------------------
(* The listener takes a datagram.                                                *)

LEMMA NothingCounted ==
    ASSUME NEW v \in Server, v.count = 0, v.last = 0, ~v.fin, NEW w \in Nat, NEW p \in Nat,
           NEW t \in Nat, NEW f \in Nat, NEW over, NEW one, w + 1 <= p \/ Wrapped(p, t, over)
    PROVE  EvenRec(v, w, p, t, over, f, one)
BY DEF EvenRec, Largest

(* A datagram that is no FIN, taken from the socket of the listener.             *)
WrappedNow(c) == Wrapped(packetID[c], tries[c], cpc[c] \in Over)
LEMMA TakenFromListener ==
    ASSUME IInv, Plain, EvenInv, servers[listening].queue # <<>>
    PROVE  LET m == NextDatagram(listening) IN
           /\ m \in Arriving /\ m.from \in Stream /\ Genuine(m)
           /\ IsNegative(m) <=> m.kind = "fin"
           /\ ~IsNegative(m) =>
                Sent(net, m.from) + Queued(Tail(servers[listening].queue), m.from) + 1
                  <= packetID[m.from] \/ WrappedNow(m.from)
<1> DEFINE q == servers[listening].queue
<1>1. listening \in DOMAIN servers
  BY DEF IInv, ServerShapes
<1>2. q \in Seq(Arriving) /\ GenuineQueue(listening) /\ Spare(listening)
  BY <1>1, ThreadFacts
<1> PICK m \in Arriving : m = Head(q)
  BY <1>2, HeadAndTail
<1>3. Genuine(m)
  BY <1>2, HeadAndTail DEF GenuineQueue
<1>4. m.from \in Stream
  BY DEF Arriving
<1>5. IsNegative(m) <=> m.kind = "fin"
  BY DEF IsNegative, Plain
<1>6. ASSUME ~IsNegative(m), ~WrappedNow(m.from)
      PROVE  Sent(net, m.from) + Queued(Tail(q), m.from) + 1 <= packetID[m.from]
  <2>1. One(m, m.from) = 1
    BY <1>3, <1>5, <1>6 DEF Genuine, WrappedNow, One, IsData
  <2> PICK c \in Stream : c = m.from
    BY <1>4
  <2>2. Sent(net, c) + Queued(Tail(q), c) + One(m, c) <= OwnLoad(listening, c)
        /\ Sent(net, c) + Queued(Tail(q), c) \in Nat
    BY <1>1, LoadTaken
  <2>3. OwnLoad(listening, c) <= packetID[c] /\ OwnLoad(listening, c) \in Nat
    BY <1>1, <1>2, ThreadFacts DEF Spare
  <2>4. packetID[c] \in Nat
    BY Counters
  <2> DEFINE a == Sent(net, c) + Queued(Tail(q), c)
             b == OwnLoad(listening, c)
  <2>5. a + 1 <= b /\ b <= packetID[c] /\ a \in Nat /\ b \in Nat
    BY <2>1, <2>2, <2>3
  <2> HIDE DEF a, b
  <2>6. a + 1 <= packetID[c]
    BY <2>4, <2>5
  <2> QED
    BY <2>6 DEF a
<1> QED
  BY <1>3, <1>4, <1>5, <1>6 DEF NextDatagram

LEMMA AcceptEven ==
    ASSUME IInv, IInv', Plain, EvenInv, Accept
    PROVE  EvenInv'
<1> DEFINE q == Tail(servers[listening].queue)
           u == [servers[listening] EXCEPT !.queue = q]
<1>1. /\ lpc = "accept" /\ ~run.single /\ servers[listening].queue # <<>>
      /\ UNCHANGED <<run, cpc, packetID, tries, outcome, inbox, copies, net, listening>>
  BY DEF Accept, clientVars, kernelVars, faultVars
<1>2. /\ listening \in DOMAIN servers /\ servers \in Seq(Server)
      /\ servers[listening].pc = "idle" /\ servers[listening] \in Server
  BY <1>1, ListenerFacts
<1>3. Stage(servers[listening]) /\ Spare(listening) /\ servers[listening].queue \in Seq(Arriving)
  BY <1>2, ThreadFacts
<1>4. q \in Seq(Arriving)
  BY <1>1, <1>3, HeadAndTail
<1>5. u \in Server /\ u.queue = q /\ u.pc = "idle" /\ u.peer = servers[listening].peer
      /\ u.count = servers[listening].count /\ u.last = servers[listening].last
      /\ u.fin = servers[listening].fin /\ u.alien = servers[listening].alien
  BY <1>2, <1>4 DEF Server
<1>6. Popped(listening) = [servers EXCEPT ![listening] = u]
  BY DEF Popped
<1>7. OneAccepts'
  BY <1>1 DEF OneAccepts
<1> HIDE DEF u
<1>8. Stage(u)
  BY <1>2, <1>3, <1>5 DEF Stage
<1> PICK m : m = NextDatagram(listening)
  OBVIOUS
<1>9. CASE ~Takes(m)
  <2>1. servers' = [servers EXCEPT ![listening] = u]
    BY <1>6, <1>9 DEF Accept
  <2> QED
    BY <1>1, <1>2, <1>5, <1>7, <1>8, <2>1, ServerQuiet DEF q
<1>10. CASE Takes(m)
  <2> PICK c \in Stream : c = m.from
    BY <1>1, TakenFromListener
  <2> DEFINE v == [u EXCEPT !.peer = c]
  <2>1. servers' = [servers EXCEPT ![listening] = v]
    <3>1. servers' = [Popped(listening) EXCEPT ![listening].peer = c]
      BY <1>10 DEF Accept
    <3>2. Popped(listening)[listening] = u
      BY <1>2, <1>5, <1>6, Replaced
    <3>3. servers' = [Popped(listening) EXCEPT ![listening] = v]
      BY <3>1, <3>2
    <3> QED
      BY <1>2, <1>6, <3>3
  <2>2. v \in Server /\ v.queue = q /\ v.pc = "idle" /\ v.peer = c
        /\ v.count = 0 /\ v.last = 0 /\ ~v.fin
    <3>1. u.count = 0 /\ u.last = 0 /\ ~u.fin
      BY <1>2, <1>3, <1>5 DEF Stage
    <3> QED
      BY <1>5, <3>1 DEF Server
  <2> HIDE DEF v, q
  <2>3. ClientsGrow /\ ThreadsEven /\ SameSource
    BY <1>1, SameClients DEF EvenInv, SameSource
  <2>4. /\ \A d \in Stream : Sent(net, d) + Queued(q, d) <= OwnLoad(listening, d)
        /\ \A i \in DOMAIN q : q[i] \in Arriving /\ Genuine(q[i])
    BY <1>1, <1>2, <2>3, LessQueued DEF q
  <2>5. /\ OwnLoads /\ ThreadsStay
        /\ DOMAIN servers' = DOMAIN servers /\ servers'[listening] = v
        /\ \A t \in DOMAIN servers \ {listening} : servers'[t] = servers[t]
    <3>1. \A d \in Stream : /\ Sent(net', d) <= Sent(net, d)
                            /\ Sent(net', d) + Queued(v.queue, d) <= OwnLoad(listening, d)
      BY <1>1, <2>2, <2>4, SentIsNat DEF IInv, DatagramShapes
    <3> QED
      BY <1>1, <1>2, <2>1, <2>2, <3>1, OneLoad
  <2>6. \A t \in DOMAIN servers \ {listening} : EvenThread(t)'
    BY <2>3, <2>5, Others
  <2>7. EvenThread(listening)'
    <3> PICK l \in DOMAIN servers : l = listening
      BY <1>2
    <3>1. Spare(l)'
      BY <1>3, <2>5, SpareKept
    <3>2. Stage(servers[l])'
      BY <1>1, <2>2, <2>5 DEF Stage
    <3>3. GenuineQueue(l)'
      <4> PICK r : r = q
        OBVIOUS
      <4>1. \A i \in DOMAIN r : Genuine(r[i])'
        BY <2>3, <2>4, GenuineKept
      <4> QED
        BY <2>2, <2>5, <4>1 DEF GenuineQueue
    <3>4. EvenSocket(l)'
      <4>1. Load(l, c)' = Sent(net, c) + Queued(q, c)
        BY <1>1, <2>2, <2>5 DEF Load, Source
      <4>2. Sent(net, c) + Queued(q, c) + 1 <= packetID[c] \/ WrappedNow(c)
        BY <1>1, <1>10, TakenFromListener DEF Takes, q
      <4>3. packetID[c] \in Nat /\ tries[c] \in Nat /\ run.flow \in Nat
            /\ Sent(net, c) + Queued(q, c) \in Nat
        BY <1>1, <1>2, Counters, LoadTaken DEF q
      <4>4. EvenRec(v, Load(l, c)', packetID[c], tries[c], cpc[c] \in Over, run.flow, run.single)
        BY <2>2, <4>1, <4>2, <4>3, NothingCounted DEF WrappedNow
      <4> QED
        BY <1>1, <2>2, <2>5, <4>4 DEF EvenSocket
    <3>5. EvenThread(l)'
      BY <3>1, <3>2, <3>3, <3>4 DEF EvenThread
    <3> QED
      BY <1>1, <3>5
  <2>8. ThreadsEven'
    <3>1. \A t \in DOMAIN servers' : EvenThread(t)'
      BY <1>1, <2>5, <2>6, <2>7
    <3> QED
      BY <3>1 DEF ThreadsEven
  <2>9. NetEven' /\ ToldEven'
    BY <1>1, <2>3, <2>5, NetKept, ToldKept DEF EvenInv
  <2> QED
    BY <1>7, <2>8, <2>9 DEF EvenInv
<1> QED
  BY <1>9, <1>10

--------------------------------------------------------------------------------
(* The rest of the listener.                                                     *)

LEMMA CheckEven ==
    ASSUME IInv, IInv', Plain, EvenInv, Check
    PROVE  EvenInv'
<1>1. /\ lpc = "check" /\ ~run.single
      /\ UNCHANGED <<run, cpc, packetID, tries, outcome, inbox, copies, net, listening>>
  BY DEF Check, clientVars, faultVars, EvenInv, OneAccepts, Plain
<1>2. /\ listening \in DOMAIN servers /\ servers \in Seq(Server)
      /\ servers[listening] \in Server
  BY ListenerFacts
<1>3. OneAccepts'
  BY <1>1 DEF OneAccepts
<1>4. PICK b \in BOOLEAN : servers' = [servers EXCEPT ![listening].open = b]
  <2>1. CASE UNCHANGED servers
    <3>1. servers = [servers EXCEPT ![listening].open = servers[listening].open]
      BY <1>2 DEF Server
    <3>2. servers[listening].open \in BOOLEAN
      BY <1>2 DEF Server
    <3> QED
      BY <2>1, <3>1, <3>2
  <2>2. CASE servers' = [servers EXCEPT ![listening].open = FALSE]
    BY <2>2
  <2> QED
    BY <2>1, <2>2 DEF Check
<1> DEFINE v == [servers[listening] EXCEPT !.open = b]
<1>5. servers' = [servers EXCEPT ![listening] = v]
  BY <1>4
<1>6. v \in Server /\ v.queue = servers[listening].queue /\ v.pc = servers[listening].pc
      /\ v.peer = servers[listening].peer
      /\ v.count = servers[listening].count /\ v.last = servers[listening].last
      /\ v.fin = servers[listening].fin /\ v.alien = servers[listening].alien
  BY <1>2 DEF Server
<1> HIDE DEF v
<1>7. Stage(v)
  <2>1. Stage(servers[listening])
    BY <1>2, ThreadFacts
  <2> QED
    BY <1>6, <2>1 DEF Stage
<1> QED
  BY <1>1, <1>2, <1>3, <1>5, <1>6, <1>7, ServerQuiet

LEMMA StartServerEven ==
    ASSUME IInv, IInv', Plain, EvenInv, StartServer
    PROVE  EvenInv'
<1> DEFINE v == [servers[listening] EXCEPT !.pc = "recv"]
<1>1. /\ lpc = "start" /\ ~run.single /\ servers' = [servers EXCEPT ![listening] = v]
      /\ UNCHANGED <<run, cpc, packetID, tries, outcome, inbox, copies, net, listening>>
  BY DEF StartServer, clientVars, kernelVars, faultVars, EvenInv, OneAccepts
<1>2. /\ listening \in DOMAIN servers /\ servers[listening] \in Server
      /\ servers[listening].pc = "idle" /\ Stage(servers[listening])
  BY <1>1, ListenerFacts, ThreadFacts
<1>3. OneAccepts'
  BY <1>1 DEF OneAccepts
<1>4. v \in Server /\ v.queue = servers[listening].queue /\ v.pc = "recv"
      /\ v.peer = servers[listening].peer
      /\ v.count = servers[listening].count /\ v.last = servers[listening].last
      /\ v.fin = servers[listening].fin /\ v.alien = servers[listening].alien
  BY <1>2 DEF Server, Place
<1> HIDE DEF v
<1>5. Stage(v)
  BY <1>1, <1>2, <1>4 DEF Stage
<1> QED
  BY <1>1, <1>2, <1>3, <1>4, <1>5, ServerQuiet

(* A socket or a report is opened behind those of seq, which stands for the old  *)
(* ones with less in their queues.                                               *)
LEMMA OpenedLoads ==
    ASSUME IInv, IInv', UNCHANGED <<packetID, net>>,
           NEW seq \in Seq(Server), DOMAIN seq = DOMAIN servers, Len(seq) = Len(servers),
           NEW v \in Server, servers' = Append(seq, v),
           \A t \in DOMAIN servers :
             /\ servers[t].pc # "idle" => seq[t].pc # "idle" /\ seq[t].peer = servers[t].peer
             /\ \A c \in Stream : Sent(net, c) + Queued(seq[t].queue, c) <= OwnLoad(t, c)
    PROVE  /\ OwnLoads /\ ThreadsStay
           /\ DOMAIN servers' = DOMAIN servers \cup {Len(servers) + 1}
           /\ servers'[Len(servers) + 1] = v
           /\ \A t \in DOMAIN servers : servers'[t] = seq[t]
<1>1. /\ DOMAIN servers' = DOMAIN servers \cup {Len(servers) + 1}
      /\ servers'[Len(servers) + 1] = v
      /\ \A t \in DOMAIN servers : servers'[t] = seq[t]
  BY Opened
<1>2. ThreadsStay
  BY <1>1 DEF ThreadsStay
<1>3. ASSUME NEW t \in DOMAIN servers, NEW c \in Stream
      PROVE  OwnLoad(t, c)' + packetID[c] <= OwnLoad(t, c) + packetID'[c]
  <2>1. OwnLoad(t, c)' <= OwnLoad(t, c)
    BY <1>1 DEF OwnLoad
  <2>2. OwnLoad(t, c) \in Nat /\ OwnLoad(t, c)' \in Nat
    BY <1>1, QueueFacts, QueueFactsNext DEF IInv
  <2>3. packetID[c] \in Nat /\ packetID'[c] = packetID[c]
    BY Counters
  <2> DEFINE x == OwnLoad(t, c)
             y == OwnLoad(t, c)'
  <2>4. x \in Nat /\ y \in Nat /\ y <= x
    BY <2>1, <2>2
  <2> HIDE DEF x, y
  <2>5. y + packetID[c] <= x + packetID'[c]
    BY <2>3, <2>4
  <2> QED
    BY <2>5 DEF x, y
<1> QED
  BY <1>1, <1>2, <1>3 DEF OwnLoads

LEMMA NewThreadEven ==
    ASSUME IInv, IInv', EvenInv, UNCHANGED <<run, packetID, tries, cpc, net>>,
           NEW n \in DOMAIN servers', servers'[n].queue = <<>>, Stage(servers[n])',
           servers'[n].count = 0, servers'[n].last = 0, ~servers'[n].fin,
           \A c \in Stream : servers'[n].peer = c =>
             Load(n, c)' \in Nat /\ (Load(n, c)' + 1 <= packetID[c] \/ WrappedNow(c))
    PROVE  EvenThread(n)'
<1>1. listening \in DOMAIN servers /\ Spare(listening)
  BY ThreadFacts DEF IInv, ServerShapes
<1>2. servers'[n] \in Server /\ <<>> \in Seq(Arriving)
  BY DEF IInv, ServerShapes
<1>3. Spare(n)'
  <2> SUFFICES ASSUME NEW c \in Stream PROVE OwnLoad(n, c)' <= packetID[c]
    BY DEF Spare
  <2>1. Queued(<<>>, c) = 0
    BY <1>2, QueuedIsNat
  <2>2. Sent(net, c) \in Nat /\ Queued(servers[listening].queue, c) \in Nat
    BY <1>1, QueueFacts DEF IInv
  <2>3. OwnLoad(n, c)' = Sent(net, c)
    BY <2>1, <2>2 DEF OwnLoad
  <2>4. OwnLoad(listening, c) <= packetID[c] /\ packetID[c] \in Nat
    BY <1>1, Counters DEF Spare
  <2> DEFINE a == Queued(servers[listening].queue, c)
             x == Sent(net, c)
  <2>5. x + a <= packetID[c] /\ x \in Nat /\ a \in Nat
    BY <2>2, <2>4 DEF OwnLoad
  <2> HIDE DEF a, x
  <2>6. x <= packetID[c]
    BY <2>4, <2>5
  <2> QED
    BY <2>3, <2>6 DEF x
<1>4. GenuineQueue(n)'
  <2>1. DOMAIN servers'[n].queue = {}
    OBVIOUS
  <2> QED
    BY <2>1 DEF GenuineQueue
<1>5. ASSUME NEW c \in Stream, servers'[n].peer = c
      PROVE  EvenRec(servers'[n], Load(n, c)', packetID[c], tries[c],
                     cpc[c] \in Over, run.flow, run.single)
  <2>1. packetID[c] \in Nat /\ tries[c] \in Nat /\ run.flow \in Nat
    BY Counters
  <2>2. Load(n, c)' \in Nat /\ (Load(n, c)' + 1 <= packetID[c] \/ WrappedNow(c))
    BY <1>5
  <2> QED
    BY <1>2, <2>1, <2>2, NothingCounted DEF WrappedNow
<1>6. EvenSocket(n)'
  <2>1. CASE servers'[n].peer = NobodyPeer
    BY <2>1 DEF EvenSocket
  <2>2. CASE servers'[n].peer # NobodyPeer
    <3> PICK c \in Stream : c = servers'[n].peer
      BY <1>2, <2>2 DEF Server
    <3> QED
      BY <1>5 DEF EvenSocket
  <2> QED
    BY <2>1, <2>2
<1> QED
  BY <1>3, <1>4, <1>6 DEF EvenThread

LEMMA ListenEven ==
    ASSUME IInv, IInv', Plain, EvenInv, Listen
    PROVE  EvenInv'
<1> DEFINE v == [Socket EXCEPT !.open = MoreClients(mClients')]
<1>1. /\ ~run.single /\ servers' = Append(servers, v)
      /\ UNCHANGED <<run, cpc, packetID, tries, outcome, inbox, copies, net>>
  BY DEF Listen, clientVars, kernelVars, faultVars, EvenInv, OneAccepts
<1>2. v \in Server /\ v.queue = <<>> /\ v.pc = "idle" /\ v.peer = NobodyPeer
      /\ v.count = 0 /\ v.last = 0 /\ ~v.fin
  <2>1. v \in Server
    BY MoreClientsIsBoolean, NewSocketMayBeShut
  <2> QED
    BY <2>1 DEF Socket
<1> HIDE DEF v
<1> DEFINE n == Len(servers) + 1
<1>3. servers \in Seq(Server)
  BY ListenerFacts
<1>4. ClientsGrow /\ ThreadsEven /\ SameSource
  BY <1>1, SameClients DEF EvenInv, SameSource
<1>5. /\ OwnLoads /\ ThreadsStay
      /\ DOMAIN servers' = DOMAIN servers \cup {n} /\ servers'[n] = v
      /\ \A t \in DOMAIN servers : servers'[t] = servers[t]
  <2>1. \A t \in DOMAIN servers, c \in Stream :
          Sent(net, c) + Queued(servers[t].queue, c) <= OwnLoad(t, c)
    BY <1>4, LessQueued
  <2> QED
    BY <1>1, <1>2, <1>3, <2>1, OpenedLoads
<1>6. \A t \in DOMAIN servers : EvenThread(t)'
  BY <1>4, <1>5, Others
<1> HIDE DEF n
<1> PICK k \in DOMAIN servers' : k = n
  BY <1>5
<1>7. EvenThread(k)'
  <2>1. Stage(servers[k])'
    BY <1>1, <1>2, <1>5 DEF Stage
  <2>2. \A c \in Stream : servers'[k].peer # c
    BY <1>2, <1>5, PeerAssumption
  <2> QED
    BY <1>1, <1>2, <1>5, <2>1, <2>2, NewThreadEven
<1>8. ThreadsEven'
  BY <1>5, <1>6, <1>7 DEF ThreadsEven
<1>9. NetEven' /\ ToldEven'
  BY <1>1, <1>4, <1>5, NetKept, ToldKept DEF EvenInv
<1>10. OneAccepts'
  BY <1>1 DEF OneAccepts
<1> QED
  BY <1>8, <1>9, <1>10 DEF EvenInv

--------------------------------------------------------------------------------
(* One socket for all streams.                                                   *)
(* The listener's socket loses its oldest datagram.                              *)
LEMMA PoppedSockets ==
    ASSUME IInv, NEW m, Taking(m)
    PROVE  LET u == [servers[listening] EXCEPT !.queue = Tail(@)] IN
           /\ u \in Server /\ u.queue = Tail(servers[listening].queue)
           /\ u.pc = servers[listening].pc /\ u.peer = servers[listening].peer
           /\ u.count = servers[listening].count /\ u.last = servers[listening].last
           /\ u.fin = servers[listening].fin /\ u.alien = servers[listening].alien
           /\ Popped(listening) = [servers EXCEPT ![listening] = u]
           /\ Popped(listening)[listening] = u
           /\ \A t \in DOMAIN servers \ {listening} : Popped(listening)[t] = servers[t]
           /\ Popped(listening) \in Seq(Server)
           /\ DOMAIN Popped(listening) = DOMAIN servers
           /\ Len(Popped(listening)) = Len(servers)
<1> DEFINE u == [servers[listening] EXCEPT !.queue = Tail(@)]
<1>1. /\ servers[listening].queue # <<>> /\ listening \in DOMAIN servers
      /\ servers \in Seq(Server) /\ servers[listening] \in Server
  BY ListenerFacts DEF Taking
<1>2. servers[listening].queue \in Seq(Arriving)
  BY <1>1 DEF Server
<1>3. Tail(servers[listening].queue) \in Seq(Arriving)
  BY <1>1, <1>2, HeadAndTail
<1>4. /\ u \in Server /\ u.queue = Tail(servers[listening].queue)
      /\ u.pc = servers[listening].pc /\ u.peer = servers[listening].peer
      /\ u.count = servers[listening].count /\ u.last = servers[listening].last
      /\ u.fin = servers[listening].fin /\ u.alien = servers[listening].alien
  BY <1>1, <1>3 DEF Server
<1>5. Popped(listening) = [servers EXCEPT ![listening] = u]
  BY DEF Popped
<1> HIDE DEF u
<1>6. /\ Popped(listening)[listening] = u
      /\ \A t \in DOMAIN servers \ {listening} : Popped(listening)[t] = servers[t]
      /\ Popped(listening) \in Seq(Server)
      /\ DOMAIN Popped(listening) = DOMAIN servers
      /\ Len(Popped(listening)) = Len(servers)
  BY <1>1, <1>4, <1>5, Replaced
<1> QED
  BY <1>4, <1>5, <1>6 DEF u

LEMMA PoppedLoads ==
    ASSUME IInv, EvenInv, NEW m, Taking(m), NEW t \in DOMAIN servers
    PROVE  /\ \A c \in Stream : Sent(net, c) + Queued(Popped(listening)[t].queue, c) <= OwnLoad(t, c)
           /\ \A i \in DOMAIN Popped(listening)[t].queue :
                /\ Popped(listening)[t].queue[i] \in Arriving
                /\ Genuine(Popped(listening)[t].queue[i])
<1>1. /\ servers[listening].queue # <<>> /\ listening \in DOMAIN servers
      /\ ThreadsEven
  BY ListenerFacts DEF Taking, EvenInv
<1> DEFINE q == Popped(listening)[t].queue
<1>2. q = servers[t].queue \/ (servers[t].queue # <<>> /\ q = Tail(servers[t].queue))
  BY <1>1, PoppedSockets
<1> QED
  BY <1>1, <1>2, LessQueued

(* Record v takes the place of that of thread s, which has counted m.            *)
Counting(m, s, v) ==
    /\ servers[s].peer = m.from /\ v \in Server
    /\ Counts(servers[s], m, v)
    /\ v.peer = m.from /\ v.pc # "idle" /\ v.queue = servers[s].queue /\ Stage(v)
    /\ servers' = [Popped(listening) EXCEPT ![s] = v]
    /\ UNCHANGED <<run, copies, cpc, packetID, tries, listening>>
    /\ \A c \in Stream : Sent(net', c) = Sent(net, c)

LEMMA SingleCounts ==
    ASSUME IInv, IInv', Plain, EvenInv, NEW m, Taking(m), NEW s \in Serving,
           NEW v, Counting(m, s, v)
    PROVE  /\ ThreadsEven' /\ ThreadsStay /\ ClientsGrow
           /\ s \in DOMAIN servers' /\ servers'[s] = v /\ EvenSocket(s)' /\ Load(s, m.from)' \in Nat
<1> USE DEF Counting
<1>1. /\ lpc = "accept" /\ run.single /\ servers[listening].queue # <<>>
      /\ m = Head(servers[listening].queue) /\ m \in Arriving /\ m.from \in Stream
      /\ listening \in DOMAIN servers /\ servers[listening].pc = "idle" /\ listening \notin Serving
  BY TakingFacts, ListenerFacts DEF Taking, NextDatagram
<1>2. s \in DOMAIN servers /\ s # listening
  BY <1>1 DEF Serving
<1> DEFINE u == [servers[listening] EXCEPT !.queue = Tail(@)]
<1>3. /\ Popped(listening)[listening] = u
      /\ u.queue = Tail(servers[listening].queue)
      /\ u.pc = servers[listening].pc /\ u.peer = servers[listening].peer
      /\ u.count = servers[listening].count /\ u.last = servers[listening].last
      /\ u.fin = servers[listening].fin /\ u.alien = servers[listening].alien
      /\ \A t \in DOMAIN servers \ {listening} : Popped(listening)[t] = servers[t]
      /\ Popped(listening) \in Seq(Server) /\ DOMAIN Popped(listening) = DOMAIN servers
  BY PoppedSockets
<1> HIDE DEF u
<1>4. /\ DOMAIN servers' = DOMAIN servers /\ servers'[s] = v /\ servers'[listening] = u
      /\ \A t \in DOMAIN servers \ {s, listening} : servers'[t] = servers[t]
      /\ \A t \in DOMAIN servers : servers'[t].queue = Popped(listening)[t].queue
  <2>1. /\ DOMAIN servers' = DOMAIN servers /\ servers'[s] = v
        /\ \A t \in DOMAIN servers \ {s} : servers'[t] = Popped(listening)[t]
    BY <1>2, <1>3, Replaced
  <2> QED
    BY <1>1, <1>2, <1>3, <2>1
<1>5. ClientsGrow /\ ThreadsEven /\ SameSource
  BY SameClients DEF EvenInv, SameSource
<1>6. ThreadsStay
  BY <1>1, <1>2, <1>3, <1>4 DEF ThreadsStay, Serving
<1>7. OwnLoads
  <2> SUFFICES ASSUME NEW t \in DOMAIN servers, NEW c \in Stream
               PROVE  OwnLoad(t, c)' + packetID[c] <= OwnLoad(t, c) + packetID'[c]
    BY DEF OwnLoads
  <2>1. OwnLoad(t, c)' <= OwnLoad(t, c)
    <3>1. Sent(net, c) + Queued(Popped(listening)[t].queue, c) <= OwnLoad(t, c)
      BY PoppedLoads
    <3>2. OwnLoad(t, c)' = Sent(net, c) + Queued(Popped(listening)[t].queue, c)
      BY <1>4 DEF OwnLoad
    <3> QED
      BY <3>1, <3>2
  <2>2. OwnLoad(t, c) \in Nat /\ OwnLoad(t, c)' \in Nat
    BY <1>4, QueueFacts, QueueFactsNext DEF IInv
  <2>3. packetID[c] \in Nat /\ packetID'[c] = packetID[c]
    BY Counters
  <2> DEFINE x == OwnLoad(t, c)
             y == OwnLoad(t, c)'
  <2>4. x \in Nat /\ y \in Nat /\ y <= x
    BY <2>1, <2>2
  <2> HIDE DEF x, y
  <2>5. y + packetID[c] <= x + packetID'[c]
    BY <2>3, <2>4
  <2> QED
    BY <2>5 DEF x, y
<1>8. \A t \in DOMAIN servers \ {s, listening} : EvenThread(t)'
  BY <1>4, <1>5, <1>6, <1>7, Others
<1>9. \A t \in DOMAIN servers : GenuineQueue(t)'
  <2> SUFFICES ASSUME NEW t \in DOMAIN servers PROVE GenuineQueue(t)'
    OBVIOUS
  <2> PICK r : r = Popped(listening)[t].queue
    OBVIOUS
  <2>1. \A i \in DOMAIN r : r[i] \in Arriving /\ Genuine(r[i])
    BY PoppedLoads
  <2>2. \A i \in DOMAIN r : Genuine(r[i])'
    BY <1>5, <2>1, GenuineKept
  <2> QED
    BY <1>4, <2>2 DEF GenuineQueue
<1> PICK l \in DOMAIN servers : l = listening
  BY <1>1
<1>10. EvenThread(l)'
  <2>1. EvenThread(l) /\ Stage(servers[l])
    BY ThreadFacts
  <2>2. Stage(servers[l])'
    BY <1>3, <1>4, <2>1 DEF Stage
  <2> QED
    BY <1>3, <1>4, <1>5, <1>6, <1>7, <1>9, <2>1, <2>2, ThreadKept
<1> PICK c \in Stream : c = m.from
  BY <1>1
<1>11. Load(s, c) = OwnLoad(l, c) /\ Load(s, c)' = Sent(net, c) + Queued(Tail(servers[l].queue), c)
       /\ Load(s, c) \in Nat /\ Load(s, c)' \in Nat /\ Load(s, c)' + One(m, c) <= Load(s, c)
  <2>1. Load(s, c) = OwnLoad(l, c)
    BY <1>1 DEF Load, OwnLoad, Source
  <2>2. Load(s, c)' = Sent(net, c) + Queued(Tail(servers[l].queue), c)
    BY <1>1, <1>3, <1>4 DEF Load, Source
  <2>3. OwnLoad(l, c) \in Nat
    BY ThreadFacts
  <2> QED
    BY <1>1, <2>1, <2>2, <2>3, LoadTaken
<1>12. EvenThread(s)'
  <2>1. EvenThread(s) /\ Stage(servers[s]) /\ Spare(s) /\ servers[s] \in Server
    BY <1>2, ThreadFacts
  <2>2. ~servers[s].fin
    BY <1>1, <2>1 DEF Stage, Serving
  <2>3. Spare(s)'
    BY <1>2, <1>4, <1>7, <2>1, SpareKept
  <2>4. Stage(servers[s])'
    BY <1>4 DEF Stage
  <2>5. Genuine(m)
    BY <1>1, TakenFromListener DEF NextDatagram
  <2>6. GenuineQueue(s)'
    BY <1>2, <1>9
  <2> PICK old \in Server : old = servers[s]
    BY <2>1
  <2>7. Counts(old, m, servers'[s]) /\ servers'[s].peer = servers[s].peer
    BY <1>4
  <2>8. /\ Load(s, servers[s].peer) \in Int /\ Load(s, c)' \in Int
        /\ Load(s, c)' + One(m, servers[s].peer) <= Load(s, servers[s].peer)
        /\ servers[s].peer = c
    BY <1>11
  <2> QED
    BY <1>1, <1>2, <1>4, <1>6, <1>11, <2>1, <2>2, <2>3, <2>4, <2>5, <2>6, <2>7, <2>8,
       ThreadCounts
<1>13. ThreadsEven'
  BY <1>4, <1>8, <1>10, <1>12 DEF ThreadsEven
<1>14. EvenSocket(s)'
  BY <1>12 DEF EvenThread
<1>15. Load(s, m.from)' \in Nat
  <2>1. Load(s, m.from)' = Load(s, c)'
    BY DEF Load
  <2> QED
    BY <1>11, <2>1
<1> QED
  BY <1>2, <1>4, <1>5, <1>6, <1>13, <1>14, <1>15

LEMMA SingleDataEven ==
    ASSUME IInv, IInv', Plain, EvenInv, NEW m, SingleData(m)
    PROVE  EvenInv'
<1>1. /\ Taking(m) /\ ~IsNegative(m) /\ Iperf_present(m.from)
      /\ UNCHANGED <<run, cpc, packetID, tries, outcome, inbox, copies, net, listening, lpc>>
  BY DEF SingleData, SingleOnly, clientVars, faultVars
<1>2. /\ m \in Arriving /\ m.kind # "fin" /\ run.single /\ listening \notin Serving
  BY <1>1, TakingFacts, TakenFromListener, ListenerFacts DEF Taking
<1> PICK s \in Serving : s = clients[PlaceOf(m.from)].server
  BY <1>1, EntryOfPeer
<1>3. s \in DOMAIN servers /\ servers[s].peer = m.from /\ s # listening
  BY <1>1, <1>2, EntryOfPeer
<1>4. servers[s] \in Server /\ Stage(servers[s])
  BY <1>3, ThreadFacts
<1>5. servers[s].pc = "report" /\ ~servers[s].fin
  BY <1>2, <1>4 DEF Stage, Serving
<1> PICK v : v = Counted(servers[s], m)
  OBVIOUS
<1>6. servers' = [Popped(listening) EXCEPT ![s] = v]
  <2>1. servers' = [Popped(listening) EXCEPT ![s] = Counted(@, m)]
    BY DEF SingleData
  <2>2. Popped(listening)[s] = servers[s] /\ DOMAIN Popped(listening) = DOMAIN servers
    BY <1>1, <1>3, PoppedSockets
  <2> QED
    BY <1>3, <2>1, <2>2
<1>7. v \in Server /\ v.pc = "report" /\ v.peer = m.from /\ v.queue = servers[s].queue /\ ~v.fin
  BY <1>2, <1>3, <1>4, <1>5, CountedType, CountedFields
<1>8. Stage(v)
  BY <1>2, <1>7 DEF Stage
<1>9. ThreadsEven' /\ ThreadsStay /\ ClientsGrow
  <2>1. Counts(servers[s], m, v)
    BY <1>2, <1>4, CountedFields DEF Counts
  <2>2. Counting(m, s, v)
    BY <1>1, <1>3, <1>6, <1>7, <1>8, <2>1 DEF Counting
  <2> QED
    BY <1>1, <2>2, SingleCounts
<1>10. NetEven' /\ ToldEven'
  BY <1>1, <1>9, NetKept, ToldKept DEF EvenInv
<1> QED
  BY <1>1, <1>9, <1>10 DEF EvenInv, OneAccepts

LEMMA SingleFINEven ==
    ASSUME IInv, IInv', Plain, EvenInv, NEW m, SingleFIN(m)
    PROVE  EvenInv'
<1>1. /\ Taking(m) /\ IsNegative(m)
      /\ UNCHANGED <<run, cpc, packetID, tries, outcome, inbox, copies, listening, lpc>>
  BY DEF SingleFIN, SingleOnly, clientVars, faultVars
<1>2. /\ m \in Arriving /\ m.from \in Stream /\ m.kind = "fin" /\ run.single
      /\ listening \notin Serving /\ listening \in DOMAIN servers
      /\ servers[listening] \in Server
  BY <1>1, TakingFacts, TakenFromListener, ListenerFacts DEF Taking
<1> PICK c \in Stream : c = m.from
  BY <1>2
<1>3. OneAccepts'
  BY <1>1 DEF EvenInv, OneAccepts
<1>4. CASE ~Iperf_present(m.from)
  <2> PICK n : n = Reply(m.from, "nothing", listening)
    OBVIOUS
  <2>1. servers' = Popped(listening) /\ net' = net \cup {n}
    BY <1>4 DEF SingleFIN
  <2>2. n \in Answer /\ n.to = c /\ n.to # "server" /\ n.kind = "nothing"
    BY <1>2, ListenerFacts, PeerAssumption DEF Reply, Answer
  <2>3. MessageEven(n)'
    BY <2>2 DEF MessageEven, Fine
  <2> DEFINE u == [servers[listening] EXCEPT !.queue = Tail(@)]
  <2>4. /\ u \in Server /\ u.queue = Tail(servers[listening].queue)
        /\ u.pc = servers[listening].pc /\ u.peer = servers[listening].peer
        /\ u.count = servers[listening].count /\ u.last = servers[listening].last
        /\ u.fin = servers[listening].fin /\ u.alien = servers[listening].alien
        /\ Popped(listening)[listening] = u
        /\ servers' = [servers EXCEPT ![listening] = u]
    BY <1>1, <2>1, PoppedSockets
  <2> HIDE DEF u
  <2>5. Stage(u)
    <3>1. Stage(servers[listening])
      BY <1>2, ThreadFacts
    <3> QED
      BY <2>4, <3>1 DEF Stage
  <2>6. ClientsGrow /\ ThreadsEven
    BY <1>1, SameClients DEF EvenInv
  <2>7. \A d \in Stream : Sent(net', d) = Sent(net, d)
    BY <2>1, <2>2, MoreSent
  <2>8. /\ \A d \in Stream : /\ Sent(net', d) <= Sent(net, d)
                             /\ Sent(net', d) + Queued(u.queue, d) <= OwnLoad(listening, d)
        /\ \A i \in DOMAIN u.queue : u.queue[i] \in Arriving /\ Genuine(u.queue[i])
    <3>1. /\ \A d \in Stream : Sent(net, d) + Queued(u.queue, d) <= OwnLoad(listening, d)
          /\ \A i \in DOMAIN u.queue : u.queue[i] \in Arriving /\ Genuine(u.queue[i])
      BY <1>1, <1>2, <2>4, PoppedLoads
    <3> QED
      BY <2>7, <3>1, SentIsNat DEF IInv, DatagramShapes
  <2>9. ThreadsEven' /\ ThreadsStay
    BY <1>1, <1>2, <2>4, <2>5, <2>6, <2>8, GoesOn
  <2>10. NetEven' /\ ToldEven'
    BY <1>1, <2>1, <2>3, <2>6, <2>9, NetKept, ToldKept DEF EvenInv
  <2> QED
    BY <1>3, <2>9, <2>10 DEF EvenInv
<1>5. CASE Iperf_present(m.from)
  <2> PICK s \in Serving : s = clients[PlaceOf(m.from)].server
    BY <1>5, EntryOfPeer
  <2>1. s \in DOMAIN servers /\ servers[s].peer = c /\ s # listening
    BY <1>2, <1>5, EntryOfPeer
  <2>2. servers[s] \in Server /\ Stage(servers[s])
    BY <2>1, ThreadFacts
  <2> PICK k \in Negated(m) :
        LET w == CountedAs(servers[s], m, k) IN
        /\ servers' = [Popped(listening) EXCEPT ![s] = [w EXCEPT !.pc = "gone"]]
        /\ net' = net \cup {Totals(m.from, s, w)}
    BY <1>5 DEF SingleFIN
  <2> PICK w : w = CountedAs(servers[s], m, k)
    OBVIOUS
  <2>3. w \in Server /\ w.peer = c /\ w.queue = servers[s].queue /\ w.fin
        /\ Counts(servers[s], m, w)
    <3>1. w \in Server /\ w.peer = c /\ w.queue = servers[s].queue
      BY <1>2, <2>1, <2>2, CountedAsType
    <3>2. Counts(servers[s], m, w)
      BY <1>2, <2>1, <2>2, CountedAsCounts
    <3> QED
      BY <1>2, <3>1, <3>2, Zenon DEF Counts
  <2> PICK n : n = Totals(c, s, w)
    OBVIOUS
  <2> PICK v : v = [w EXCEPT !.pc = "gone"]
    OBVIOUS
  <2>4. servers' = [Popped(listening) EXCEPT ![s] = v] /\ net' = net \cup {n}
    OBVIOUS
  <2>5. v \in Server /\ v.pc = "gone" /\ v.peer = c /\ v.queue = servers[s].queue
        /\ v.count = w.count /\ v.last = w.last /\ v.fin = w.fin /\ v.alien = w.alien
    BY <2>3 DEF Server, Place
  <2>6. Stage(v)
    BY <1>2, <2>3, <2>5 DEF Stage
  <2>7. n.to # "server"
    BY PeerAssumption DEF Totals
  <2>8. \A d \in Stream : Sent(net', d) = Sent(net, d)
    BY <2>4, <2>7, MoreSent
  <2>9. /\ ThreadsEven' /\ ThreadsStay /\ ClientsGrow
        /\ s \in DOMAIN servers' /\ servers'[s] = v /\ EvenSocket(s)' /\ Load(s, c)' \in Nat
    <3>1. Counting(m, s, v)
      BY <1>1, <2>1, <2>3, <2>4, <2>5, <2>6, <2>8 DEF Counting, Counts
    <3>2. /\ ThreadsEven' /\ ThreadsStay /\ ClientsGrow
          /\ s \in DOMAIN servers' /\ servers'[s] = v /\ EvenSocket(s)'
          /\ Load(s, m.from)' \in Nat
      BY <1>1, <3>1, SingleCounts
    <3>3. Load(s, m.from)' = Load(s, c)'
      BY DEF Load
    <3> QED
      BY <3>2, <3>3
  <2>10. MessageEven(n)'
    <3> PICK r \in Nat : r = Load(s, c)'
      BY <2>9
    <3>1. ~v.alien => EvenRec(v, r, packetID[c], tries[c], cpc[c] \in Over, run.flow, run.single)
      <4>1. c # NobodyPeer
        BY PeerAssumption
      <4> QED
        BY <1>1, <2>5, <2>9, <4>1 DEF EvenSocket
    <3>2. ~w.alien => EvenRec(w, r, packetID[c], tries[c], cpc[c] \in Over, run.flow, run.single)
      BY <2>5, <3>1 DEF EvenRec
    <3>3. s \in Nat /\ w.acks \in Nat
      <4>1. s \in Nat
        BY <2>1, ListenerFacts
      <4>2. w.acks \in Nat
        BY <2>3 DEF Server
      <4> QED
        BY <4>1, <4>2
    <3> QED
      BY <1>1, <2>3, <2>5, <2>9, <3>2, <3>3, TotalsEven
  <2>11. NetEven' /\ ToldEven'
    BY <1>1, <2>4, <2>9, <2>10, NetKept, ToldKept DEF EvenInv
  <2> QED
    BY <1>3, <2>9, <2>11 DEF EvenInv
<1> QED
  BY <1>4, <1>5

(* Record v comes behind those of seq, which differ from the old ones in their   *)
(* queues only.                                                                  *)
Opening(seq, v) ==
    /\ seq \in Seq(Server) /\ DOMAIN seq = DOMAIN servers /\ Len(seq) = Len(servers)
    /\ v \in Server /\ servers' = Append(seq, v)
    /\ v.queue = <<>> /\ v.count = 0 /\ v.last = 0 /\ ~v.fin /\ Stage(v)
    /\ \A t \in DOMAIN servers :
         /\ seq[t].pc = servers[t].pc /\ seq[t].peer = servers[t].peer
         /\ seq[t].count = servers[t].count /\ seq[t].last = servers[t].last
         /\ seq[t].fin = servers[t].fin /\ seq[t].alien = servers[t].alien
         /\ \A c \in Stream : Sent(net, c) + Queued(seq[t].queue, c) <= OwnLoad(t, c)
         /\ \A i \in DOMAIN seq[t].queue : /\ seq[t].queue[i] \in Arriving
                                           /\ Genuine(seq[t].queue[i])
    /\ UNCHANGED <<run, copies, cpc, packetID, tries, inbox, outcome, net>>

LEMMA SingleOpens ==
    ASSUME IInv, IInv', Plain, EvenInv, NEW seq, NEW v, Opening(seq, v), SameSource,
           NEW n \in Nat, n = Len(servers) + 1,
           \A c \in Stream : v.peer = c =>
             Load(n, c)' \in Nat /\ (Load(n, c)' + 1 <= packetID[c] \/ WrappedNow(c)),
           OneAccepts'
    PROVE  EvenInv'
<1> USE DEF Opening
<1>1. ClientsGrow /\ ThreadsEven
  BY SameClients DEF EvenInv
<1>2. /\ OwnLoads /\ ThreadsStay
      /\ DOMAIN servers' = DOMAIN servers \cup {n} /\ servers'[n] = v
      /\ \A t \in DOMAIN servers : servers'[t] = seq[t]
  BY OpenedLoads
<1>3. ASSUME NEW t \in DOMAIN servers PROVE EvenThread(t)'
  <2>1. EvenThread(t) /\ Stage(servers[t])
    BY ThreadFacts
  <2>2. servers'[t] = seq[t]
    BY <1>2
  <2>3. /\ servers'[t].pc = servers[t].pc /\ servers'[t].peer = servers[t].peer
        /\ servers'[t].count = servers[t].count /\ servers'[t].last = servers[t].last
        /\ servers'[t].fin = servers[t].fin /\ servers'[t].alien = servers[t].alien
    BY <2>2
  <2>4. Stage(servers[t])'
    BY <2>1, <2>3 DEF Stage
  <2>5. GenuineQueue(t)'
    <3> PICK r : r = seq[t].queue
      OBVIOUS
    <3>1. \A i \in DOMAIN r : r[i] \in Arriving /\ Genuine(r[i])
      OBVIOUS
    <3>2. \A i \in DOMAIN r : Genuine(r[i])'
      BY <1>1, <3>1, GenuineKept
    <3> QED
      BY <2>2, <3>2 DEF GenuineQueue
  <2> QED
    BY <1>1, <1>2, <2>1, <2>3, <2>4, <2>5, ThreadKept
<1> PICK k \in DOMAIN servers' : k = n
  BY <1>2
<1>4. EvenThread(k)'
  <2>1. Stage(servers[k])'
    BY <1>2 DEF Stage
  <2>2. \A c \in Stream : servers'[k].peer = c =>
          Load(k, c)' \in Nat /\ (Load(k, c)' + 1 <= packetID[c] \/ WrappedNow(c))
    <3> SUFFICES ASSUME NEW c \in Stream, servers'[k].peer = c
                 PROVE  /\ Load(k, c)' \in Nat
                        /\ Load(k, c)' + 1 <= packetID[c] \/ WrappedNow(c)
      OBVIOUS
    <3>1. Load(k, c)' = Load(n, c)'
      BY DEF Load
    <3>2. v.peer = c
      BY <1>2
    <3> QED
      BY <3>1, <3>2
  <2>3. /\ servers'[k].queue = <<>> /\ servers'[k].count = 0 /\ servers'[k].last = 0
        /\ ~servers'[k].fin
    BY <1>2
  <2> QED
    BY <2>1, <2>2, <2>3, NewThreadEven
<1>5. ThreadsEven'
  BY <1>2, <1>3, <1>4 DEF ThreadsEven
<1>6. NetEven' /\ ToldEven'
  BY <1>1, <1>2, NetKept, ToldKept DEF EvenInv
<1> QED
  BY <1>5, <1>6 DEF EvenInv

LEMMA SingleNewEven ==
    ASSUME IInv, IInv', Plain, EvenInv, NEW m, SingleNew(m)
    PROVE  EvenInv'
<1>1. /\ Taking(m) /\ ~IsNegative(m) /\ run.single
      /\ servers[listening].queue # <<>> /\ m = NextDatagram(listening)
      /\ UNCHANGED <<run, cpc, packetID, tries, outcome, inbox, copies, net>>
  BY DEF SingleNew, Taking, clientVars, kernelVars, faultVars
<1>2. /\ listening \in DOMAIN servers /\ servers \in Seq(Server)
      /\ servers[listening] \in Server
  BY ListenerFacts
<1> PICK c \in Stream : c = m.from
  BY <1>1, TakenFromListener
<1> PICK n \in Nat : n = Len(servers) + 1
  BY <1>2
<1>3. n \notin DOMAIN servers
  BY <1>2
<1>4. OneAccepts'
  BY <1>1 DEF SingleNew, EvenInv, OneAccepts
<1>5. ThreadsEven
  BY DEF EvenInv
<1>6. CASE Admitted(m.from)
  <2> PICK v : v = [Socket EXCEPT !.open = FALSE, !.peer = m.from, !.pc = "report"]
    OBVIOUS
  <2> PICK seq : seq = Popped(listening)
    OBVIOUS
  <2>1. servers' = Append(seq, v) /\ listening' = listening
    BY <1>6 DEF SingleNew
  <2>2. v \in Server /\ v.queue = <<>> /\ v.pc = "report" /\ v.peer = c
        /\ v.count = 0 /\ v.last = 0 /\ ~v.fin
    BY NewSocket DEF Socket, Server, Place
  <2>3. Stage(v)
    BY <1>1, <2>2 DEF Stage
  <2>4. Opening(seq, v)
    <3>1. seq \in Seq(Server) /\ DOMAIN seq = DOMAIN servers /\ Len(seq) = Len(servers)
      BY <1>1, PoppedSockets
    <3>2. ASSUME NEW t \in DOMAIN servers
          PROVE  /\ seq[t].pc = servers[t].pc /\ seq[t].peer = servers[t].peer
                 /\ seq[t].count = servers[t].count /\ seq[t].last = servers[t].last
                 /\ seq[t].fin = servers[t].fin /\ seq[t].alien = servers[t].alien
      <4>1. CASE t = listening
        BY <1>1, <4>1, PoppedSockets
      <4>2. CASE t # listening
        <5>1. seq[t] = servers[t]
          BY <1>1, <4>2, PoppedSockets
        <5> QED
          BY <5>1
      <4> QED
        BY <4>1, <4>2
    <3>3. ASSUME NEW t \in DOMAIN servers
          PROVE  /\ \A d \in Stream : Sent(net, d) + Queued(seq[t].queue, d) <= OwnLoad(t, d)
                 /\ \A i \in DOMAIN seq[t].queue : /\ seq[t].queue[i] \in Arriving
                                                   /\ Genuine(seq[t].queue[i])
      BY <1>1, PoppedLoads
    <3> QED
      BY <1>1, <2>1, <2>2, <2>3, <3>1, <3>2, <3>3 DEF Opening
  <2>5. SameSource
    BY <2>1 DEF SameSource
  <2>6. Load(n, c)' \in Nat /\ (Load(n, c)' + 1 <= packetID[c] \/ WrappedNow(c))
    <3>1. servers'[listening].queue = Tail(servers[listening].queue)
      <4>1. servers'[listening] = seq[listening]
        BY <1>2, <2>1, <2>4, Opened DEF Opening
      <4>2. seq[listening].queue = Tail(servers[listening].queue)
        BY <1>1, PoppedSockets
      <4> QED
        BY <4>1, <4>2
    <3> PICK q \in Seq(Arriving) : q = Tail(servers[listening].queue)
      <4>1. servers[listening].queue \in Seq(Arriving)
        BY <1>2 DEF Server
      <4> QED
        BY <1>1, <4>1, HeadAndTail
    <3>2. Load(n, c)' = Sent(net, c) + Queued(q, c)
      BY <1>1, <2>1, <3>1 DEF Load, Source
    <3>3. Sent(net, c) + Queued(q, c) + 1 <= packetID[c] \/ WrappedNow(c)
      BY <1>1, TakenFromListener
    <3>4. Sent(net, c) + Queued(q, c) \in Nat
      BY <1>1, <1>2, LoadTaken
    <3> QED
      BY <3>2, <3>3, <3>4
  <2>7. \A d \in Stream : v.peer = d =>
          Load(n, d)' \in Nat /\ (Load(n, d)' + 1 <= packetID[d] \/ WrappedNow(d))
    BY <2>2, <2>6
  <2> QED
    BY <1>4, <2>4, <2>5, <2>7, SingleOpens
<1>7. CASE ~Admitted(m.from)
  <2> PICK u : u = [servers[listening] EXCEPT !.open = FALSE]
    OBVIOUS
  <2> PICK seq : seq = [servers EXCEPT ![listening] = u]
    OBVIOUS
  <2>1. servers' = Append(seq, Socket) /\ listening' = n
    BY <1>7 DEF SingleNew
  <2>2. u \in Server /\ u.queue = servers[listening].queue /\ u.pc = servers[listening].pc
        /\ u.peer = servers[listening].peer /\ u.count = servers[listening].count
        /\ u.last = servers[listening].last
        /\ u.fin = servers[listening].fin /\ u.alien = servers[listening].alien
    BY <1>2 DEF Server
  <2>3. seq \in Seq(Server) /\ DOMAIN seq = DOMAIN servers /\ Len(seq) = Len(servers)
        /\ seq[listening] = u
        /\ \A t \in DOMAIN servers \ {listening} : seq[t] = servers[t]
    BY <1>2, <2>2, Replaced
  <2>4. Opening(seq, Socket)
    <3>1. ASSUME NEW t \in DOMAIN servers
          PROVE  /\ seq[t].pc = servers[t].pc /\ seq[t].peer = servers[t].peer
                 /\ seq[t].count = servers[t].count /\ seq[t].last = servers[t].last
                 /\ seq[t].fin = servers[t].fin /\ seq[t].alien = servers[t].alien
                 /\ seq[t].queue = servers[t].queue
      <4>1. CASE t = listening
        BY <2>2, <2>3, <4>1
      <4>2. CASE t # listening
        <5>1. seq[t] = servers[t]
          BY <2>3, <4>2
        <5> QED
          BY <5>1
      <4> QED
        BY <4>1, <4>2
    <3>2. ASSUME NEW t \in DOMAIN servers
          PROVE  /\ \A d \in Stream : Sent(net, d) + Queued(seq[t].queue, d) <= OwnLoad(t, d)
                 /\ \A i \in DOMAIN seq[t].queue : /\ seq[t].queue[i] \in Arriving
                                                   /\ Genuine(seq[t].queue[i])
      BY <1>5, <3>1, LessQueued
    <3>3. Socket \in Server /\ Stage(Socket)
      BY NewSocket DEF Stage, Socket
    <3> QED
      BY <1>1, <2>1, <2>3, <3>1, <3>2, <3>3 DEF Opening, Socket
  <2>5. SameSource
    <3>1. servers'[n] = Socket
      BY <2>1, <2>3, NewSocket, Opened
    <3> QED
      BY <2>1, <3>1 DEF SameSource, Socket
  <2>6. \A d \in Stream : Socket.peer = d =>
          Load(n, d)' \in Nat /\ (Load(n, d)' + 1 <= packetID[d] \/ WrappedNow(d))
    BY PeerAssumption DEF Socket
  <2> QED
    BY <1>4, <2>4, <2>5, <2>6, SingleOpens
<1> QED
  BY <1>6, <1>7

--------------------------------------------------------------------------------
(* The answers of every run.                                                     *)

LEMMA CopiesAreSpent ==
    ASSUME copies \in Nat, [Next]_vars
    PROVE  run' = run /\ copies' \in Nat /\ copies' <= copies
<1>1. CASE UNCHANGED vars
  BY <1>1 DEF vars, kernelVars, faultVars
<1>2. ASSUME NEW m, Lose(m) \/ DeliverToServer(m) \/ DeliverToClient(m)
      PROVE  run' = run /\ copies' \in Nat /\ copies' <= copies
  BY <1>2 DEF Lose, DeliverToServer, DeliverToClient, Taken, faultVars
<1>3. ASSUME NEW c, ClientStep(c)
      PROVE  UNCHANGED <<run, copies>>
  BY <1>3 DEF ClientStep, InitiateServer, HdrXchange, Run, SendFIN, ReadAnswer, GiveUp,
              SelectTimeout, faultVars, kernelVars
<1>4. ASSUME ListenerStep \/ StopListening
      PROVE  UNCHANGED <<run, copies>>
  <2>1. ASSUME Accept \/ Check \/ StartServer \/ Listen \/ StopListening
        PROVE  UNCHANGED <<run, copies>>
    BY <2>1 DEF Accept, Check, StartServer, Listen, StopListening, kernelVars, faultVars
  <2>2. ASSUME NEW m, SingleData(m) \/ SingleFIN(m) \/ SingleNew(m)
        PROVE  UNCHANGED <<run, copies>>
    BY <2>2 DEF SingleData, SingleFIN, SingleNew, SingleOnly, kernelVars, faultVars
  <2> QED
    BY <1>4, <2>1, <2>2 DEF ListenerStep, SingleServe
<1>5. ASSUME NEW s, ServerStep(s)
      PROVE  UNCHANGED <<run, copies>>
  BY <1>5 DEF ServerStep, RecvUDP, TimeIsUp, SendTotals, AskedAgain, AckTimeout, Forget,
              Close, ServerOnly, faultVars
<1> QED
  BY <1>1, <1>2, <1>3, <1>4, <1>5 DEF Next

LEMMA InitEven == Init => PlainEven
<1> SUFFICES ASSUME Init PROVE PlainEven
  OBVIOUS
<1> USE DEF Init
<1>1. run \in Scenario /\ copies = run.copies /\ run.copies \in Nat
  BY ScenarioAssumption
<1>2. OneAccepts /\ NetEven
  BY DEF OneAccepts, NetEven
<1>3. ToldEven
  <2>1. inbox \in [Stream -> Seq(Answer)] /\ outcome \in [Stream -> Outcome]
    BY DEF Outcome
  <2>2. ASSUME NEW c \in Stream
        PROVE  (\A i \in DOMAIN inbox[c] : Fine(c, inbox[c][i])) /\ Fine(c, outcome[c])
    <3>1. DOMAIN inbox[c] = {} /\ outcome[c].kind = "none"
      OBVIOUS
    <3> QED
      BY <3>1 DEF Fine
  <2> QED
    BY <2>1, <2>2 DEF ToldEven
<1>4. IInv
  BY InitIInv
<1>5. DOMAIN servers = {1} /\ servers[1] = Socket
  <2>1. servers = <<Socket>>
    OBVIOUS
  <2> HIDE DEF Init
  <2> QED
    BY <2>1
<1>6. EvenThread(1)
  <2> PICK s \in DOMAIN servers : s = 1
    BY <1>5
  <2>1. Stage(servers[s]) /\ EvenSocket(s)
    BY <1>5 DEF Stage, EvenSocket, Socket
  <2>2. GenuineQueue(s)
    BY <1>5 DEF GenuineQueue, Socket
  <2>3. ASSUME NEW c \in Stream PROVE OwnLoad(s, c) <= packetID[c]
    <3>1. Sent(net, c) = 0
      <4>1. net = {}
        BY DEF Init
      <4>2. DataOf(net, c) = {}
        BY <4>1 DEF DataOf
      <4> QED
        BY <4>2, FS_EmptySet DEF Sent
    <3>2. Queued(servers[s].queue, c) = 0
      <4>1. servers[s].queue = <<>> /\ <<>> \in Seq(Arriving)
        BY <1>5 DEF Socket
      <4> QED
        BY <4>1, QueuedIsNat
    <3>3. packetID[c] \in Nat
      BY <1>4, Counters
    <3> QED
      BY <3>1, <3>2, <3>3 DEF OwnLoad
  <2> QED
    BY <2>1, <2>2, <2>3 DEF EvenThread, Spare
<1> QED
  BY <1>1, <1>2, <1>3, <1>5, <1>6 DEF PlainEven, EvenInv, ThreadsEven

LEMMA StepEven ==
    ASSUME IInv, IInv', Plain, EvenInv, Next, UNCHANGED copies, copies \in Nat
    PROVE  EvenInv'
<1>1. CASE \E m \in net : Lose(m) \/ DeliverToServer(m) \/ DeliverToClient(m)
  BY <1>1, LoseEven, DeliverToServerEven, DeliverToClientEven
<1>2. CASE \E c \in Stream : ClientStep(c)
  BY <1>2, ClientEven
<1>3. CASE ListenerStep
  BY <1>3, AcceptEven, CheckEven, StartServerEven, ListenEven, SingleDataEven,
     SingleFINEven, SingleNewEven DEF ListenerStep, SingleServe
<1>4. CASE StopListening
  BY <1>4 DEF StopListening, Plain
<1>5. CASE \E s \in DOMAIN servers : ServerStep(s)
  <2> PICK s \in DOMAIN servers : ServerStep(s)
    BY <1>5
  <2>1. ~TimeIsUp(s)
    BY DEF TimeIsUp, Plain
  <2> QED
    BY <2>1, RecvUDPEven, SendTotalsEven, EndingEven DEF ServerStep
<1> QED
  BY <1>1, <1>2, <1>3, <1>4, <1>5 DEF Next

LEMMA StutterEven ==
    ASSUME IInv, IInv', EvenInv, UNCHANGED vars
    PROVE  EvenInv'
<1>1. UNCHANGED <<run, copies, cpc, packetID, tries, outcome, inbox, net, servers, listening, lpc>>
  BY DEF vars, clientVars, kernelVars, faultVars, listenerVars
<1>2. ClientsGrow
  BY <1>1, SameClients
<1>3. ThreadsStay /\ ThreadsEven'
  <2>1. \A c \in Stream : Sent(net', c) + packetID[c] <= Sent(net, c) + packetID'[c]
    <3> SUFFICES ASSUME NEW c \in Stream
                 PROVE  Sent(net', c) + packetID[c] <= Sent(net, c) + packetID'[c]
      OBVIOUS
    <3>1. Sent(net', c) = Sent(net, c) /\ packetID'[c] = packetID[c]
      BY <1>1
    <3>2. Sent(net, c) \in Nat /\ packetID[c] \in Nat
      BY SentIsNat, Counters DEF IInv, DatagramShapes
    <3> QED
      BY <3>1, <3>2
  <2> QED
    BY <1>1, <1>2, <2>1, Quiet DEF EvenInv
<1>4. NetEven' /\ ToldEven'
  BY <1>1, <1>2, <1>3, NetKept, ToldKept DEF EvenInv
<1> QED
  BY <1>1, <1>3, <1>4 DEF EvenInv, OneAccepts

LEMMA NextEven == IInv /\ IInv' /\ PlainEven /\ [Next]_vars => PlainEven'
<1> SUFFICES ASSUME IInv, IInv', PlainEven, [Next]_vars PROVE PlainEven'
  OBVIOUS
<1>1. copies \in Nat /\ copies <= run.copies /\ run.copies \in Nat
  BY ScenarioAssumption DEF PlainEven, IInv, ClientShapes
<1>2. run' = run /\ copies' \in Nat /\ copies' <= copies
  BY <1>1, CopiesAreSpent
<1>3. ASSUME Plain' PROVE EvenInv'
  <2>1. Plain /\ copies' = copies /\ EvenInv
    BY <1>1, <1>2, <1>3 DEF Plain, PlainEven
  <2>2. CASE Next
    BY <1>1, <2>1, <2>2, StepEven
  <2>3. CASE UNCHANGED vars
    BY <2>1, <2>3, StutterEven
  <2> QED
    BY <2>2, <2>3
<1> QED
  BY <1>1, <1>2, <1>3 DEF PlainEven

LEMMA EvenFollows == IInv /\ PlainEven => TotalsAreEven
<1> SUFFICES ASSUME IInv, PlainEven PROVE TotalsAreEven
  OBVIOUS
<1> USE DEF TotalsAreEven
<1> SUFFICES ASSUME NEW c \in run.streams,
                    outcome[c].kind = "totals", Plain, ~outcome[c].alien,
                    tries[c] <= packetID[c] + 1
             PROVE  /\ outcome[c].count <= packetID[c]
                    /\ servers[outcome[c].from].peer = c
                    /\ ~run.single => /\ packetID[c] < outcome[c].last + tries[c]
                                      /\ outcome[c].last <= Largest(packetID[c], run.flow)
  BY DEF Plain
<1>1. c \in Stream
  BY ScenarioAssumption DEF IInv, ClientShapes
<1>2. Fine(c, outcome[c])
  BY <1>1 DEF PlainEven, EvenInv, ToldEven
<1>3. ~Wrapped(packetID[c], tries[c], cpc[c] \in Over)
  BY <1>1, Counters DEF Wrapped
<1> QED
  BY <1>2, <1>3 DEF Fine, FineRec

(* "The server counts this one, but didn't count our first datagram, so we're    *)
(* even now" (Client.cpp) holds for any number of streams, of any length, under  *)
(* any losses and reorderings: the totals a client is told come from the thread  *)
(* that served it and count no more datagrams than it numbered, and their        *)
(* largest number is its next one or the flow id, short of it by less than the   *)
(* FINs it sent, which a single server has taken from 2^31 (Client::Run,         *)
(* Client::write_UDP_FIN, Listener::Accept, Listener::UDPSingleServer,           *)
(* Server::RunUDP, Server::write_UDP_AckFIN).                                    *)
THEOREM TotalsStayEven == Spec => []TotalsAreEven
<1>1. IInv /\ PlainEven => TotalsAreEven
  BY EvenFollows
<1>2. Spec => [](IInv /\ PlainEven)
  <2>1. Init => PlainEven
    BY InitEven
  <2>2. IInv /\ IInv' /\ PlainEven /\ [Next]_vars => PlainEven'
    BY NextEven
  <2> QED
    BY <2>1, <2>2, AlwaysIInv, PTL DEF Spec
<1> QED
  BY <1>1, <1>2, PTL
================================================================================
