------------------------------- MODULE MCReporter ------------------------------
(* Instances of Reporter for TLC: one server or two clients on a ring of three   *)
(* slots, in the modes that take different paths through Reporter.c.             *)
EXTENDS Reporter

CONSTANTS A, B

Data(id, time) == [id |-> id, time |-> time, len |-> 1, empty |-> FALSE]
Empty(id, time) == [id |-> id, time |-> time, len |-> 1, empty |-> TRUE]
Closed(time) == [id |-> -1, time |-> time, len |-> 0, empty |-> FALSE]

Mode == [agents |-> {A}, failed |-> {}, early |-> {}, lead |-> A, server |-> FALSE,
         udp |-> FALSE, multi |-> FALSE, data |-> TRUE, settings |-> FALSE, interval |-> 0,
         packets |-> [a \in Agent |-> <<Closed(0)>>]]
Sends(m, s) == [m EXCEPT !.packets = [a \in Agent |-> s]]

(* A UDP server: datagrams 4 and 5 are lost, 2 is late, 3 and the listener's 0   *)
(* arrive twice, and for a while nothing comes.                                  *)
LossyServer ==
    Sends([Mode EXCEPT !.server = TRUE, !.udp = TRUE, !.interval = 2],
          <<Data(1, 1), Data(3, 3), Data(2, 3), Data(3, 4), Data(0, 5), Empty(3, 6), Data(6, 7), Closed(8)>>)

(* A UDP client that sends nothing for a while.                                  *)
IdleClient ==
    Sends([Mode EXCEPT !.udp = TRUE, !.interval = 2, !.settings = TRUE],
          <<Data(1, 1), Empty(1, 3), Data(2, 5), Closed(5)>>)

Pair == [Mode EXCEPT !.agents = {A, B}, !.multi = TRUE]
PairOfClients == Sends([Pair EXCEPT !.interval = 2],
                       <<Data(0, 3), Data(0, 9), Closed(9)>>)
PairOfTotals == Sends([Pair EXCEPT !.udp = TRUE, !.early = {A, B}],
                      <<Data(1, 1), Closed(2)>>)
PairOfServers == Sends([Pair EXCEPT !.server = TRUE, !.interval = 2],
                       <<Data(0, 3), Closed(5)>>)
OneCannotConnect == Sends([Pair EXCEPT !.failed = {B}, !.early = {A}, !.interval = 2],
                          <<Data(0, 1), Closed(2)>>)
ConnectionOnly == [Mode EXCEPT !.data = FALSE, !.settings = TRUE]

MCScenario ==
    {LossyServer, IdleClient, PairOfClients, PairOfTotals, PairOfServers,
     OneCannotConnect, ConnectionOnly}
================================================================================
