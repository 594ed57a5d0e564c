----------------------------- MODULE PacketChannel -----------------------------
(* What Reporter.c promises a traffic thread: what it reports reaches the        *)
(* reporter thread in order, once each, and at most Capacity packets wait.       *)
(* Packets of a thread are numbered from 1, so its channel is two counters.      *)
EXTENDS Integers

CONSTANTS Agent, Capacity

VARIABLES
    sent,     \* sent[a]: packets ReportPacket has published
    got       \* got[a]: number of the packet reporter_handle_packet read last

Init ==
    /\ sent = [a \in Agent |-> 0]
    /\ got = [a \in Agent |-> 0]

Put(a) ==
    /\ sent[a] - got[a] < Capacity
    /\ sent' = [sent EXCEPT ![a] = @ + 1]
    /\ UNCHANGED got

Get(a) ==
    /\ got[a] < sent[a]
    /\ got' = [got EXCEPT ![a] = @ + 1]
    /\ UNCHANGED sent

Next == \E a \in Agent : Put(a) \/ Get(a)

Spec == Init /\ [][Next]_<<sent, got>>
================================================================================
