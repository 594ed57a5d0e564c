------------------------------- MODULE MCSession -------------------------------
(* Instances of Session for TLC: one stream on a network that may do anything,   *)
(* and two streams, of one host or of two.                                       *)
EXTENDS Session

CONSTANTS A, B, C

MCHost == (A :> "h1") @@ (B :> "h1") @@ (C :> "h2")

Base == [streams |-> {A}, extended |-> FALSE, wide |-> FALSE, single |-> FALSE,
         only |-> FALSE, timed |-> FALSE, flow |-> 0, limit |-> 0, tries |-> 2, writes |-> 2,
         losses |-> 2, copies |-> 0]
Two == [Base EXCEPT !.streams = {A, B}, !.writes = 1, !.losses = 1, !.tries = 1]
Strangers == [Two EXCEPT !.streams = {A, C}]

MCScenario ==
    {[Base EXCEPT !.copies = 1, !.losses = 1, !.writes = 1],
     [Base EXCEPT !.extended = TRUE, !.losses = 1, !.writes = 1],
     [Base EXCEPT !.wide = TRUE, !.writes = 1],
     [Base EXCEPT !.timed = TRUE, !.writes = 1], [Base EXCEPT !.limit = 1],
     [Base EXCEPT !.single = TRUE], [Base EXCEPT !.single = TRUE, !.limit = 1],
     [Base EXCEPT !.flow = 4, !.writes = 1, !.losses = 1],
     [Base EXCEPT !.writes = 1, !.tries = 3], [Base EXCEPT !.wide = TRUE, !.single = TRUE,
                                               !.writes = 1, !.tries = 3],
     Two, [Strangers EXCEPT !.only = TRUE],
     [Two EXCEPT !.single = TRUE], [Strangers EXCEPT !.single = TRUE, !.only = TRUE]}
================================================================================
