------------------------------ MODULE MCPlacement ------------------------------
(* An instance of Placement.  Every latency and demand is chosen so that the     *)
(* divisions of the code are exact: with a limit of 4 and a round trip of 1 per  *)
(* hop, 12 units of work take 3, 4 or 6 units of capacity over 0, 1 or 2 hops.   *)
EXTENDS Placement

(* A line of 3 nodes; link i joins i and i + 1.                                  *)
Line == 1 .. 3
LineEdge == 1 .. 2
LinePath == [v \in Line |-> [w \in Line |-> IF v < w THEN v .. w - 1 ELSE w .. v - 1]]
LineRTT == [v \in Line |-> [w \in Line |-> Cardinality(LinePath[v][w])]]

(* Capacities.  One candidate hosts several controllers and flows, one can       *)
(* control only itself, and one can coordinate; a link carries four streams.     *)
LineNode == <<28, 4, 7>>
LineLinks == [e \in LineEdge |-> 4]

ThreeFlows == {1, 2, 3}
Limits == <<4, 4, 4>>
(* Two flows enter through two nodes.  The third, served by node 1, uses the     *)
(* first link twice and the second once.                                         *)
LineWb == <<{1, 2}, {3}, {2, 3}>>
Rates == <<1, 1, 1>>
Works == <<12, 12, 12>>
================================================================================
