------------------------------- MODULE MCRouting -------------------------------
(* Instances of Routing on a line of three switches, 0 - 1 - 2.                  *)
EXTENDS Routing, TLC

Line == 0 .. 2

(* 0 is the only candidate, so no two nodes control each other; the paths share  *)
(* a link and two switches.                                                      *)
OneWay == {<<0, 1>>, <<0, 2>>}
OneWayPath == <<0, 1>> :> <<0, 1>> @@ <<0, 2>> :> <<0, 1, 2>>

(* 0 and 2 may control each other.                                               *)
Mutual == {<<0, 2>>, <<2, 0>>}
MutualPath == <<0, 2>> :> <<0, 1, 2>> @@ <<2, 0>> :> <<2, 1, 0>>

(* The middle switch may be two requests behind, the others one.                 *)
TwoInTheMiddle == [s \in Line |-> IF s = 1 THEN 2 ELSE 1]
OneEach == [s \in Line |-> 1]
TwoEach == [s \in Line |-> 2]
================================================================================
