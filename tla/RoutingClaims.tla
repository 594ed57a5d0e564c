----------------------------- MODULE RoutingClaims -----------------------------
(* Statements of the repository's thesis (documents/chapter3.tex) about routing  *)
(* that the code does not keep.                                                  *)
EXTENDS MCRouting

(* chapter3.tex:272, modifying the routing "is not disturbing the traffic which  *)
(* is running in the network": a path with traffic that nobody asked to delete   *)
(* keeps its entries.  Two CLCs that control each other share all entries of     *)
(* their two paths, and the deletion of one path takes away the other.           *)
TrafficUndisturbed == Undisturbed

(* chapter3.tex:242, "real traffic is generated and that traffic has to follow a *)
(* defined path": once the switches have caught up, no client sends to a CLC the *)
(* tables have no path to.  A flow that a CLC takes on its arrival is started    *)
(* without modifyRoutingTable.                                                   *)
TrafficHasPath ==
    pc = "idle" /\ Drained => \A p \in traffic \ missed : Carried(p)
================================================================================
