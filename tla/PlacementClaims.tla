---------------------------- MODULE PlacementClaims ----------------------------
(* Statements of the repository's thesis (documents/chapter2.tex, chapter3.tex)  *)
(* about the placement heuristic that the code does not keep.  Each is checked   *)
(* on an instance of MCPlacement on which it fails.                              *)
EXTENDS MCPlacement

(* chapter2.tex:259, a flow "will hold that amount of processing power until it  *)
(* finishes the job": a CLC that serves no flow has again all it had but for its *)
(* controls.  addFlowSat takes p / (l - 1e-4 - latency) from p_rem but notes     *)
(* p / (l - latency) for remFlowSat to give back.                                *)
ProcessingReturned ==
    \A c \in Cand : Satisfies(c) = {} => pRem[c] + ControlUse(c) = PNode[c]

(* chapter3.tex:224, the algorithm ends "if no more CAs are available": a call   *)
(* in which no candidate can be given a CRC comes to an end.  The loop of        *)
(* cpgreedy that waits for every node to be controlled never does.               *)
GreedyEnds == pc = "enter" ~> pc \in {"idle"} \cup Errors
================================================================================
