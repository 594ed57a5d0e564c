---------------------------- MODULE EventLoopClaims ----------------------------
(* Statements of the repository's thesis (documents/chapter3.tex) about the loop *)
(* of the emulation that the code does not keep.                                 *)
EXTENDS MCEventLoop

(* chapter3.tex:473, "It checks if there are any unsatisfied, non-blacklisted    *)
(* DFGs in the network and if there are still unsatisfied DFGs, the emulation    *)
(* set a boolean for executing FlexFCAPF", as long as a CLC can be added.  The   *)
(* loop compares numbers, and flows that have gone are still on the blacklist.   *)
NewcomersNoticed ==
    [][pc = "decide" /\ nCLC < NumCand /\ F \ (isSat \cup blacklist) # {} => reason' # 0]_vars

(* chapter3.tex:471, "It handles the blacklisted flows (if any) and remove all   *)
(* the flows which have already expired": once the buckets are emptied no flow   *)
(* is left whose traffic is over by simulated time and by the wall clock.  The   *)
(* loop never comes to a bucket it had passed when the flow was put into it.     *)
ExpiredAreRemoved == pc = "add" => \A f \in F \cap isGen : End(f) > Min({t, now})
================================================================================
