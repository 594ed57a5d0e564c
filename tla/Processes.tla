------------------------------- MODULE Processes -------------------------------
(* Two iperf processes: near is given the host to test against, far runs there.  *)
near == "near"
far == "far"
Program == {near, far}
Peer(p) == IF p = near THEN far ELSE near
================================================================================
