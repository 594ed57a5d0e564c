------------------------------ MODULE MCEventLoop ------------------------------
(* An instance of EventLoop for TLC: three flows, arriving soon after each other *)
(* or late, that stay for less or for more than that, and two candidates, whose  *)
(* average load is so low that one is enough, or just below the limit.           *)
EXTENDS EventLoop

StepDef == {1, 3}
LifetimeDef == {1, 4}
LoadDef == {2, 17}
================================================================================
