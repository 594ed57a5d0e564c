------------------------------- MODULE EventLoop -------------------------------
(* The main loop of the emulation (csimpfo_fcfs.py): every iteration moves the   *)
(* simulated time on and may bring a flow.  Then flows whose time is over are    *)
(* removed, the new one is added, and the loop decides whether the placement is  *)
(* run again, because of flows that are not served or because of low load.       *)
(*                                                                               *)
(* There are two clocks.  Simulated time jumps to the next arrival and the loop  *)
(* sleeps behind it; the wall clock never stops.  A flow is put into a bucket by *)
(* wall clock and taken out of it by simulated time.  Both count from the start  *)
(* of the loop, in ticks.                                                        *)
(*                                                                               *)
(* What cpgreedy, addFlow and remCLC do is the module Placement's; here any flow *)
(* may be served or not, and the placement solved or not.  Left out is the       *)
(* branch of line 194, which compares the seconds since 1970 with simulated time *)
(* and is never taken, and stime, which only it reads.  No removal from a bucket *)
(* raises an exception as long as BucketsAgree holds.                            *)
(*                                                                               *)
(* Helpers no action uses (HasRunAll, HeldByWallClock, StillListed) are slips of *)
(* the one that follows them; the README lists the property each would break.    *)
EXTENDS Integers, FiniteSetsExt

CONSTANTS
    NumFlows,     \* bound: flows that arrive
    Step,         \* times to the next arrival
    Lifetime,     \* durations of flows
    NumCand,      \* len(cn.C)
    Load,         \* average loads of the CLCs
    FullLoad,     \* the load of a CLC without capacity left
    Duration,     \* sim_duration
    Tick,         \* ticks of a second
    Retry,        \* the 60 seconds after which blacklisted flows are tried again
    stdll,        \* CLCloadlimit at the start
    lltimeframe,  \* how long the load must be low
    Ahead         \* bound: how far the wall clock runs ahead of simulated time

ASSUME FlowAssumption == NumFlows \in Nat
ASSUME TimeAssumption ==
    /\ Step \subseteq Nat \ {0} /\ Lifetime \subseteq Nat \ {0}
    /\ {Duration, Retry, lltimeframe, Ahead} \subseteq Nat /\ Tick \in Nat \ {0}
ASSUME LoadAssumption ==
    /\ FullLoad \in Nat \ {0} /\ Load \subseteq 1 .. FullLoad
    /\ stdll \in Nat /\ NumCand \in Nat \ {0}

VARIABLES
    pc,
    t, tlast,    \* simulated time, and what it was at the last arrival
    now,         \* time.time() - starttime
    t1, nextvar, \* when the iteration began and the time to its arrival, or 0
    lastflow,    \* cn.lastflow
    F,           \* cn.F
    isSat, isGen, genstime, duration, fremindex, \* of the flows
    fremhelp,    \* the buckets: by second, the flows to be removed then
    bucket,      \* the bucket being emptied, or 0
    blacklist,   \* flows a round has not served
    nCLC,        \* len(cpf.CLCs)
    tll,         \* since when the load is low, None if llalarm is not set
    CLCloadlimit,
    tmplenCLCs, reason, \* of the round to be run, or 0
    calctime,    \* when the last round was run
    brief,       \* history: flows that last less than the time to their arrival
    waited       \* history: flows not served since they were put on the blacklist

clockVars == <<t, tlast, now, t1, nextvar>>
flowVars == <<lastflow, F, isSat, isGen, genstime, duration>>
bucketVars == <<fremindex, fremhelp, bucket>>
loadVars == <<nCLC, tll, CLCloadlimit, tmplenCLCs>>
roundVars == <<reason, calctime>>
history == <<brief, waited>>
vars == <<pc, clockVars, flowVars, bucketVars, blacklist, loadVars, roundVars, history>>

--------------------------------------------------------------------------------
None == -1
Flow == 1 .. NumFlows
ceil(x) == (x + Tick - 1) \div Tick

End(f) == genstime[f] + duration[f]
Bucket(i) == IF i \in DOMAIN fremhelp THEN fremhelp[i] ELSE {}

(* Flows S are put into the buckets to[f], bucket i keeping only the flows rest. *)
Refile(S, to, i, rest) ==
    [j \in DOMAIN fremhelp \cup {to[f] : f \in S} |->
        (IF j = i THEN rest ELSE Bucket(j)) \cup {f \in S : to[f] = j}]
Without(h, i) == [j \in DOMAIN h \ {i} |-> h[j]]

(* Whether a flow whose bucket has come goes on, because its traffic does.       *)
HeldByWallClock(f) == f \in isGen /\ now < End(f)
Held(f) == f \in isGen /\ now < End(f) /\ t < End(f)

(* remFlow of flows G: their records are deleted, their traffic is left alone.   *)
Deleted(g, G, x) == [f \in Flow |-> IF f \in G THEN x ELSE g[f]]
RemFlows(G) ==
    /\ F' = F \ G
    /\ isSat' = isSat \ G
    /\ isGen' = isGen \ G
    /\ genstime' = Deleted(genstime, G, 0)
    /\ duration' = Deleted(duration, G, 0)
    /\ UNCHANGED lastflow

(* The records when flows S were put into the buckets to[f] and others are gone. *)
Indexed(S, to, gone) ==
    Deleted([f \in Flow |-> IF f \in S THEN to[f] ELSE fremindex[f]], gone, None)

(* remFlowSat when the CLC of flows S is taken down, which stops their traffic:  *)
(* what is left of their time is what they run the next time.                    *)
Ran(f) == now - genstime[f]
HasRunAll(f) == duration[f] >= Ran(f)
HasToRun(f) == duration[f] > Ran(f)
StopTraffic(S) ==
    /\ isGen' = isGen \ S
    /\ duration' = [f \in Flow |->
         IF f \in S \cap isGen /\ HasToRun(f) THEN duration[f] - Ran(f)
         ELSE duration[f]]

--------------------------------------------------------------------------------
Init ==
    /\ pc = "next"
    /\ t = 0 /\ tlast = 0 /\ now = 0 /\ t1 = 0 /\ nextvar = 0
    /\ lastflow = 0 /\ F = {} /\ isSat = {} /\ isGen = {}
    /\ genstime = [f \in Flow |-> 0] /\ duration = [f \in Flow |-> 0]
    /\ fremindex = [f \in Flow |-> None] /\ fremhelp = <<>> /\ bucket = 0
    /\ blacklist = {}
    /\ nCLC = 0 /\ tll = None /\ CLCloadlimit = stdll /\ tmplenCLCs = 0
    /\ reason = 0 /\ calctime = 0
    /\ brief = {} /\ waited = {}

(* Work takes time: the wall clock goes on while buckets are emptied and in a    *)
(* round.                                                                        *)
Clock ==
    /\ pc \in {"expire", "round", "traffic"} /\ now < t + Ahead
    /\ now' = now + 1
    /\ UNCHANGED <<pc, t, tlast, t1, nextvar, flowVars, bucketVars, blacklist, loadVars,
                   roundVars, history>>

Advance(n) ==
    /\ pc = "next" /\ t < Duration
    /\ t' = t + n
    /\ t1' = now /\ nextvar' = n

(* No flow arrives.                                                              *)
Pass(n) ==
    /\ Advance(n)
    /\ pc' = "sleep"
    /\ UNCHANGED <<tlast, now, flowVars, bucketVars, blacklist, loadVars, roundVars, history>>

(* A flow arrives.  First, flows that are served meanwhile leave the blacklist;  *)
(* flows that have gone stay on it.                                              *)
StillListed == blacklist
Listed == blacklist \ (F \cap isSat)
Arrive(n) ==
    /\ Advance(n) /\ lastflow + 1 \in Flow
    /\ blacklist' = Listed
    /\ bucket' = ceil(tlast)
    /\ pc' = "expire"
    /\ UNCHANGED <<tlast, now, flowVars, fremindex, fremhelp, loadVars, roundVars, history>>

(* The buckets before the present second are emptied and deleted.                *)
Expire ==
    /\ pc = "expire" /\ bucket < ceil(t)
    /\ LET kept == {f \in Bucket(bucket) : Held(f)}
           gone == Bucket(bucket) \ kept
           to == [f \in kept |-> ceil(End(f))] IN
         /\ fremhelp' = Without(Refile(kept, to, bucket, {}), bucket)
         /\ fremindex' = Indexed(kept, to, gone)
         /\ RemFlows(gone)
    /\ bucket' = bucket + 1
    /\ UNCHANGED <<pc, clockVars, blacklist, loadVars, roundVars, history>>

(* The bucket of the present second keeps what goes on in it.                    *)
ExpireNow ==
    /\ pc = "expire" /\ bucket = ceil(t)
    /\ LET kept == {f \in Bucket(bucket) : Held(f)}
           moved == {f \in kept : ceil(End(f)) > bucket}
           gone == Bucket(bucket) \ kept
           to == [f \in moved |-> ceil(End(f))] IN
         /\ fremhelp' = Refile(moved, to, bucket, kept \ moved)
         /\ fremindex' = Indexed(moved, to, gone)
         /\ RemFlows(gone)
    /\ bucket' = 0
    /\ pc' = "add"
    /\ UNCHANGED <<clockVars, blacklist, loadVars, roundVars, history>>

(* addFlow tries to serve the flow if there is a CLC, and its traffic starts.    *)
AddFlow(d) ==
    /\ pc = "add"
    /\ LET f == lastflow + 1
           i == ceil(now + d) IN
         /\ lastflow' = f /\ F' = F \cup {f}
         /\ duration' = [duration EXCEPT ![f] = d]
         /\ \/ /\ nCLC > 0
               /\ isSat' = isSat \cup {f} /\ isGen' = isGen \cup {f}
               /\ genstime' = [genstime EXCEPT ![f] = now]
            \/ UNCHANGED <<isSat, isGen, genstime>>
         /\ fremindex' = [fremindex EXCEPT ![f] = i]
         /\ fremhelp' = Refile({f}, [g \in {f} |-> i], i, Bucket(i))
         /\ brief' = IF d < nextvar THEN brief \cup {f} ELSE brief
    /\ tlast' = t
    /\ pc' = "decide"
    /\ UNCHANGED <<t, now, t1, nextvar, bucket, blacklist, loadVars, roundVars, waited>>

(* Whether a round is run for flows that are not served; if not, it is run when  *)
(* the placement is not solved.                                                  *)
FlowsWaiting ==
    /\ \/ Cardinality(F) > Cardinality(isSat) + Cardinality(blacklist)
       \/ blacklist # {} /\ t - calctime > Retry
    /\ nCLC < NumCand
Reasons == IF FlowsWaiting THEN {2} ELSE {1, 0}
Decided(R) ==
    /\ reason' \in R
    /\ pc' = IF reason' = 0 THEN "sleep" ELSE "round"
Unplaced == UNCHANGED <<flowVars, nCLC>>

Decide ==
    /\ pc = "decide"
    /\ nCLC > 1 => \E load \in Load : load >= CLCloadlimit
    /\ tll' = IF nCLC > 1 THEN None ELSE tll
    /\ Decided(Reasons)
    /\ Unplaced
    /\ UNCHANGED <<clockVars, bucketVars, blacklist, CLCloadlimit, tmplenCLCs, calctime, history>>

LowLoad(load) == pc = "decide" /\ nCLC > 1 /\ load < CLCloadlimit
Since == IF tll = None THEN t ELSE tll

(* The load is low, but not for long enough.                                     *)
Watch(load) ==
    /\ LowLoad(load) /\ t - Since <= lltimeframe
    /\ tll' = Since
    /\ Decided(Reasons)
    /\ Unplaced
    /\ UNCHANGED <<clockVars, bucketVars, blacklist, CLCloadlimit, tmplenCLCs, calctime, history>>

(* As many CLCs as the load needs are left; the flows of the others are not      *)
(* served any more.                                                              *)
Needed(load) == (load * nCLC + FullLoad - 1) \div FullLoad
TakeDown(load) ==
    /\ LowLoad(load) /\ t - Since > lltimeframe
    /\ tll' = None
    /\ IF Needed(load) < nCLC
       THEN /\ nCLC' = Needed(load) /\ tmplenCLCs' = nCLC
            /\ \E lost \in SUBSET isSat : isSat' = isSat \ lost /\ StopTraffic(lost)
            /\ Decided({3})
            /\ UNCHANGED <<CLCloadlimit, lastflow, F, genstime>>
       ELSE /\ CLCloadlimit' = CLCloadlimit - 1
            /\ Decided(Reasons)
            /\ Unplaced
            /\ UNCHANGED tmplenCLCs
    /\ UNCHANGED <<clockVars, bucketVars, blacklist, calctime, history>>

(* cpgreedy: CLCs are added and flows served; a round in vain gives the last CLC *)
(* up, an older one if none was added, with the flows it served.                 *)
Greedy ==
    /\ pc = "round"
    /\ calctime' = t
    /\ \E lost \in SUBSET isSat, new \in SUBSET (F \ isSat) :
         /\ nCLC' \in Nat \cap (nCLC - 1 .. IF lost = {} THEN NumCand ELSE NumCand - 1)
         /\ isSat' = (isSat \ lost) \cup new /\ (isSat' # {} => nCLC' > 0)
         /\ StopTraffic(lost)
    /\ waited' = waited \ isSat'
    /\ pc' = "traffic"
    /\ UNCHANGED <<clockVars, lastflow, F, genstime, bucketVars, blacklist, tll, CLCloadlimit,
                   tmplenCLCs, reason, brief>>

(* generateTrafficFlow.                                                          *)
Generate ==
    /\ pc = "traffic"
    /\ genstime' = [f \in Flow |-> IF f \in isSat \ isGen THEN now ELSE genstime[f]]
    /\ isGen' = isGen \cup isSat
    /\ pc' = "judge"
    /\ UNCHANGED <<clockVars, lastflow, F, isSat, duration, bucketVars, blacklist, loadVars,
                   roundVars, history>>

(* Flows a round for them has not served are put on the blacklist, those that    *)
(* are on it are rejected.                                                       *)
Unserved == IF reason = 2 THEN F \ isSat ELSE {}
Judge ==
    /\ pc = "judge"
    /\ LET rejected == Unserved \cap blacklist IN
         /\ blacklist' = blacklist \cup Unserved
         /\ fremhelp' = [i \in DOMAIN fremhelp |->
                           fremhelp[i] \ {f \in rejected : fremindex[f] = i}]
         /\ fremindex' = Deleted(fremindex, rejected, None)
         /\ RemFlows(rejected)
         /\ waited' = waited \cup (Unserved \ rejected)
    /\ CLCloadlimit' = IF reason = 3 /\ nCLC >= tmplenCLCs THEN CLCloadlimit - 1 ELSE stdll
    /\ reason' = 0 /\ tmplenCLCs' = 0
    /\ pc' = "sleep"
    /\ UNCHANGED <<clockVars, bucket, nCLC, tll, calctime, brief>>

(* The loop sleeps until the arrival: the time to it less the time the iteration *)
(* has taken, but no longer than simulated time is ahead.  The 0.9 ms for which  *)
(* it does not sleep are taken as 0.                                             *)
Sleep ==
    /\ pc = "sleep"
    /\ LET delta == now - t1
           sleeptime == Min({nextvar - delta, t - now}) IN
         now' = IF sleeptime > 0 /\ t > now THEN now + sleeptime ELSE now
    /\ t1' = 0 /\ nextvar' = 0
    /\ pc' = "next"
    /\ UNCHANGED <<t, tlast, flowVars, bucketVars, blacklist, loadVars, roundVars,
                   history>>

Next ==
    \/ Clock
    \/ \E n \in Step : Pass(n) \/ Arrive(n)
    \/ Expire \/ ExpireNow
    \/ \E d \in Lifetime : AddFlow(d)
    \/ Decide
    \/ \E load \in Load : Watch(load) \/ TakeDown(load)
    \/ Greedy \/ Generate \/ Judge \/ Sleep

Spec == Init /\ [][Next]_vars

--------------------------------------------------------------------------------
(* Every variable has its type, and only flows that are served have traffic.     *)
TypeOK ==
    /\ pc \in {"next", "expire", "add", "decide", "round", "traffic", "judge", "sleep"}
    /\ {t, tlast, now, t1, nextvar, lastflow, bucket, calctime} \subseteq Nat
    /\ tlast <= t /\ t1 <= now
    /\ isGen \subseteq isSat /\ isSat \subseteq F /\ F \subseteq 1 .. lastflow
    /\ genstime \in [Flow -> Nat] /\ duration \in [Flow -> Nat]
    /\ \A f \in F : duration[f] > 0
    /\ fremindex \in [Flow -> Nat \cup {None}]
    /\ DOMAIN fremhelp \subseteq Nat /\ \A i \in DOMAIN fremhelp : fremhelp[i] \subseteq F
    /\ blacklist \subseteq 1 .. lastflow
    /\ nCLC \in 0 .. NumCand /\ tll \in Nat \cup {None}
    /\ CLCloadlimit \in 0 .. stdll /\ tmplenCLCs \in 0 .. NumCand /\ reason \in 0 .. 3
    /\ brief \cup waited \subseteq 1 .. lastflow

(* Each flow waits for its removal in one bucket, the one its record names, and  *)
(* the loop has not passed that bucket, because the wall clock, by which it is   *)
(* chosen, is behind simulated time by no more than the time to the arrival; but *)
(* for flows that last less than that, which may come into a bucket the loop has *)
(* passed and are then never removed.                                            *)
Passed == CASE pc = "expire" -> bucket [] pc = "add" -> ceil(t) [] OTHER -> ceil(tlast)
BucketsAgree ==
    /\ \A f \in F : \A i \in DOMAIN fremhelp : f \in fremhelp[i] <=> fremindex[f] = i
    /\ \A f \in F : fremindex[f] \in DOMAIN fremhelp
    /\ \A f \in F \ brief : fremindex[f] >= Passed

(* A flow is rejected only if it has not been served since an earlier round put  *)
(* it on the blacklist.                                                          *)
SecondChance == [][pc = "judge" => F \ F' \subseteq waited]_vars
================================================================================
