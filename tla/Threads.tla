-------------------------------- MODULE Threads --------------------------------
(* The thread subsystem of iperf (Thread.c) and the signals (main.cpp).  A       *)
(* process has one count of the threads its main thread waits for; the reporter  *)
(* leaves it while it has nothing to print, and the listener is taken out of it  *)
(* by an interrupt.  A thread is a copy of the settings it was made from, with   *)
(* the settings to start before it (runNow) and after it (runNext).  Thread 1 is *)
(* main.                                                                         *)
(*                                                                               *)
(* A helper no action uses (StillHeldAsBefore, ...) is a slip of the one that    *)
(* follows it; the README lists the property each would break.                   *)
EXTENDS Processes, Integers, FiniteSetsExt, SequencesExt

VARIABLES
    threads,            \* threads[p]: the threads of a process in the order they were started
    thread_sNum,        \* what thread_joinall waits for
    nonterminating_num, \* threads in that count which an interrupt takes out
    process,            \* running, or how the process ended
    sThread,            \* whether main has taken a signal
    sInterupted         \* the last signal

threadVars == <<threads, thread_sNum, nonterminating_num, process, sThread, sInterupted>>
countVars == <<thread_sNum, nonterminating_num>>
signalVars == <<sThread, sInterupted>>

--------------------------------------------------------------------------------
(* A thread before it runs: what it is, where it starts, the settings to start   *)
(* after it, and the connection it is about.                                     *)
FirstStep == [main |-> "start", client |-> "connect", server |-> "read",
              listener |-> "register", reporter |-> "work"]
Settings_Copy(mode, next, sock) ==
    [mode |-> mode, pc |-> FirstStep[mode], todo |-> <<>>, next |-> next, sock |-> sock,
     rep |-> "none", hold |-> "no"]

Thread(p) == DOMAIN threads[p]
At(p, i, pc) == threads[p][i].pc = pc
Goes(p, i, pc) == threads' = [threads EXCEPT ![p][i].pc = pc]

(* Whether thread_joinall waits for a thread.                                    *)
Finished(t) == t.pc \in {"after", "stopped"}
Counted(t) == ~Finished(t) /\ t.hold # "released" /\ t.pc # "ignored"

ThreadsInit ==
    /\ threads = [p \in Program |-> <<Settings_Copy("main", <<>>, 0)>>]
    /\ thread_sNum = [p \in Program |-> 0]
    /\ nonterminating_num = [p \in Program |-> 0]
    /\ process = [p \in Program |-> "running"]
    /\ sThread = [p \in Program |-> FALSE]
    /\ sInterupted = [p \in Program |-> "no"]

--------------------------------------------------------------------------------
(* One of the settings a thread has to start becomes a thread.                   *)
thread_start(p, i) ==
    /\ threads[p][i].todo # <<>>
    /\ threads' = [threads EXCEPT ![p] =
          Append([threads[p] EXCEPT ![i].todo = Tail(@)], Head(threads[p][i].todo))]
    /\ thread_sNum' = [thread_sNum EXCEPT ![p] = @ + 1]
    /\ UNCHANGED <<nonterminating_num, process, signalVars>>

(* The end of thread_run_wrapper: the thread leaves the count, and starts what   *)
(* comes after it only then.                                                     *)
thread_run_wrapper(p, i) ==
    LET t == threads[p][i]
    IN /\ threads' = [threads EXCEPT ![p][i] =
             [t EXCEPT !.pc = "after", !.todo = t.next, !.next = <<>>,
                       !.rep = IF @ = "printed" THEN "released" ELSE @]]
       /\ thread_sNum' = [thread_sNum EXCEPT ![p] = @ - 1]
       /\ UNCHANGED <<nonterminating_num, process, signalVars>>

(* FAIL: a thread stops at once, and what it was to start is forgotten.          *)
thread_stop(p, i) ==
    /\ threads' = [threads EXCEPT ![p][i] = [@ EXCEPT !.pc = "stopped", !.next = <<>>]]
    /\ thread_sNum' = [thread_sNum EXCEPT ![p] = @ - 1]
    /\ UNCHANGED <<nonterminating_num, process, signalVars>>

(* The reporter, when it has nothing to print and when it has again.             *)
thread_setignore(p, i) ==
    /\ Goes(p, i, "ignored")
    /\ thread_sNum' = [thread_sNum EXCEPT ![p] = @ - 1]
    /\ UNCHANGED <<nonterminating_num, process, signalVars>>
thread_unsetignore(p, i) ==
    /\ Goes(p, i, "work")
    /\ thread_sNum' = [thread_sNum EXCEPT ![p] = @ + 1]
    /\ UNCHANGED <<nonterminating_num, process, signalVars>>

(* The listener, before and after it listens.                                    *)
thread_register_nonterm(p, i) ==
    /\ At(p, i, "register")
    /\ threads' = [threads EXCEPT ![p][i] = [@ EXCEPT !.pc = "listen", !.hold = "nonterm"]]
    /\ nonterminating_num' = [nonterminating_num EXCEPT ![p] = @ + 1]
    /\ UNCHANGED <<thread_sNum, process, signalVars>>
thread_unregister_nonterm(p, i) ==
    /\ At(p, i, "unregister")
    /\ threads' = [threads EXCEPT ![p][i] = [@ EXCEPT !.pc = "finish", !.hold = "no"]]
    /\ IF nonterminating_num[p] = 0
       THEN /\ thread_sNum' = [thread_sNum EXCEPT ![p] = @ + 1]
            /\ UNCHANGED nonterminating_num
       ELSE /\ nonterminating_num' = [nonterminating_num EXCEPT ![p] = @ - 1]
            /\ UNCHANGED thread_sNum
    /\ UNCHANGED <<process, signalVars>>

(* The listeners leave the count.                                                *)
Released(ts) ==
    [i \in DOMAIN ts |-> IF ts[i].hold = "nonterm" THEN [ts[i] EXCEPT !.hold = "released"] ELSE ts[i]]
StillHeldAsBefore(n) == n
StillHeld(n) == 0
thread_release_nonterm(p) ==
    /\ threads' = [threads EXCEPT ![p] = Released(@)]
    /\ thread_sNum' = [thread_sNum EXCEPT ![p] = @ - nonterminating_num[p]]
    /\ nonterminating_num' = [nonterminating_num EXCEPT ![p] = StillHeld(@)]

(* The main thread starts what it has to and waits; when nobody is counted the   *)
(* process ends, whatever its other threads do.                                  *)
Waits(p) == process[p] = "running" /\ At(p, 1, "join") /\ threads[p][1].todo = <<>>
thread_joinall(p) ==
    /\ Waits(p)
    /\ thread_sNum[p] <= 0
    /\ process' = [process EXCEPT ![p] = "joined"]
    /\ UNCHANGED <<threads, countVars, signalVars>>

(* A signal.  The system hands a signal for the process to the main thread.  The *)
(* second one ends the process, whichever the first was; of an alarm, only       *)
(* sInterupted tells.                                                            *)
Sig_Interupt(p, signo) ==
    /\ process[p] = "running"
    /\ IF sThread[p]
       THEN /\ process' = [process EXCEPT ![p] = "killed"]
            /\ UNCHANGED <<threads, countVars, signalVars>>
       ELSE /\ sThread' = [sThread EXCEPT ![p] = TRUE]
            /\ sInterupted' = [sInterupted EXCEPT ![p] = signo]
            /\ IF signo = "ALRM" THEN UNCHANGED <<threads, countVars>>
               ELSE thread_release_nonterm(p)
            /\ UNCHANGED process

--------------------------------------------------------------------------------
(* The count is the number of threads that are to be waited for: started and not *)
(* finished, but for a reporter without reports and a listener after an          *)
(* interrupt.  An interrupt may come at any time, before the listener is         *)
(* registered or after it is taken out (Thread.c:328-392).                       *)
CountIsRight ==
    \A p \in Program :
        thread_sNum[p] = Quantify(Thread(p) \ {1}, LAMBDA i : Counted(threads[p][i]))
================================================================================
