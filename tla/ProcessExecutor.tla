--------------------------- MODULE ProcessExecutor ---------------------------
(***************************************************************************)
(* Processes and PosixProcessExecutor, whose calls fork, wait for and stop *)
(* them.  A process is a pid.  It is alive, then ended, a zombie that      *)
(* still has its pid, then reaped by a waitpid().  Pids are not used       *)
(* twice.  SIGTERM leaves a process free to end or not, which it is        *)
(* anyway.                                                                 *)
(*                                                                         *)
(* terminate() and kill() are the calls of one controlling thread, and     *)
(* take several steps.                                                     *)
(***************************************************************************)
EXTENDS Naturals, FiniteSets

CONSTANTS
  Pids,
  NoPid         \* the pid 0

ASSUME ProcessExecutorAssumption == NoPid \notin Pids

VARIABLES
  os,           \* what has become of each pid
  ctl,          \* where the controlling thread is
  target,       \* the pid it works on
  stopped       \* the pids whose stop has returned (history)

ctlVars == <<ctl, target, stopped>>

OsStates == {"unused", "alive", "ended", "reaped"}

ExecutorInit ==
  /\ os = [p \in Pids |-> "unused"]
  /\ ctl = "out" /\ target = NoPid /\ stopped = {}

-----------------------------------------------------------------------------
\* execute(), when fork() succeeds.  What the program does is its own affair; one
\* that cannot be executed ends.
Spawn(p) ==
  /\ os[p] = "unused"
  /\ os' = [os EXCEPT ![p] = "alive"]
  /\ UNCHANGED ctlVars

\* Mutant of Wait: without a zombie of its own it waits for ever.
WaitForZombie(p) ==
  /\ os[p] = "ended"
  /\ os' = [os EXCEPT ![p] = "reaped"]
  /\ UNCHANGED ctlVars

\* wait() without a timeout ends when there is a zombie to reap, or with ECHILD
\* when another thread has reaped it.
Wait(p) ==
  /\ os[p] \in {"ended", "reaped"}
  /\ os' = [os EXCEPT ![p] = "reaped"]
  /\ UNCHANGED ctlVars

\* waitpid() with WNOHANG reaps a zombie, if there is one.
Polled(p) == IF p # NoPid /\ os[p] = "ended" THEN [os EXCEPT ![p] = "reaped"] ELSE os

\* is_running(): kill() with signal 0 reaches a zombie as well.
is_running_internal(p) == os[p] \in {"alive", "ended"}

\* get_state() makes of it one of two states.
get_state_internal(p) == IF is_running_internal(p) THEN "K_RUNNING" ELSE "K_STOPPED"

\* The stop of p returns.
Stopped(p) == ctl' = "out" /\ stopped' = stopped \union {p}

\* terminate(): SIGTERM; with nobody there any more, that is all.
TerminateInternal(p) ==
  /\ ctl = "out"
  /\ target' = p
  /\ IF os[p] = "reaped" THEN Stopped(p) ELSE ctl' = "polling" /\ UNCHANGED stopped
  /\ UNCHANGED os

PollEnded ==
  /\ ctl = "polling"
  /\ os[target] \in {"ended", "reaped"}
  /\ os' = Polled(target)
  /\ Stopped(target)
  /\ UNCHANGED target

\* Mutant of PollTimeout: the wait is given up without a SIGKILL.
PollGivesUp ==
  /\ ctl = "polling"
  /\ os[target] = "alive"
  /\ Stopped(target)
  /\ UNCHANGED <<os, target>>

\* Mutant of PollTimeout: the timeout is never looked at.
PollForEver ==
  /\ ctl = "polling"
  /\ os[target] = "alive"
  /\ UNCHANGED <<os, ctlVars>>

\* The timeout is over: SIGKILL.
PollTimeout ==
  /\ ctl = "polling"
  /\ os[target] = "alive"
  /\ os' = [os EXCEPT ![target] = "ended"]
  /\ ctl' = "reaping"
  /\ UNCHANGED <<target, stopped>>

\* kill(): SIGKILL, with somebody there.
KillInternal(p) ==
  /\ ctl = "out"
  /\ target' = p
  /\ IF os[p] = "reaped"
     THEN Stopped(p) /\ UNCHANGED os
     ELSE os' = [os EXCEPT ![p] = "ended"] /\ ctl' = "reaping" /\ UNCHANGED stopped

\* The blocking waitpid() after a SIGKILL.
ReapKilled ==
  /\ ctl = "reaping"
  /\ os[target] \in {"ended", "reaped"}
  /\ os' = [os EXCEPT ![target] = "reaped"]
  /\ Stopped(target)
  /\ UNCHANGED target

Stop == PollEnded \/ PollTimeout \/ ReapKilled

\* send_signal() with a signal that ends the process; it is not waited for.
SendSignalInternal(p) ==
  /\ ctl = "out"
  /\ os[p] = "alive"
  /\ os' = [os EXCEPT ![p] = "ended"]
  /\ UNCHANGED ctlVars

\* A process ends by itself, or of a SIGTERM.
Exit(p) ==
  /\ os[p] = "alive"
  /\ os' = [os EXCEPT ![p] = "ended"]
  /\ UNCHANGED ctlVars

=============================================================================
