---------------------------- MODULE ExecuteProcess ----------------------------
(***************************************************************************)
(* One ExecuteProcess action and the processes it starts: execute() with   *)
(* its retries on the thread that visits the action, and shutdown(),       *)
(* terminate(), kill(), send_signal() and is_running() on another, which   *)
(* is how a process that is waited for is stopped.  With enable_safety the *)
(* work is PosixProcessExecutor's and the pid is in process_id_; without,  *)
(* it is done in place and the pid is in process_.                         *)
(***************************************************************************)
EXTENDS ProcessExecutor, ResourceMonitor

CONSTANTS
  OptionSets,        \* the options that are considered
  EstimatedMemory,   \* max_memory_bytes, or what is assumed without
  Width,             \* how many values a uint32_t has
  MaxExecutes        \* bound: how often the action is executed

\* What of the options matters: enable_safety, output = "screen", a watchdog
\* timeout, max_retries, retry_delay, retry_backoff_multiplier (0 for none or
\* less).
Options == [safe : BOOLEAN, screen : BOOLEAN, watched : BOOLEAN, retries : Nat,
            delay : Nat, backoff : Nat]

ASSUME ExecuteProcessAssumption ==
  /\ OptionSets \subseteq Options
  /\ {EstimatedMemory, Width, MaxExecutes} \subseteq Nat
  /\ Width > 0

VARIABLES
  options,      \* options_
  handle,       \* process_id_
  process,      \* the pid in process_
  registered,   \* the pids in the watchdog
  pc,           \* where execute() is
  attempts,     \* the attempts of it that failed, if there are retries
  delay,        \* what it sleeps before the next
  launched,     \* the pid of its last fork
  result,       \* what it returned last, had it attempted anything
  executes,     \* how often it was called
  gone,         \* whether the object is destroyed
  leaked        \* the pids that were replaced by a later one (history)

runVars == <<pc, attempts, delay, launched, result, executes, gone, leaked>>
objectVars == <<handle, process, registered>>
vars == <<options, os, objectVars, runVars, ctlVars>>

Results == {"none", "started", "failed", "exhausted"}

Init ==
  /\ options \in OptionSets
  /\ ExecutorInit
  /\ handle = NoPid /\ process = NoPid /\ registered = {}
  /\ pc = "out" /\ attempts = 0 /\ delay = 0 /\ launched = NoPid
  /\ result = "none" /\ executes = 0 /\ gone = FALSE /\ leaked = {}

Return(r) == pc' = "out" /\ result' = r

-----------------------------------------------------------------------------
(* execute()                                                               *)

\* A command that does not validate is not attempted.
Execute ==
  /\ pc = "out" /\ ~gone /\ executes < MaxExecutes
  /\ executes' = executes + 1
  /\ \/ pc' = "attempt" /\ attempts' = 0
     \/ UNCHANGED <<pc, attempts>>
  /\ UNCHANGED <<options, os, objectVars, delay, launched, result, gone, leaked, ctlVars>>

\* Mutant of AttemptFails: the attempts are compared before they are counted.
AttemptFailsLate ==
  /\ pc = "attempt"
  /\ IF options.retries = 0
     THEN Return("failed") /\ UNCHANGED attempts
     ELSE /\ attempts' = attempts + 1
          /\ IF attempts > options.retries THEN Return("exhausted")
             ELSE pc' = "cleanup" /\ UNCHANGED result
  /\ UNCHANGED <<options, os, objectVars, delay, launched, executes, gone, leaked, ctlVars>>

\* Mutant of AttemptFails: that fork() has failed is not noticed.
AttemptFailsUnnoticed ==
  /\ pc = "attempt"
  /\ \E p \in Pids : os[p] = "unused" /\ handle' = p /\ process' = p
  /\ Return("started")
  /\ UNCHANGED <<options, os, registered, attempts, delay, launched, executes, gone, leaked,
                 ctlVars>>

\* Both errors of an attempt are K_PROCESS_SPAWN_FAILED, of which
\* is_retryable_error() holds.
AttemptFails ==
  /\ pc = "attempt"
  /\ IF options.retries = 0
     THEN Return("failed") /\ UNCHANGED attempts
     ELSE /\ attempts' = attempts + 1
          /\ IF attempts + 1 > options.retries THEN Return("exhausted")
             ELSE pc' = "cleanup" /\ UNCHANGED result
  /\ UNCHANGED <<options, os, objectVars, delay, launched, executes, gone, leaked, ctlVars>>

MayRefuse == options.safe /\ \E r \in Readings : ~Available(r, EstimatedMemory)
MayAdmit == ~options.safe \/ \E r \in Readings : Available(r, EstimatedMemory)

Refused == AttemptFails /\ MayRefuse
ForkFails == AttemptFails /\ MayAdmit

\* calculate_retry_delay(n): without a multiplier the delay is not converted; the
\* conversion to uint32_t of what is too large for it is undefined, and the build
\* truncates it or gives the largest value.
Delays(n) ==
  LET uint32 == 0 .. Width - 1
      exact == IF options.backoff = 1 THEN options.delay
               ELSE options.delay * options.backoff ^ (n - 1)
  IN  IF options.backoff = 0 THEN {options.delay}
      ELSE IF exact \in uint32 THEN {exact}
      ELSE {m \in uint32 : m \in {exact % Width, Width - 1}}

\* Mutant of CleanUp: process_id_ is reset before the watchdog is told.
CleanUpResetsFirst ==
  /\ pc = "cleanup"
  /\ os' = Polled(process)
  /\ process' = NoPid /\ handle' = NoPid
  /\ delay' \in Delays(attempts)
  /\ pc' = "sleeping"
  /\ UNCHANGED <<options, registered, attempts, launched, result, executes, gone, leaked,
                 ctlVars>>

\* cleanup_before_retry(): what an earlier execute() has started is sent a
\* SIGTERM and let go.
CleanUp ==
  /\ pc = "cleanup"
  /\ os' = Polled(process)
  /\ registered' = registered \ {handle}
  /\ process' = NoPid /\ handle' = NoPid
  /\ leaked' = IF process # NoPid /\ os[process] = "alive"
               THEN leaked \union {process} ELSE leaked
  /\ delay' \in Delays(attempts)
  /\ pc' = "sleeping"
  /\ UNCHANGED <<options, attempts, launched, result, executes, gone, ctlVars>>

Retry ==
  /\ pc = "sleeping"
  /\ pc' = "attempt" /\ delay' = 0
  /\ UNCHANGED <<options, os, objectVars, attempts, launched, result, executes, gone, leaked,
                 ctlVars>>

Replaced == ({handle, process} \ {NoPid}) \union leaked

\* Mutant of AttemptStarts: the watchdog is told before process_id_ is set, and
\* that it refuses is taken for a failed attempt.
AttemptStartsUnheld(p) ==
  /\ pc = "attempt"
  /\ Spawn(p)
  /\ launched' = p
  /\ Return("failed")
  /\ UNCHANGED <<options, objectVars, attempts, delay, executes, gone, leaked>>

\* There is enough of everything and fork() succeeds.  With safety the watchdog is
\* told of the process and process_ is set last; without, process_ is set at once.
AttemptStarts(p) ==
  /\ pc = "attempt"
  /\ MayAdmit
  /\ Spawn(p)
  /\ launched' = p
  /\ leaked' = Replaced
  /\ IF options.safe
     THEN /\ handle' = p
          /\ registered' = IF options.watched THEN registered \union {p} ELSE registered
          /\ pc' = IF options.screen THEN "waiting" ELSE "wrapping"
          /\ UNCHANGED <<process, result>>
     ELSE /\ process' = p
          /\ IF options.screen THEN pc' = "waiting" /\ UNCHANGED result
                               ELSE Return("started")
          /\ UNCHANGED <<handle, registered>>
  /\ UNCHANGED <<options, attempts, delay, executes, gone>>

\* The wait for a process with output to the screen: wait_internal(), or
\* Process::wait(), which does the same.
WaitForIt ==
  /\ pc = "waiting"
  /\ Wait(launched)
  /\ IF options.safe THEN pc' = "wrapping" /\ UNCHANGED result ELSE Return("started")
  /\ UNCHANGED <<options, objectVars, attempts, delay, launched, executes, gone, leaked>>

Wrap ==
  /\ pc = "wrapping"
  /\ process' = launched
  /\ Return("started")
  /\ UNCHANGED <<options, os, handle, registered, attempts, delay, launched, executes, gone,
                 leaked, ctlVars>>

-----------------------------------------------------------------------------
(* shutdown(), terminate(), kill() and send_signal().                      *)

Rest == <<options, objectVars, runVars>>

\* With safety they are calls of the executor on process_id_.
ByExecutor == ~gone /\ options.safe /\ handle # NoPid

Terminate == ByExecutor /\ TerminateInternal(handle) /\ UNCHANGED Rest
Kill == ByExecutor /\ KillInternal(handle) /\ UNCHANGED Rest
GoOnStopping == Stop /\ UNCHANGED Rest

\* Without, they work on process_ in place.
InPlace == ~gone /\ ~ByExecutor /\ process # NoPid

\* shutdown(), terminate() and is_running() poll the process; SIGTERM follows
\* if it is alive, and no SIGKILL ever.
PollInPlace ==
  /\ ctl = "out" /\ InPlace
  /\ os[process] = "ended"
  /\ os' = Polled(process)
  /\ UNCHANGED <<Rest, ctlVars>>

\* kill() sends SIGKILL and waits for nothing.
KillInPlace == InPlace /\ SendSignalInternal(process) /\ UNCHANGED Rest

SendSignal ==
  /\ \/ ByExecutor /\ SendSignalInternal(handle)
     \/ InPlace /\ SendSignalInternal(process)
  /\ UNCHANGED Rest

\* What the action says of itself.  Without safety, a process that is polled and
\* found to have ended is reaped by the question (PollInPlace).
is_running ==
  \/ ByExecutor /\ is_running_internal(handle)
  \/ InPlace /\ os[process] = "alive"

get_pid == IF ByExecutor THEN handle ELSE process

\* The destructor, when nobody is inside a call: the watchdog, which may be shared
\* with other actions, is told, and what runs is left running.
Destroy ==
  /\ ~gone /\ pc = "out" /\ ctl = "out"
  /\ gone' = TRUE
  /\ registered' = registered \ {handle}
  /\ UNCHANGED <<options, os, handle, process, pc, attempts, delay, launched, result, executes,
                 leaked, ctlVars>>

End(p) == Exit(p) /\ UNCHANGED Rest

-----------------------------------------------------------------------------
Attempt ==
  \/ Refused \/ ForkFails \/ \E p \in Pids : AttemptStarts(p)
  \/ CleanUp \/ Retry \/ WaitForIt \/ Wrap

Next ==
  \/ Execute \/ Attempt
  \/ Terminate \/ Kill \/ GoOnStopping
  \/ PollInPlace \/ KillInPlace \/ SendSignal
  \/ Destroy
  \/ \E p \in Pids : End(p)

Spec == Init /\ [][Next]_vars

\* Both threads are scheduled inside their calls, delays and timeouts end, and
\* fork() comes to a result.  Nothing makes a process end.
FairSpec == Spec /\ WF_vars(Attempt) /\ WF_vars(GoOnStopping)

-----------------------------------------------------------------------------
\* A process that is not there yet is in nobody's hands.
Unborn ==
  \A p \in Pids : os[p] = "unused" =>
    p \notin {handle, process, launched, target} \union registered

\* Every variable keeps to its type, and no pid is named before its process is there.
TypeOK ==
  /\ options \in OptionSets
  /\ os \in [Pids -> OsStates]
  /\ {handle, process, launched, target} \subseteq Pids \union {NoPid}
  /\ registered \subseteq Pids /\ stopped \subseteq Pids /\ leaked \subseteq Pids
  /\ pc \in {"out", "attempt", "cleanup", "sleeping", "waiting", "wrapping"}
  /\ attempts \in Nat /\ delay \in Nat /\ executes \in 0 .. MaxExecutes
  /\ gone \in BOOLEAN
  /\ result \in Results
  /\ ctl \in {"out", "polling", "reaping"}
  /\ Unborn

\* When the executor's stop of a process returns, the process is gone and so is
\* its zombie, whoever reaped it, the thread that waits for it or this one, and
\* the executor and the action say so.
StoppedIsGone ==
  \A p \in stopped :
    os[p] = "reaped" /\ get_state_internal(p) = "K_STOPPED" /\ (get_pid = p => ~is_running)

\* A process that is alive is the one the action names and calls running, unless
\* it has been replaced by executing the action again or the object is destroyed.
NothingOutOfReach ==
  \A p \in Pids :
    os[p] = "alive" => gone \/ (get_pid = p /\ is_running) \/ p \in leaked

\* The watchdog watches the process in process_id_ and, of others, only those
\* that were replaced by executing the action again; none for a destroyed action.
WatchesItsOwn == registered \subseteq (IF gone THEN {} ELSE {handle}) \union leaked

\* execute() retries as the retry policies of the library would: with retries as a
\* RetryPolicy of max_retries + 1 attempts, which counts the first one in, with its
\* delays, its retryable errors and its verdict; without, as a NoRetryPolicy, which
\* hands out the error.  A multiplier of none or less is taken for 1 here.
Policy == INSTANCE RetryPolicy WITH
  config <- [retrying |-> options.retries > 0, max_attempts |-> options.retries + 1,
             initial_delay |-> options.delay,
             backoff_multiplier |-> IF options.backoff = 0 THEN 1 ELSE options.backoff,
             retryable_errors |-> {"kForkFailed", "kTimeout", "kResourceExhausted"}],
  stage <- CASE pc = "cleanup" -> "again"
             [] pc \in {"out", "sleeping"} -> pc
             [] OTHER -> "trying",
  attempt <- attempts,
  outcome <- CASE result = "none" -> "none"
               [] result = "started" -> "kSuccess"
               [] result = "failed" -> "kForkFailed"
               [] result = "exhausted" -> "kMaxRetriesExceeded"

ImplementsRetryPolicy == Policy!Spec

\* execute() returns if the process is not to be waited for, or has ended.
ExecuteReturns ==
  /\ (pc # "out" /\ ~options.screen) ~> pc = "out"
  /\ (pc = "waiting" /\ os[launched] # "alive") ~> pc = "out"

\* shutdown(), terminate() and kill() return, though the process may ignore the
\* SIGTERM.
StopReturns == ctl # "out" ~> ctl = "out"

=============================================================================
