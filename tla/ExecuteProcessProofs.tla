------------------------- MODULE ExecuteProcessProofs -------------------------
(***************************************************************************)
(* Proofs about ExecuteProcess, for any set of pids, any options and any   *)
(* readings of the resources.                                              *)
(***************************************************************************)
EXTENDS ExecuteProcess, TLAPS

-----------------------------------------------------------------------------
(* The inductive invariant.                                                *)

\* The pid that stands for the process: with safety process_id_, else process_.
Own == IF options.safe THEN handle ELSE process

\* Which of the two members names the process, and when they agree; whatever
\* else is alive has been replaced.
Ownership ==
  /\ ~options.safe => handle = NoPid /\ registered = {} /\ pc # "wrapping"
  /\ options.safe /\ pc \notin {"waiting", "wrapping"} => process = handle
  /\ pc \in {"waiting", "wrapping"} => launched \in Pids /\ launched = Own
  /\ gone => pc = "out"
  /\ \A p \in Pids : os[p] = "alive" => p \in leaked \/ p = Own

\* A stop is of a process that is there, and returns when it is reaped.
Stopping ==
  /\ \A p \in stopped : os[p] = "reaped"
  /\ ctl # "out" => target \in Pids

IInv == TypeOK /\ Ownership /\ Stopping /\ WatchesItsOwn

LEMMA OptionTypes ==
  ASSUME options \in OptionSets
  PROVE  /\ options.safe \in BOOLEAN /\ options.screen \in BOOLEAN
         /\ options.watched \in BOOLEAN
         /\ options.retries \in Nat /\ options.delay \in Nat /\ options.backoff \in Nat
  BY ExecuteProcessAssumption DEF Options

LEMMA InvInit == Init => IInv
  <1> SUFFICES ASSUME Init PROVE IInv
    OBVIOUS
  <1> USE DEF Init, ExecutorInit
  <1>1. gone \in BOOLEAN
    BY Zenon
  <1>2. Unborn
    BY ProcessExecutorAssumption DEF Unborn
  <1>3. TypeOK
    BY <1>1, <1>2, ExecuteProcessAssumption DEF TypeOK, OsStates, Results
  <1>4. Ownership /\ Stopping /\ WatchesItsOwn
    BY DEF Ownership, Stopping, WatchesItsOwn, Own
  <1>. QED
    BY <1>3, <1>4 DEF IInv

-----------------------------------------------------------------------------
(* Steps that end and reap processes.                                      *)

\* A process that changes goes from alive to ended or from either to reaped.
Onward ==
  /\ os' \in [Pids -> OsStates]
  /\ \A p \in Pids : os'[p] # os[p] =>
       os[p] \in {"alive", "ended"} /\ os'[p] \in {"ended", "reaped"}

LEMMA ToEnded ==
  ASSUME TypeOK, NEW p \in Pids, os[p] \in {"alive", "ended"},
         os' = [os EXCEPT ![p] = "ended"]
  PROVE  Onward
  BY DEF Onward, TypeOK, OsStates

LEMMA ToReaped ==
  ASSUME TypeOK, NEW p \in Pids, os[p] \in {"ended", "reaped"},
         os' = [os EXCEPT ![p] = "reaped"]
  PROVE  Onward /\ os'[p] = "reaped"
  BY DEF Onward, TypeOK, OsStates

LEMMA PolledFacts ==
  ASSUME TypeOK, NEW p \in Pids \union {NoPid}, os' = Polled(p)
  PROVE  Onward /\ (p \in Pids /\ os[p] \in {"ended", "reaped"} => os'[p] = "reaped")
  BY ProcessExecutorAssumption DEF Onward, TypeOK, OsStates, Polled

\* Onward keeps what the invariant says of processes that nobody touches.
LEMMA OnwardKeeps ==
  ASSUME TypeOK, Onward, Stopping
  PROVE  /\ \A p \in Pids : os'[p] = "alive" => os[p] = "alive"
         /\ \A p \in Pids : os'[p] = "unused" => os[p] = "unused"
         /\ \A p \in stopped : os'[p] = "reaped"
  BY DEF TypeOK, Onward, Stopping

\* What the controlling thread and the processes do leaves the object alone.
LEMMA RestStep ==
  ASSUME IInv, UNCHANGED Rest, Onward,
         ctl' \in {"out", "polling", "reaping"},
         target' = target \/ (target' \in Pids /\ os[target'] # "unused"),
         ctl' # "out" => target' \in Pids,
         stopped' = stopped \/ \E p \in Pids : stopped' = stopped \union {p} /\ os'[p] = "reaped"
  PROVE  IInv'
  <1> USE DEF IInv, Rest, objectVars, runVars
  <1>1. /\ \A p \in Pids : os'[p] = "alive" => os[p] = "alive"
        /\ \A p \in Pids : os'[p] = "unused" => os[p] = "unused"
        /\ \A p \in stopped : os'[p] = "reaped"
    BY OnwardKeeps
  <1>2. Unborn'
    BY <1>1 DEF TypeOK, Unborn
  <1>3. TypeOK'
    BY <1>2 DEF TypeOK, Onward
  <1>4. Ownership'
    BY <1>1 DEF Ownership, Own
  <1>5. Stopping'
    BY <1>1 DEF Stopping
  <1>6. WatchesItsOwn'
    BY DEF WatchesItsOwn
  <1>. QED
    BY <1>3, <1>4, <1>5, <1>6

LEMMA ControlStep ==
  ASSUME IInv,
         \/ Terminate \/ Kill \/ GoOnStopping \/ PollInPlace \/ KillInPlace \/ SendSignal
         \/ \E p \in Pids : End(p)
  PROVE  IInv'
  <1> USE DEF IInv
  <1>1. \A p \in Pids : os[p] \in OsStates
    BY DEF TypeOK
  <1>2. /\ handle # NoPid => handle \in Pids /\ os[handle] # "unused"
        /\ process # NoPid => process \in Pids /\ os[process] # "unused"
    BY DEF TypeOK, Unborn
  <1>3. Onward \/ os' # os
    BY DEF Onward, TypeOK
  <1>4. CASE Terminate
    <2>1. handle \in Pids /\ os[handle] # "unused"
      BY <1>2, <1>4 DEF Terminate, ByExecutor
    <2>. QED
      BY <1>3, <1>4, <2>1, RestStep DEF Terminate, TerminateInternal, Stopped
  <1>5. CASE Kill
    <2>1. handle \in Pids /\ os[handle] # "unused"
      BY <1>2, <1>5 DEF Kill, ByExecutor
    <2>2. CASE os[handle] = "reaped"
      BY <1>3, <1>5, <2>1, <2>2, RestStep DEF Kill, KillInternal, Stopped
    <2>3. CASE os[handle] \in {"alive", "ended"}
      <3>1. Onward
        BY <1>5, <2>1, <2>3, ToEnded DEF Kill, KillInternal
      <3>. QED
        BY <1>5, <2>1, <2>3, <3>1, RestStep DEF Kill, KillInternal
    <2>. QED
      BY <1>1, <2>1, <2>2, <2>3 DEF OsStates
  <1>6. CASE GoOnStopping
    <2>1. target \in Pids
      BY <1>6 DEF GoOnStopping, Stop, PollEnded, PollTimeout, ReapKilled, Stopping
    <2>2. CASE PollEnded
      <3>1. Onward /\ os'[target] = "reaped"
        BY <2>1, <2>2, PolledFacts DEF PollEnded
      <3>. QED
        BY <1>6, <2>1, <2>2, <3>1, RestStep DEF GoOnStopping, PollEnded, Stopped
    <2>3. CASE PollTimeout
      <3>1. Onward
        BY <2>1, <2>3, ToEnded DEF PollTimeout
      <3>. QED
        BY <1>6, <2>1, <2>3, <3>1, RestStep DEF GoOnStopping, PollTimeout
    <2>4. CASE ReapKilled
      <3>1. Onward /\ os'[target] = "reaped"
        BY <2>1, <2>4, ToReaped DEF ReapKilled
      <3>. QED
        BY <1>6, <2>1, <2>4, <3>1, RestStep DEF GoOnStopping, ReapKilled, Stopped
    <2>. QED
      BY <1>6, <2>2, <2>3, <2>4 DEF GoOnStopping, Stop
  <1>7. CASE PollInPlace
    <2>1. process \in Pids \union {NoPid} /\ ctl = "out"
      BY <1>7 DEF TypeOK, PollInPlace
    <2>2. Onward
      BY <1>7, <2>1, PolledFacts DEF PollInPlace
    <2>. QED
      BY <1>7, <2>1, <2>2, RestStep DEF PollInPlace, ctlVars
  <1>8. ASSUME NEW p \in Pids, os[p] = "alive", os' = [os EXCEPT ![p] = "ended"],
               UNCHANGED Rest, UNCHANGED ctlVars
        PROVE  IInv'
    <2>1. Onward
      BY <1>8, ToEnded
    <2>. QED
      BY <1>8, <2>1, RestStep DEF ctlVars, TypeOK, Stopping
  <1>9. CASE KillInPlace \/ SendSignal
    BY <1>2, <1>8, <1>9 DEF KillInPlace, SendSignal, SendSignalInternal, InPlace, ByExecutor
  <1>10. ASSUME NEW p \in Pids, End(p) PROVE IInv'
    BY <1>8, <1>10 DEF End, Exit
  <1>. QED
    BY <1>4, <1>5, <1>6, <1>7, <1>9, <1>10

-----------------------------------------------------------------------------
(* The steps of execute() and of the destructor.                           *)

\* Steps that move execute() on and touch no process and no member that names one.
LEMMA CountStep ==
  ASSUME IInv, Execute \/ AttemptFails \/ Retry
  PROVE  IInv'
  <1> USE DEF IInv, Execute, AttemptFails, Retry, Return, objectVars, ctlVars
  <1>1. Unborn'
    BY DEF TypeOK, Unborn
  <1>2. attempts' \in Nat /\ executes' \in 0 .. MaxExecutes /\ delay' \in Nat
    BY ExecuteProcessAssumption DEF TypeOK
  <1>3. TypeOK'
    BY <1>1, <1>2 DEF TypeOK, Results
  <1>4. pc \notin {"waiting", "wrapping"} /\ pc' \notin {"waiting", "wrapping"} /\ ~gone
    BY DEF Ownership
  <1>5. Ownership'
    BY <1>4 DEF Ownership, Own
  <1>6. Stopping' /\ WatchesItsOwn'
    BY DEF Stopping, WatchesItsOwn
  <1>. QED
    BY <1>3, <1>5, <1>6

\* Every delay fits its type, however large the exponential back-off grows.
LEMMA DelayType ==
  ASSUME options \in OptionSets, NEW n \in Nat
  PROVE  Delays(n) \subseteq Nat
  BY OptionTypes, ExecuteProcessAssumption DEF Delays

LEMMA CleanUpStep == ASSUME IInv, CleanUp PROVE IInv'
  <1> USE DEF IInv, CleanUp, ctlVars
  <1>1. Onward
    BY PolledFacts DEF TypeOK
  <1>2. /\ \A p \in Pids : os'[p] = "alive" => os[p] = "alive"
        /\ \A p \in Pids : os'[p] = "unused" => os[p] = "unused"
        /\ \A p \in stopped : os'[p] = "reaped"
    BY <1>1, OnwardKeeps
  <1>3. leaked \subseteq leaked' /\ leaked' \subseteq Pids
        /\ (process # NoPid /\ os[process] = "alive" => process \in leaked')
    BY DEF TypeOK
  <1>4. delay' \in Nat
    BY DelayType DEF TypeOK
  <1>5. Unborn'
    BY <1>2, ProcessExecutorAssumption DEF TypeOK, Unborn
  <1>6. TypeOK'
    BY <1>1, <1>3, <1>4, <1>5 DEF TypeOK, Onward
  <1>7. Ownership'
    <2>1. process' = NoPid /\ handle' = NoPid /\ options' = options /\ ~gone
      BY DEF Ownership
    <2>2. ASSUME NEW p \in Pids, os'[p] = "alive" PROVE p \in leaked'
      <3>1. os[p] = "alive" /\ (p \in leaked \/ p = process)
        BY <1>2, <2>2 DEF Ownership, Own
      <3>. QED
        BY <1>3, <3>1, ProcessExecutorAssumption
    <2>. QED
      BY <2>1, <2>2 DEF Ownership, Own
  <1>8. Stopping'
    BY <1>2 DEF Stopping
  <1>9. WatchesItsOwn'
    BY <1>3 DEF WatchesItsOwn, Ownership
  <1>. QED
    BY <1>6, <1>7, <1>8, <1>9

LEMMA StartStep == ASSUME IInv, NEW p \in Pids, AttemptStarts(p) PROVE IInv'
  <1> USE DEF IInv, AttemptStarts, Return
  <1>1. os[p] = "unused" /\ os' = [os EXCEPT ![p] = "alive"] /\ UNCHANGED ctlVars
    BY DEF Spawn
  <1>2. /\ pc = "attempt" /\ ~gone /\ process \in Pids \union {NoPid}
        /\ handle \in Pids \union {NoPid}
    BY DEF Ownership, TypeOK
  <1>3. /\ leaked' = ({handle, process} \ {NoPid}) \union leaked
        /\ leaked' \subseteq Pids
    BY DEF Replaced, TypeOK
  <1>4. /\ handle' = IF options.safe THEN p ELSE handle
        /\ process' = IF options.safe THEN process ELSE p
        /\ launched' = p /\ options' = options
        /\ registered' \in {registered, registered \union {p}}
    OBVIOUS
  <1>5. \A q \in Pids : os'[q] = "unused" => os[q] = "unused" /\ q # p
    BY <1>1 DEF TypeOK
  <1>6. Unborn'
    <2>1. \A q \in Pids : os'[q] = "unused" => q \notin {handle, process, launched, target} \union registered
      BY <1>5 DEF TypeOK, Unborn
    <2>2. target' = target
      BY <1>1 DEF ctlVars
    <2>. QED
      BY <1>4, <1>5, <2>1, <2>2 DEF Unborn
  <1>7. TypeOK'
    BY <1>1, <1>3, <1>4, <1>6 DEF TypeOK, OsStates, Results, ctlVars
  <1>8. Ownership'
    <2>1. Own' = p /\ (options.safe => pc' # "attempt")
      BY <1>4 DEF Own
    <2>2. ASSUME NEW q \in Pids, os'[q] = "alive" PROVE q \in leaked' \/ q = p
      <3>1. CASE q # p
        <4>1. os[q] = "alive"
          BY <1>1, <2>2, <3>1 DEF TypeOK
        <4>. QED
          BY <1>3, <4>1, ProcessExecutorAssumption DEF Ownership, Own
      <3>. QED
        BY <3>1
    <2>3. ~options.safe => handle' = NoPid /\ registered' = {} /\ pc' # "wrapping"
      BY DEF Ownership
    <2>4. options.safe => pc' \in {"waiting", "wrapping"}
      OBVIOUS
    <2>. QED
      BY <1>2, <1>4, <2>1, <2>2, <2>3, <2>4 DEF Ownership
  <1>9. Stopping'
    BY <1>1 DEF Stopping, TypeOK, ctlVars
  <1>10. WatchesItsOwn'
    BY <1>2, <1>3, <1>4, ProcessExecutorAssumption DEF WatchesItsOwn, TypeOK, Ownership
  <1>. QED
    BY <1>7, <1>8, <1>9, <1>10

LEMMA WaitStep == ASSUME IInv, WaitForIt \/ Wrap PROVE IInv'
  <1> USE DEF IInv, WaitForIt, Wrap, Return
  <1>1. launched \in Pids /\ launched = Own /\ os[launched] # "unused" /\ ~gone
    BY DEF Ownership, TypeOK, Unborn
  <1>2. Onward
    <2>1. CASE WaitForIt
      BY <1>1, <2>1, ToReaped DEF Wait
    <2>2. CASE Wrap
      BY <2>2 DEF Onward, TypeOK
    <2>. QED
      BY <2>1, <2>2
  <1>3. /\ \A p \in Pids : os'[p] = "alive" => os[p] = "alive"
        /\ \A p \in Pids : os'[p] = "unused" => os[p] = "unused"
        /\ \A p \in stopped : os'[p] = "reaped"
    BY <1>2, OnwardKeeps
  <1>4. UNCHANGED ctlVars /\ UNCHANGED <<options, handle, registered, leaked, gone, launched>>
        /\ process' \in {process, launched}
    BY DEF Wait, objectVars
  <1>5. Unborn'
    BY <1>1, <1>3, <1>4 DEF TypeOK, Unborn, ctlVars
  <1>6. TypeOK'
    BY <1>2, <1>4, <1>5 DEF TypeOK, Onward, Results, ctlVars
  <1>7. Ownership'
    BY <1>1, <1>3, <1>4 DEF Ownership, Own, objectVars
  <1>8. Stopping' /\ WatchesItsOwn'
    BY <1>3, <1>4 DEF Stopping, WatchesItsOwn, ctlVars
  <1>. QED
    BY <1>6, <1>7, <1>8

LEMMA DestroyStep == ASSUME IInv, Destroy PROVE IInv'
  <1> USE DEF IInv, Destroy, ctlVars
  <1>1. gone' \in BOOLEAN
    BY Zenon
  <1>2. Unborn'
    BY DEF TypeOK, Unborn
  <1>3. TypeOK'
    BY <1>1, <1>2 DEF TypeOK
  <1>4. Ownership' /\ Stopping'
    BY DEF Ownership, Own, Stopping
  <1>5. WatchesItsOwn'
    BY DEF WatchesItsOwn
  <1>. QED
    BY <1>3, <1>4, <1>5

LEMMA InvStep == IInv /\ [Next]_vars => IInv'
  <1> SUFFICES ASSUME IInv, [Next]_vars PROVE IInv'
    OBVIOUS
  <1>1. CASE Execute \/ Attempt
    BY <1>1, CountStep, CleanUpStep, StartStep, WaitStep DEF Attempt, Refused, ForkFails
  <1>2. CASE \/ Terminate \/ Kill \/ GoOnStopping \/ PollInPlace \/ KillInPlace \/ SendSignal
             \/ \E p \in Pids : End(p)
    BY <1>2, ControlStep
  <1>3. CASE Destroy
    BY <1>3, DestroyStep
  <1>4. CASE UNCHANGED vars
    <2>1. Onward
      BY <1>4 DEF vars, Onward, IInv, TypeOK
    <2>. QED
      BY <1>4, <2>1, RestStep DEF vars, Rest, ctlVars, IInv, TypeOK, Stopping
  <1>. QED
    BY <1>1, <1>2, <1>3, <1>4 DEF Next

\* The inductive invariant holds in every reachable state.
THEOREM Invariance == Spec => []IInv
  BY InvInit, InvStep, PTL DEF Spec

-----------------------------------------------------------------------------
(* The properties.                                                         *)

\* Every variable keeps its type, and no pid is named before its process is there.
THEOREM TypeCorrect == Spec => []TypeOK
  <1>1. IInv => TypeOK
    BY DEF IInv
  <1>. QED
    BY <1>1, Invariance, PTL

\* When a terminate() or kill() of the executor returns, the process is reaped and
\* everybody says so, whoever else waited for it: src/safety/posix_process_executor.cpp.
THEOREM StoppedProcessIsGone == Spec => []StoppedIsGone
  <1>1. IInv => StoppedIsGone
    <2> SUFFICES ASSUME IInv, NEW p \in stopped
                 PROVE  /\ os[p] = "reaped" /\ get_state_internal(p) = "K_STOPPED"
                        /\ get_pid = p => ~is_running
      BY DEF StoppedIsGone
    <2>1. os[p] = "reaped"
      BY DEF IInv, Stopping
    <2>2. get_state_internal(p) = "K_STOPPED" /\ ~is_running_internal(p)
      BY <2>1 DEF get_state_internal, is_running_internal
    <2>3. get_pid = p => ~is_running
      BY <2>1, <2>2 DEF get_pid, is_running, InPlace
    <2>. QED
      BY <2>1, <2>2, <2>3
  <1>. QED
    BY <1>1, Invariance, PTL

\* No process is alive that the action neither names nor has replaced, before its
\* destruction: src/actions/execute_process.cpp.
THEOREM ProcessIsHeld == Spec => []NothingOutOfReach
  <1>1. IInv => NothingOutOfReach
    <2> SUFFICES ASSUME IInv, NEW p \in Pids, os[p] = "alive", ~gone, p \notin leaked
                 PROVE  get_pid = p /\ is_running
      BY DEF NothingOutOfReach
    <2>1. p = Own /\ p # NoPid
      BY ProcessExecutorAssumption DEF IInv, Ownership
    <2>2. CASE options.safe
      BY <2>1, <2>2 DEF Own, get_pid, is_running, ByExecutor, is_running_internal
    <2>3. CASE ~options.safe
      BY <2>1, <2>3 DEF Own, get_pid, is_running, ByExecutor, InPlace
    <2>. QED
      BY <2>2, <2>3
  <1>. QED
    BY <1>1, Invariance, PTL

\* The watchdog is never left with a process that the action has let go of, unless
\* by executing it again, nor with one of an action that is destroyed.
THEOREM WatchIsGivenUp == Spec => []WatchesItsOwn
  <1>1. IInv => WatchesItsOwn
    BY DEF IInv
  <1>. QED
    BY <1>1, Invariance, PTL

-----------------------------------------------------------------------------
(* execute() implements the retry policy.                                  *)

\* A delay that is not multiplied is not converted to uint32_t by ExecuteProcess,
\* and is by RetryPolicy: the two agree below 2^32 milliseconds.
PlainDelaysFit == \A o \in OptionSets : o.backoff = 0 => o.delay < Width

LEMMA PolicyInit == Init => Policy!Init
  <1> SUFFICES ASSUME Init PROVE Policy!Init
    OBVIOUS
  <1>1. options \in OptionSets /\ pc = "out" /\ attempts = 0 /\ delay = 0 /\ result = "none"
    BY DEF Init
  <1>2. (options.retries > 0) = TRUE \/ (options.retries > 0) = FALSE
    BY OptionTypes, <1>1
  <1>3. /\ options.retries + 1 \in Nat /\ options.delay \in Nat
        /\ (IF options.backoff = 0 THEN 1 ELSE options.backoff) \in Nat
    BY <1>1, OptionTypes
  <1>4. {"kForkFailed", "kTimeout", "kResourceExhausted"} \subseteq Policy!Errors
    BY DEF Policy!Errors
  <1>5. [retrying |-> options.retries > 0, max_attempts |-> options.retries + 1,
         initial_delay |-> options.delay,
         backoff_multiplier |-> IF options.backoff = 0 THEN 1 ELSE options.backoff,
         retryable_errors |-> {"kForkFailed", "kTimeout", "kResourceExhausted"}]
          \in Policy!Configs
    BY <1>2, <1>3, <1>4 DEF Policy!Configs
  <1>. QED
    BY <1>1, <1>5 DEF Policy!Init

\* The delay before a retry is one that calculate_delay() of the policy may give.
LEMMA SameDelays ==
  ASSUME PlainDelaysFit, options \in OptionSets, NEW n \in Nat
  PROVE  Delays(n) = Policy!Delays(options.delay,
                       IF options.backoff = 0 THEN 1 ELSE options.backoff, n)
  <1>1. CASE options.backoff # 0
    <2>1. Delays(n) = Policy!Delays(options.delay, options.backoff, n)
      BY <1>1, Zenon DEF Delays, Policy!Delays, Policy!Converted, Policy!Uint32
    <2>. QED
      BY <1>1, <2>1
  <1>2. CASE options.backoff = 0
    <2>1. options.delay \in Policy!Uint32
      BY <1>2, OptionTypes, ExecuteProcessAssumption DEF PlainDelaysFit, Policy!Uint32
    <2>2. Policy!Delays(options.delay, 1, n) = {options.delay}
      BY <2>1, Zenon DEF Policy!Delays, Policy!Converted
    <2>3. Delays(n) = {options.delay}
      BY <1>2, Zenon DEF Delays
    <2>. QED
      BY <1>2, <2>2, <2>3
  <1>. QED
    BY <1>1, <1>2

\* An attempt that fails is retried if there are to be retries.
LEMMA SameErrors ==
  ASSUME options \in OptionSets
  PROVE  Policy!should_retry("kForkFailed") <=> options.retries # 0
  <1>1. options.retries > 0 <=> options.retries # 0
    BY OptionTypes
  <1>. QED
    BY <1>1, Zenon DEF Policy!should_retry

LEMMA PolicyStep ==
  ASSUME PlainDelaysFit, TypeOK, [Next]_vars
  PROVE  [Policy!Next]_(Policy!vars)
  <1> USE DEF TypeOK, Policy!vars, Policy!Return
  <1>1. CASE Execute
    <2>1. CASE pc' = "attempt" /\ attempts' = 0
      <3>1. Policy!Call
        BY <1>1, <2>1, OptionTypes DEF Execute, Policy!Call
      <3>. QED
        BY <3>1 DEF Policy!Next
    <2>2. CASE UNCHANGED <<pc, attempts>>
      BY <1>1, <2>2 DEF Execute
    <2>. QED
      BY <1>1, <2>1, <2>2 DEF Execute
  <1>2. CASE AttemptFails
    <2>1. CASE options.retries = 0
      <3>1. Policy!FailFor("kForkFailed")
        BY <1>2, <2>1, SameErrors DEF AttemptFails, Return, Policy!FailFor
      <3>. QED
        BY <3>1 DEF Policy!Next, Policy!Errors
    <2>2. CASE options.retries # 0
      <3>1. /\ pc = "attempt" /\ attempts' = attempts + 1 /\ UNCHANGED <<options, delay>>
            /\ IF attempts + 1 > options.retries THEN Return("exhausted")
               ELSE pc' = "cleanup" /\ result' = result
        BY <1>2, <2>2 DEF AttemptFails
      <3>2. attempts + 1 >= options.retries + 1 <=> attempts + 1 > options.retries
        BY OptionTypes
      <3>3. Policy!should_retry("kForkFailed")
        BY <2>2, SameErrors
      <3>4. Policy!Fail("kForkFailed")
        BY <3>1, <3>2, <3>3, Zenon DEF Return, Policy!Fail
      <3>. QED
        BY <3>4 DEF Policy!Next, Policy!Errors
    <2>. QED
      BY <2>1, <2>2
  <1>3. CASE CleanUp
    <2>1. delay' \in Policy!Delays(options.delay,
                       IF options.backoff = 0 THEN 1 ELSE options.backoff, attempts)
      BY <1>3, SameDelays DEF CleanUp
    <2>2. Policy!Sleep
      BY <1>3, <2>1 DEF CleanUp, Policy!Sleep
    <2>. QED
      BY <2>2 DEF Policy!Next
  <1>4. CASE Retry
    <2>1. Policy!Wake
      BY <1>4 DEF Retry, Policy!Wake
    <2>. QED
      BY <2>1 DEF Policy!Next
  <1>5. CASE (\E p \in Pids : AttemptStarts(p)) \/ WaitForIt \/ Wrap
    <2>1. CASE Return("started")
      <3>1. Policy!Succeed
        BY <1>5, <2>1 DEF AttemptStarts, WaitForIt, Wrap, Return, Policy!Succeed
      <3>. QED
        BY <3>1 DEF Policy!Next
    <2>2. CASE pc' \in {"waiting", "wrapping"} /\ UNCHANGED result
      BY <1>5, <2>2 DEF AttemptStarts, WaitForIt, Wrap
    <2>. QED
      BY <1>5, <2>1, <2>2 DEF AttemptStarts, WaitForIt, Wrap
  <1>6. CASE UNCHANGED <<options, pc, attempts, delay, result>>
    BY <1>6
  <1>7. ASSUME \/ Terminate \/ Kill \/ GoOnStopping \/ PollInPlace \/ KillInPlace \/ SendSignal
               \/ Destroy \/ \E p \in Pids : End(p)
        PROVE  UNCHANGED <<options, pc, attempts, delay, result>>
    BY <1>7 DEF Terminate, Kill, GoOnStopping, PollInPlace, KillInPlace, SendSignal, Destroy,
                End, Rest, runVars
  <1>. QED
    BY <1>1, <1>2, <1>3, <1>4, <1>5, <1>6, <1>7 DEF Next, Attempt, Refused, ForkFails, vars, runVars

\* The loop of execute() and the retry policies of the library agree on how often is
\* tried, what is slept and what is returned: execute_process.cpp and retry_policy.hpp.
THEOREM RetriesAsThePolicy == PlainDelaysFit /\ Spec => ImplementsRetryPolicy
  <1> SUFFICES ASSUME PlainDelaysFit PROVE Spec => ImplementsRetryPolicy
    OBVIOUS
  <1>1. TypeOK /\ [Next]_vars => [Policy!Next]_(Policy!vars)
    BY PolicyStep
  <1>. QED
    BY <1>1, PolicyInit, TypeCorrect, PTL DEF Spec, ImplementsRetryPolicy, Policy!Spec

=============================================================================
