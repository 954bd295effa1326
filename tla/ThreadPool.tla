----------------------------- MODULE ThreadPool -----------------------------
(***************************************************************************)
(* The fixed-size thread pool of src/thread_pool.cpp: worker threads, a    *)
(* task queue under queue_mutex_, a condition variable, and an atomic      *)
(* status_ that submit() and shutdown() read and write without the mutex.  *)
(*                                                                         *)
(* One action is one step between two points where another thread can      *)
(* interfere.  A critical section whose body touches nothing that is       *)
(* shared outside the mutex is one action, guarded by the mutex being      *)
(* free; the wait of a worker is two (the predicate is found false, then   *)
(* the thread goes to sleep and releases the mutex), because status_ is    *)
(* changed and the condition variable notified without the mutex.          *)
(***************************************************************************)
EXTENDS Naturals, Sequences, FiniteSets, SequencesExt

CONSTANTS
  Workers,   \* the threads the constructor starts
  Clients,   \* the threads outside the pool that call submit() and shutdown()
  Tasks,     \* the tasks they (or running tasks) may submit, each once
  NoTask,    \* no task
  NoThread   \* no thread

ASSUME ThreadPoolAssumption ==
  /\ IsFiniteSet(Workers) /\ IsFiniteSet(Clients)
  /\ Workers # {}                      \* ThreadPool(0) is not considered
  /\ Workers \intersect Clients = {}
  /\ NoTask \notin Tasks
  /\ NoThread \notin Workers

Threads == Workers \union Clients

VARIABLES
  status,     \* status_: "RUNNING", "SHUTTING_DOWN" or "STOPPED"
  queue,      \* task_queue_
  owner,      \* the worker that holds queue_mutex_ across steps, or NoThread
  worker,     \* where each worker is in worker_thread()
  executing,  \* the task each worker is running, or NoTask
  call,       \* where each thread is inside submit() or shutdown()
  arg,        \* the task a thread in submit() is handing over, or NoTask
  outcome,    \* what submit() told the caller about each task
  early,      \* the tasks pushed while status_ was still K_RUNNING
  finished    \* the tasks that were executed to the end

vars == <<status, queue, owner, worker, executing, call, arg, outcome, early,
          finished>>

WorkerStates == {"ready", "blocking", "waiting", "running", "exited"}
CallStates == {"none", "push", "notify", "notifyAll", "join"}
Outcomes == {"fresh", "pending", "accepted", "rejected"}

Waiting == {w \in Workers : worker[w] = "waiting"}

TypeOK ==
  /\ status \in {"RUNNING", "SHUTTING_DOWN", "STOPPED"}
  /\ queue \in Seq(Tasks)
  /\ owner \in Workers \union {NoThread}
  /\ worker \in [Workers -> WorkerStates]
  /\ executing \in [Workers -> Tasks \union {NoTask}]
  /\ call \in [Threads -> CallStates]
  /\ arg \in [Threads -> Tasks \union {NoTask}]
  /\ outcome \in [Tasks -> Outcomes]
  /\ early \in SUBSET Tasks
  /\ finished \in SUBSET Tasks

Init ==
  /\ status = "RUNNING"
  /\ queue = <<>>
  /\ owner = NoThread
  /\ worker = [w \in Workers |-> "ready"]
  /\ executing = [w \in Workers |-> NoTask]
  /\ call = [th \in Threads |-> "none"]
  /\ arg = [th \in Threads |-> NoTask]
  /\ outcome = [t \in Tasks |-> "fresh"]
  /\ early = {}
  /\ finished = {}

-----------------------------------------------------------------------------
(* submit(), called by a client or by the task a worker is running.        *)

MayCall(th) == call[th] = "none" /\ (th \in Workers => worker[th] = "running")

\* The unlocked check of status_ at the top of submit().
SubmitCheck(th, t) ==
  /\ MayCall(th)
  /\ outcome[t] = "fresh"
  /\ \/ /\ status = "RUNNING"
        /\ call' = [call EXCEPT ![th] = "push"]
        /\ arg' = [arg EXCEPT ![th] = t]
        /\ outcome' = [outcome EXCEPT ![t] = "pending"]
     \/ /\ status # "RUNNING"
        /\ outcome' = [outcome EXCEPT ![t] = "rejected"]
        /\ UNCHANGED <<call, arg>>
  /\ UNCHANGED <<status, queue, owner, worker, executing, early, finished>>

\* Mutant of SubmitPush: the task has been moved from before it is pushed.
PushMovedFrom(th) ==
  /\ call[th] = "push"
  /\ owner = NoThread
  /\ queue' = Append(queue, NoTask)
  /\ early' = early
  /\ call' = [call EXCEPT ![th] = "notify"]
  /\ UNCHANGED <<status, owner, worker, executing, arg, outcome, finished>>

\* The critical section of submit(); status_ is not looked at again.
SubmitPush(th) ==
  /\ call[th] = "push"
  /\ owner = NoThread
  /\ queue' = Append(queue, arg[th])
  /\ early' = IF status = "RUNNING" THEN early \union {arg[th]} ELSE early
  /\ call' = [call EXCEPT ![th] = "notify"]
  /\ UNCHANGED <<status, owner, worker, executing, arg, outcome, finished>>

\* notify_one() without the mutex, then submit() returns success.
NotifyOne ==
  \/ Waiting = {} /\ UNCHANGED worker
  \/ \E w \in Waiting : worker' = [worker EXCEPT ![w] = "ready"]

\* Mutant of SubmitNotify: notify only when the queue was empty before the push.
NotifyIfFirst(th) ==
  /\ call[th] = "notify"
  /\ IF Len(queue) <= 1 THEN NotifyOne ELSE UNCHANGED worker
  /\ outcome' = [outcome EXCEPT ![arg[th]] = "accepted"]
  /\ call' = [call EXCEPT ![th] = "none"]
  /\ arg' = [arg EXCEPT ![th] = NoTask]
  /\ UNCHANGED <<status, queue, owner, executing, early, finished>>

SubmitNotify(th) ==
  /\ call[th] = "notify"
  /\ NotifyOne
  /\ outcome' = [outcome EXCEPT ![arg[th]] = "accepted"]
  /\ call' = [call EXCEPT ![th] = "none"]
  /\ arg' = [arg EXCEPT ![th] = NoTask]
  /\ UNCHANGED <<status, queue, owner, executing, early, finished>>

-----------------------------------------------------------------------------
(* shutdown(), called by a client; the destructor does nothing else.       *)

\* The compare-exchange; a caller that loses it returns at once.
ShutdownBegin(c) ==
  /\ MayCall(c)
  /\ \/ /\ status = "RUNNING"
        /\ status' = "SHUTTING_DOWN"
        /\ call' = [call EXCEPT ![c] = "notifyAll"]
     \/ status # "RUNNING" /\ UNCHANGED <<status, call>>
  /\ UNCHANGED <<queue, owner, worker, executing, arg, outcome, early, finished>>

\* notify_all(), without the mutex.
ShutdownNotify(c) ==
  /\ call[c] = "notifyAll"
  /\ worker' = [w \in Workers |-> IF w \in Waiting THEN "ready" ELSE worker[w]]
  /\ call' = [call EXCEPT ![c] = "join"]
  /\ UNCHANGED <<status, queue, owner, executing, arg, outcome, early, finished>>

\* Mutant of ShutdownJoin: K_STOPPED is stored without joining the workers.
StopWithoutJoin(c) ==
  /\ call[c] = "join"
  /\ status' = "STOPPED"
  /\ call' = [call EXCEPT ![c] = "none"]
  /\ UNCHANGED <<queue, owner, worker, executing, arg, outcome, early, finished>>

\* The joins have all returned; status_ is stored and shutdown() returns.
ShutdownJoin(c) ==
  /\ call[c] = "join"
  /\ \A w \in Workers : worker[w] = "exited"
  /\ status' = "STOPPED"
  /\ call' = [call EXCEPT ![c] = "none"]
  /\ UNCHANGED <<queue, owner, worker, executing, arg, outcome, early, finished>>

-----------------------------------------------------------------------------
(* worker_thread().                                                        *)

\* Mutant of WorkerTake: front() is copied and never popped.
TakeWithoutPop(w) ==
  /\ worker[w] = "ready"
  /\ owner = NoThread
  /\ queue # <<>>
  /\ executing' = [executing EXCEPT ![w] = Head(queue)]
  /\ worker' = [worker EXCEPT ![w] = "running"]
  /\ UNCHANGED <<status, queue, owner, call, arg, outcome, early, finished>>

\* The predicate holds because a task is queued: pop the oldest and run it.
WorkerTake(w) ==
  /\ worker[w] = "ready"
  /\ owner = NoThread
  /\ queue # <<>>
  /\ queue' = Tail(queue)
  /\ executing' = [executing EXCEPT ![w] = Head(queue)]
  /\ worker' = [worker EXCEPT ![w] = "running"]
  /\ UNCHANGED <<status, owner, call, arg, outcome, early, finished>>

\* Mutant of WorkerExit: the worker leaves at once, without draining the queue.
ExitUndrained(w) ==
  /\ worker[w] = "ready"
  /\ owner = NoThread
  /\ status # "RUNNING"
  /\ worker' = [worker EXCEPT ![w] = "exited"]
  /\ UNCHANGED <<status, queue, owner, executing, call, arg, outcome, early,
                 finished>>

\* The predicate holds because the pool is shutting down: leave if drained.
WorkerExit(w) ==
  /\ worker[w] = "ready"
  /\ owner = NoThread
  /\ queue = <<>>
  /\ status # "RUNNING"
  /\ worker' = [worker EXCEPT ![w] = "exited"]
  /\ UNCHANGED <<status, queue, owner, executing, call, arg, outcome, early,
                 finished>>

\* Mutant of WorkerFindsNothing: the predicate is evaluated without the mutex.
FindsNothingUnlocked(w) ==
  /\ worker[w] = "ready"
  /\ owner = NoThread
  /\ queue = <<>>
  /\ status = "RUNNING"
  /\ worker' = [worker EXCEPT ![w] = "blocking"]
  /\ UNCHANGED <<status, queue, owner, executing, call, arg, outcome, early,
                 finished>>

\* The predicate is false; the mutex stays held and the thread is not yet
\* among those a notification reaches.
WorkerFindsNothing(w) ==
  /\ worker[w] = "ready"
  /\ owner = NoThread
  /\ queue = <<>>
  /\ status = "RUNNING"
  /\ owner' = w
  /\ worker' = [worker EXCEPT ![w] = "blocking"]
  /\ UNCHANGED <<status, queue, executing, call, arg, outcome, early, finished>>

\* The atomic part of condition_.wait(): release the mutex and sleep.
WorkerBlock(w) ==
  /\ worker[w] = "blocking"
  /\ owner' = NoThread
  /\ worker' = [worker EXCEPT ![w] = "waiting"]
  /\ UNCHANGED <<status, queue, executing, call, arg, outcome, early, finished>>

\* condition_.wait() may wake with no notification.
SpuriousWakeup(w) ==
  /\ worker[w] = "waiting"
  /\ worker' = [worker EXCEPT ![w] = "ready"]
  /\ UNCHANGED <<status, queue, owner, executing, call, arg, outcome, early,
                 finished>>

\* task() returns; tasks are assumed to end and not to throw.
WorkerFinish(w) ==
  /\ worker[w] = "running"
  /\ call[w] = "none"
  /\ finished' = finished \union {executing[w]}
  /\ executing' = [executing EXCEPT ![w] = NoTask]
  /\ worker' = [worker EXCEPT ![w] = "ready"]
  /\ UNCHANGED <<status, queue, owner, call, arg, outcome, early>>

-----------------------------------------------------------------------------

Submit(th) == (\E t \in Tasks : SubmitCheck(th, t)) \/ SubmitPush(th) \/ SubmitNotify(th)
Shutdown(c) == ShutdownBegin(c) \/ ShutdownNotify(c) \/ ShutdownJoin(c)
WorkerStep(w) ==
  WorkerTake(w) \/ WorkerExit(w) \/ WorkerFindsNothing(w) \/ WorkerBlock(w) \/ WorkerFinish(w)

Next ==
  \/ \E th \in Threads : Submit(th)
  \/ \E c \in Clients : Shutdown(c)
  \/ \E w \in Workers : WorkerStep(w) \/ SpuriousWakeup(w)

Spec == Init /\ [][Next]_vars

\* Every thread keeps running: a call that was begun goes on and a worker
\* that can move does.  A thread waiting for a mutex that is free again and
\* again gets it at last.  Nobody has to call submit() or shutdown(), and no
\* spurious wakeup is promised.
Fairness ==
  /\ \A th \in Threads : SF_vars(SubmitPush(th)) /\ WF_vars(SubmitNotify(th))
  /\ \A c \in Clients : WF_vars(ShutdownNotify(c) \/ ShutdownJoin(c))
  /\ \A w \in Workers : WF_vars(WorkerStep(w))

FairSpec == Spec /\ Fairness

-----------------------------------------------------------------------------
(* Properties.                                                             *)

Queued == ToSet(queue)
Running == {executing[w] : w \in Workers} \ {NoTask}
Placed == Queued \union Running \union finished
Ready == {w \in Workers : worker[w] = "ready"}
Notifying == {th \in Threads : call[th] = "notify"}

\* No accepted task is lost, duplicated or run by two workers between the
\* push in submit() and the end of worker_thread()'s call to it.
ExactlyOnce ==
  /\ IsInjective(queue)
  /\ \A v, w \in Workers : executing[v] = executing[w] /\ executing[v] # NoTask => v = w
  /\ Queued \intersect (Running \union finished) = {}
  /\ Running \intersect finished = {}
  /\ \A t \in Tasks : outcome[t] = "accepted" => t \in Placed

\* A worker sleeps only while the wake-ups under way (workers about to look at
\* the queue, callers about to notify) suffice for every queued task, although
\* submit() notifies after it has released the mutex, when the task may be
\* gone and more may have come.
WorkConserving ==
  Waiting # {} => Len(queue) <= Cardinality(Ready) + Cardinality(Notifying)

\* Once shutdown() has stored K_STOPPED, every worker is gone and every task
\* that was pushed while the pool was running has been executed.
DrainedWhenStopped ==
  status = "STOPPED" =>
    /\ \A w \in Workers : worker[w] = "exited"
    /\ early \subseteq finished

\* A task pushed while the pool was running is executed, whether or not the
\* pool is shut down meanwhile and whichever wake-ups are lost.
EarlyTaskRuns == \A t \in Tasks : (t \in early) ~> (t \in finished)

\* The pool keeps the promises of TaskPool.
Abstract == INSTANCE TaskPool WITH
  phase <- CASE status = "RUNNING" -> "open"
             [] status = "SHUTTING_DOWN" -> "closing"
             [] status = "STOPPED" -> "halted",
  pending <- queue,
  active <- Running,
  done <- finished,
  promised <- early

ImplementsTaskPool == Abstract!Spec

\* What a caller of shutdown() relies on: the call returns.
ShutdownReturns == \A c \in Clients : (call[c] = "notifyAll") ~> (call[c] = "none")

\* What the tests of the pool expect: once the pool has stopped, every task
\* for which submit() returned success has been executed.
AcceptedTasksRan ==
  status = "STOPPED" => \A t \in Tasks : outcome[t] = "accepted" => t \in finished

=============================================================================
