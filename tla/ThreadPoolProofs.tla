-------------------------- MODULE ThreadPoolProofs --------------------------
(***************************************************************************)
(* Proofs about ThreadPool, for any finite sets of workers and clients and *)
(* any set of tasks.                                                       *)
(***************************************************************************)
EXTENDS ThreadPool, QueueFacts, FiniteSetTheorems, TLAPS

-----------------------------------------------------------------------------
(* The inductive invariant.                                                *)

\* Where a thread is and what it holds go together.
Control ==
  /\ \A w \in Workers : executing[w] # NoTask <=> worker[w] = "running"
  /\ \A w \in Workers : worker[w] = "blocking" <=> owner = w
  /\ owner # NoThread => queue = <<>>
  /\ \A th \in Threads : arg[th] # NoTask <=> call[th] \in {"push", "notify"}
  /\ \A w \in Workers : call[w] # "none" => worker[w] = "running"

\* A task in the hands of a submit() has one such caller, and is placed in
\* the pool by its push and by nothing else.
Custody ==
  /\ \A th \in Threads : arg[th] # NoTask => outcome[arg[th]] = "pending"
  /\ \A th, uh \in Threads : arg[th] = arg[uh] /\ arg[th] # NoTask => th = uh
  /\ \A th \in Threads : call[th] = "push" => arg[th] \notin Placed
  /\ \A th \in Threads : call[th] = "notify" => arg[th] \in Placed
  /\ \A t \in Placed : outcome[t] \in {"pending", "accepted"}

\* A worker leaves only from a pool that is shutting down and holds no early
\* task, and none can come after that.
Draining ==
  /\ \A w \in Workers :
       worker[w] = "exited" => status # "RUNNING" /\ early \intersect Queued = {}
  /\ early \subseteq Placed
  /\ status = "STOPPED" => \A w \in Workers : worker[w] = "exited"

IInv == TypeOK /\ Control /\ Custody /\ ExactlyOnce /\ Draining

-----------------------------------------------------------------------------
(* The initial state.                                                      *)

LEMMA InvInit == Init => IInv
  <1> SUFFICES ASSUME Init PROVE IInv
    OBVIOUS
  <1> USE DEF Init
  <1>1. TypeOK
    BY DEF TypeOK, WorkerStates, CallStates, Outcomes
  <1>2. Queued = {} /\ Running = {} /\ Placed = {} /\ IsInjective(queue)
    BY DEF Queued, Running, Placed, ToSet, IsInjective
  <1>3. Control
    BY ThreadPoolAssumption DEF Control, Threads
  <1>4. Custody /\ ExactlyOnce /\ Draining
    BY <1>2 DEF Custody, ExactlyOnce, Draining, Threads
  <1>. QED
    BY <1>1, <1>3, <1>4 DEF IInv

-----------------------------------------------------------------------------
(* What each step does to the places a task can be in.                     *)

LEMMA PushPlaces ==
  ASSUME TypeOK, NEW th \in Threads, arg[th] \in Tasks, SubmitPush(th)
  PROVE  /\ queue' \in Seq(Tasks) /\ Running' = Running
         /\ Queued' = Queued \union {arg[th]} /\ Placed' = Placed \union {arg[th]}
         /\ IsInjective(queue) /\ arg[th] \notin Queued => IsInjective(queue')
  <1>1. queue \in Seq(Tasks) /\ queue' = Append(queue, arg[th])
        /\ executing' = executing /\ finished' = finished
    BY DEF TypeOK, SubmitPush
  <1>. QED
    BY <1>1, PushFacts DEF Queued, Running, Placed

LEMMA TakePlaces ==
  ASSUME TypeOK, Control, NEW w \in Workers, WorkerTake(w)
  PROVE  /\ queue' \in Seq(Tasks) /\ Head(queue) \in Tasks
         /\ Queued = {Head(queue)} \union Queued'
         /\ Running' = Running \union {Head(queue)} /\ Placed' = Placed
         /\ IsInjective(queue) => IsInjective(queue') /\ Head(queue) \notin Queued'
  <1>1. /\ queue \in Seq(Tasks) /\ queue # <<>> /\ queue' = Tail(queue)
        /\ executing' = [executing EXCEPT ![w] = Head(queue)] /\ finished' = finished
    BY DEF TypeOK, WorkerTake
  <1>2. /\ Head(queue) \in Tasks /\ queue' \in Seq(Tasks)
        /\ ToSet(queue) = {Head(queue)} \union ToSet(queue')
        /\ IsInjective(queue) => IsInjective(queue') /\ Head(queue) \notin ToSet(queue')
    BY <1>1, PopFacts
  <1>3. executing[w] = NoTask /\ executing \in [Workers -> Tasks \union {NoTask}]
    BY DEF WorkerTake, Control, TypeOK
  <1>4. Running' = Running \union {Head(queue)}
    BY <1>1, <1>2, <1>3, ThreadPoolAssumption DEF Running
  <1>. QED
    BY <1>1, <1>2, <1>4 DEF Queued, Placed

LEMMA FinishPlaces ==
  ASSUME TypeOK, Control, ExactlyOnce, NEW w \in Workers, WorkerFinish(w)
  PROVE  /\ executing[w] \in Tasks /\ executing[w] \in Running
         /\ Queued' = Queued /\ Running' = Running \ {executing[w]}
         /\ finished' = finished \union {executing[w]} /\ Placed' = Placed
  <1>1. /\ queue' = queue /\ finished' = finished \union {executing[w]}
        /\ executing' = [executing EXCEPT ![w] = NoTask] /\ executing[w] # NoTask
        /\ executing \in [Workers -> Tasks \union {NoTask}]
    BY DEF TypeOK, WorkerFinish, Control
  <1>2. executing[w] \in Tasks /\ executing[w] \in Running
    BY <1>1 DEF Running
  <1>3. \A v \in Workers : v # w => executing[v] # executing[w]
    BY <1>1 DEF ExactlyOnce
  <1>4. Running' = Running \ {executing[w]}
    BY <1>1, <1>3 DEF Running
  <1>. QED
    BY <1>1, <1>2, <1>4 DEF Queued, Placed

\* Every other step leaves the places alone.
LEMMA SamePlaces ==
  ASSUME UNCHANGED <<queue, executing, finished>>
  PROVE  Queued' = Queued /\ Running' = Running /\ Placed' = Placed
  BY DEF Queued, Running, Placed

-----------------------------------------------------------------------------
(* Each step preserves the invariant.                                      *)

LEMMA CheckStep ==
  ASSUME IInv, NEW th \in Threads, NEW t \in Tasks, SubmitCheck(th, t)
  PROVE  IInv'
  <1> USE DEF IInv
  <1>1. Queued' = Queued /\ Running' = Running /\ Placed' = Placed
    BY SamePlaces DEF SubmitCheck
  <1>2. TypeOK'
    BY DEF TypeOK, SubmitCheck, WorkerStates, CallStates, Outcomes
  <1>3. arg[th] = NoTask /\ call[th] = "none" /\ (th \in Workers => worker[th] = "running")
    BY DEF Control, SubmitCheck, MayCall
  <1>4. t \notin Placed /\ \A uh \in Threads : arg[uh] # t
    BY ThreadPoolAssumption DEF Custody, SubmitCheck
  <1>5. Control'
    BY <1>3, ThreadPoolAssumption DEF Control, TypeOK, SubmitCheck, Threads
  <1>6. Custody'
    <2>1. CASE status = "RUNNING"
      <3>1. /\ call' = [call EXCEPT ![th] = "push"] /\ arg' = [arg EXCEPT ![th] = t]
            /\ outcome' = [outcome EXCEPT ![t] = "pending"]
        BY <2>1 DEF SubmitCheck
      <3>. QED
        BY <1>1, <1>3, <1>4, <3>1, ThreadPoolAssumption DEF Custody, TypeOK
    <2>2. CASE status # "RUNNING"
      <3>1. outcome' = [outcome EXCEPT ![t] = "rejected"] /\ UNCHANGED <<call, arg>>
        BY <2>2 DEF SubmitCheck
      <3>. QED
        BY <1>1, <1>4, <3>1 DEF Custody, TypeOK
    <2>. QED
      BY <2>1, <2>2
  <1>7. ExactlyOnce'
    BY <1>1, <1>4 DEF ExactlyOnce, TypeOK, SubmitCheck
  <1>8. Draining'
    BY <1>1 DEF Draining, SubmitCheck
  <1>. QED
    BY <1>2, <1>5, <1>6, <1>7, <1>8

LEMMA PushStep ==
  ASSUME IInv, NEW th \in Threads, SubmitPush(th)
  PROVE  IInv'
  <1> USE DEF IInv
  <1>1. arg[th] \in Tasks /\ arg[th] \notin Placed /\ outcome[arg[th]] = "pending"
    BY DEF Control, Custody, TypeOK, SubmitPush
  <1>2. /\ queue' \in Seq(Tasks) /\ Running' = Running
        /\ Queued' = Queued \union {arg[th]} /\ Placed' = Placed \union {arg[th]}
        /\ IsInjective(queue')
    BY <1>1, PushPlaces DEF ExactlyOnce, Placed
  <1>3. TypeOK'
    BY <1>1, <1>2 DEF TypeOK, SubmitPush, CallStates
  <1>4. Control'
    BY DEF Control, TypeOK, SubmitPush, Threads
  <1>5. Custody'
    BY <1>1, <1>2 DEF Custody, Control, TypeOK, SubmitPush
  <1>6. ExactlyOnce'
    BY <1>1, <1>2 DEF ExactlyOnce, Placed, SubmitPush
  <1>7. Draining'
    BY <1>1, <1>2 DEF Draining, SubmitPush
  <1>. QED
    BY <1>3, <1>4, <1>5, <1>6, <1>7

LEMMA NotifyStep ==
  ASSUME IInv, NEW th \in Threads, SubmitNotify(th)
  PROVE  IInv'
  <1> USE DEF IInv
  <1>1. Queued' = Queued /\ Running' = Running /\ Placed' = Placed
    BY SamePlaces DEF SubmitNotify
  <1>2. arg[th] \in Tasks /\ arg[th] \in Placed /\ outcome[arg[th]] = "pending"
    BY DEF Control, Custody, TypeOK, SubmitNotify
  <1>3. worker' = worker \/ \E w \in Workers : worker[w] = "waiting" /\ worker' = [worker EXCEPT ![w] = "ready"]
    BY DEF SubmitNotify, NotifyOne, Waiting
  <1>4. TypeOK'
    BY <1>2, <1>3 DEF TypeOK, SubmitNotify, WorkerStates, CallStates, Outcomes
  <1>5. Control'
    BY <1>3 DEF Control, TypeOK, SubmitNotify, Threads
  <1>6. Custody'
    BY <1>1, <1>2, ThreadPoolAssumption DEF Custody, Control, TypeOK, SubmitNotify
  <1>7. ExactlyOnce'
    BY <1>1, <1>2 DEF ExactlyOnce, TypeOK, SubmitNotify
  <1>8. Draining'
    BY <1>1, <1>3 DEF Draining, TypeOK, SubmitNotify
  <1>. QED
    BY <1>4, <1>5, <1>6, <1>7, <1>8

LEMMA ShutdownStep ==
  ASSUME IInv, NEW c \in Clients, Shutdown(c)
  PROVE  IInv'
  <1> USE DEF IInv, Shutdown, ShutdownBegin, ShutdownNotify, ShutdownJoin
  <1>1. Queued' = Queued /\ Running' = Running /\ Placed' = Placed
    BY SamePlaces
  <1>2. c \in Threads /\ c \notin Workers
    BY ThreadPoolAssumption DEF Threads
  <1>3. arg' = arg /\ outcome' = outcome /\ early' = early /\ executing' = executing
    OBVIOUS
  <1>4. TypeOK'
    BY <1>2 DEF TypeOK, WorkerStates, CallStates, Waiting, MayCall
  <1>5. arg[c] = NoTask /\ arg'[c] = NoTask
    BY <1>2 DEF Control, MayCall
  <1>6. Control'
    BY <1>2, <1>5 DEF Control, TypeOK, Waiting, MayCall, Threads
  <1>7. \A th \in Threads : th # c => call'[th] = call[th]
    BY <1>2 DEF TypeOK
  <1>8. call'[c] \notin {"push", "notify"}
    BY <1>2 DEF TypeOK, MayCall
  <1>9. Custody'
    BY <1>1, <1>3, <1>7, <1>8 DEF Custody
  <1>10. ExactlyOnce'
    BY <1>1, <1>3 DEF ExactlyOnce
  <1>11. Draining'
    BY <1>1, <1>3 DEF Draining, TypeOK, Waiting
  <1>. QED
    BY <1>4, <1>6, <1>9, <1>10, <1>11

LEMMA TakeStep ==
  ASSUME IInv, NEW w \in Workers, WorkerTake(w)
  PROVE  IInv'
  <1> USE DEF IInv
  <1>1. /\ queue' \in Seq(Tasks) /\ Head(queue) \in Tasks
        /\ Queued = {Head(queue)} \union Queued'
        /\ Running' = Running \union {Head(queue)} /\ Placed' = Placed
        /\ IsInjective(queue') /\ Head(queue) \notin Queued'
    BY TakePlaces DEF ExactlyOnce
  <1>2. executing[w] = NoTask /\ Head(queue) \notin Running \union finished
    BY <1>1 DEF Control, ExactlyOnce, WorkerTake
  <1>3. TypeOK'
    BY <1>1 DEF TypeOK, WorkerTake, WorkerStates
  <1>4. Control'
    BY <1>1, ThreadPoolAssumption DEF Control, TypeOK, WorkerTake
  <1>5. Custody'
    BY <1>1 DEF Custody, WorkerTake
  <1>6. \A v \in Workers : v # w => executing[v] # Head(queue)
    BY <1>1, <1>2, ThreadPoolAssumption DEF Running
  <1>7. ExactlyOnce'
    <2>1. \A u, v \in Workers :
            executing'[u] = executing'[v] /\ executing'[u] # NoTask => u = v
      BY <1>1, <1>6 DEF ExactlyOnce, TypeOK, WorkerTake
    <2>. QED
      BY <1>1, <1>2, <2>1 DEF ExactlyOnce, WorkerTake
  <1>8. Draining'
    BY <1>1 DEF Draining, TypeOK, WorkerTake
  <1>. QED
    BY <1>3, <1>4, <1>5, <1>7, <1>8

LEMMA FinishStep ==
  ASSUME IInv, NEW w \in Workers, WorkerFinish(w)
  PROVE  IInv'
  <1> USE DEF IInv
  <1>1. /\ executing[w] \in Tasks /\ executing[w] \in Running
        /\ Queued' = Queued /\ Running' = Running \ {executing[w]}
        /\ finished' = finished \union {executing[w]} /\ Placed' = Placed
    BY FinishPlaces
  <1>2. TypeOK'
    BY <1>1 DEF TypeOK, WorkerFinish, WorkerStates
  <1>3. Control'
    BY DEF Control, TypeOK, WorkerFinish, Threads
  <1>4. Custody'
    BY <1>1 DEF Custody, WorkerFinish
  <1>5. ExactlyOnce'
    BY <1>1 DEF ExactlyOnce, TypeOK, WorkerFinish
  <1>6. Draining'
    BY <1>1 DEF Draining, TypeOK, WorkerFinish
  <1>. QED
    BY <1>2, <1>3, <1>4, <1>5, <1>6

LEMMA SleepStep ==
  ASSUME IInv, NEW w \in Workers,
         WorkerExit(w) \/ WorkerFindsNothing(w) \/ WorkerBlock(w) \/ SpuriousWakeup(w)
  PROVE  IInv'
  <1> USE DEF IInv, WorkerExit, WorkerFindsNothing, WorkerBlock, SpuriousWakeup
  <1>1. Queued' = Queued /\ Running' = Running /\ Placed' = Placed
    BY SamePlaces
  <1>2. TypeOK'
    BY DEF TypeOK, WorkerStates
  <1>3. Control'
    BY ThreadPoolAssumption DEF Control, TypeOK
  <1>4. Custody'
    BY <1>1 DEF Custody
  <1>5. ExactlyOnce'
    BY <1>1 DEF ExactlyOnce
  <1>6. queue = <<>> => Queued = {}
    BY DEF Queued, ToSet
  <1>7. Draining'
    BY <1>1, <1>6 DEF Draining, TypeOK
  <1>. QED
    BY <1>2, <1>3, <1>4, <1>5, <1>7

LEMMA InvStep == IInv /\ [Next]_vars => IInv'
  <1> SUFFICES ASSUME IInv, [Next]_vars PROVE IInv'
    OBVIOUS
  <1>1. ASSUME NEW th \in Threads, Submit(th) PROVE IInv'
    BY <1>1, CheckStep, PushStep, NotifyStep DEF Submit
  <1>2. ASSUME NEW c \in Clients, Shutdown(c) PROVE IInv'
    BY <1>2, ShutdownStep
  <1>3. ASSUME NEW w \in Workers, WorkerStep(w) \/ SpuriousWakeup(w) PROVE IInv'
    BY <1>3, TakeStep, FinishStep, SleepStep DEF WorkerStep
  <1>4. CASE UNCHANGED vars
    <2>1. Queued' = Queued /\ Running' = Running /\ Placed' = Placed
      BY <1>4, SamePlaces DEF vars
    <2>. QED
      BY <1>4, <2>1 DEF vars, IInv, TypeOK, Control, Custody, ExactlyOnce, Draining
  <1>. QED
    BY <1>1, <1>2, <1>3, <1>4 DEF Next

\* The inductive invariant holds in every reachable state.
THEOREM Invariance == Spec => []IInv
  BY InvInit, InvStep, PTL DEF Spec

\* Every variable keeps its type.
THEOREM TypeCorrect == Spec => []TypeOK
  <1>1. IInv => TypeOK
    BY DEF IInv
  <1>. QED
    BY <1>1, Invariance, PTL

\* No accepted task is lost or run twice: src/thread_pool.cpp:47 to 112.
THEOREM TasksRunExactlyOnce == Spec => []ExactlyOnce
  <1>1. IInv => ExactlyOnce
    BY DEF IInv
  <1>. QED
    BY <1>1, Invariance, PTL

\* When shutdown() has stored K_STOPPED, no worker is left and every task
\* pushed while the pool was running has been executed.
THEOREM StoppedMeansDrained == Spec => []DrainedWhenStopped
  <1>1. IInv => DrainedWhenStopped
    <2> SUFFICES ASSUME IInv, status = "STOPPED"
                 PROVE  (\A w \in Workers : worker[w] = "exited") /\ early \subseteq finished
      BY DEF DrainedWhenStopped
    <2>1. \A w \in Workers : worker[w] = "exited"
      BY DEF IInv, Draining
    <2>2. early \intersect Queued = {} /\ early \subseteq Placed
      BY <2>1, ThreadPoolAssumption DEF IInv, Draining
    <2>3. Running = {}
      BY <2>1 DEF IInv, Control, Running
    <2>. QED
      BY <2>1, <2>2, <2>3 DEF Placed
  <1>. QED
    BY <1>1, Invariance, PTL

-----------------------------------------------------------------------------
(* The pool implements TaskPool.                                           *)

LEMMA AbstractStep == IInv /\ [Next]_vars => [Abstract!Next]_(Abstract!vars)
  <1> SUFFICES ASSUME IInv, [Next]_vars PROVE [Abstract!Next]_(Abstract!vars)
    OBVIOUS
  <1> USE DEF Abstract!Next, Abstract!vars
  <1>1. ASSUME NEW th \in Threads, NEW t \in Tasks, SubmitCheck(th, t)
        PROVE  UNCHANGED Abstract!vars
    BY <1>1, SamePlaces DEF SubmitCheck
  <1>2. ASSUME NEW th \in Threads, SubmitPush(th)
        PROVE  Abstract!Next
    <2>1. arg[th] \in Tasks /\ arg[th] \notin Placed
      BY <1>2 DEF IInv, Control, Custody, TypeOK, SubmitPush
    <2>2. Running' = Running
      BY <1>2, <2>1, PushPlaces DEF IInv
    <2>3. Abstract!ToSet(queue) = Queued
      BY DEF Abstract!ToSet, Queued, ToSet
    <2>4. Abstract!Accept(arg[th])
      BY <1>2, <2>1, <2>2, <2>3 DEF Abstract!Accept, Placed, SubmitPush, IInv, TypeOK
    <2>. QED
      BY <2>1, <2>4
  <1>3. ASSUME NEW th \in Threads, SubmitNotify(th)
        PROVE  UNCHANGED Abstract!vars
    BY <1>3, SamePlaces DEF SubmitNotify
  <1>4. ASSUME NEW c \in Clients, Shutdown(c)
        PROVE  Abstract!Next \/ UNCHANGED Abstract!vars
    <2>1. CASE ShutdownBegin(c)
      BY <2>1, SamePlaces DEF ShutdownBegin, Abstract!Close
    <2>2. CASE ShutdownNotify(c)
      BY <2>2, SamePlaces DEF ShutdownNotify
    <2>3. CASE ShutdownJoin(c)
      <3>1. status = "SHUTTING_DOWN" \/ status = "STOPPED"
        BY <2>3, ThreadPoolAssumption DEF ShutdownJoin, IInv, Draining, TypeOK
      <3>2. Running = {} /\ Running' = {}
        BY <2>3 DEF ShutdownJoin, IInv, Control, Running
      <3>3. early \subseteq finished
        BY <2>3, <3>2, ThreadPoolAssumption DEF ShutdownJoin, IInv, Draining, Placed
      <3>. QED
        BY <2>3, <3>1, <3>2, <3>3 DEF ShutdownJoin, Abstract!Halt
    <2>. QED
      BY <1>4, <2>1, <2>2, <2>3 DEF Shutdown
  <1>5. ASSUME NEW w \in Workers, WorkerTake(w)
        PROVE  Abstract!Next
    <2>1. Running' = Running \union {Head(queue)}
      BY <1>5, TakePlaces DEF IInv
    <2>2. status # "STOPPED"
      BY <1>5 DEF WorkerTake, IInv, Draining
    <2>3. Abstract!Start
      BY <1>5, <2>1, <2>2 DEF Abstract!Start, WorkerTake, IInv, TypeOK
    <2>. QED
      BY <2>3
  <1>6. ASSUME NEW w \in Workers, WorkerFinish(w)
        PROVE  Abstract!Next
    <2>1. /\ executing[w] \in Tasks /\ executing[w] \in Running
          /\ Running' = Running \ {executing[w]}
          /\ finished' = finished \union {executing[w]}
      BY <1>6, FinishPlaces DEF IInv
    <2>2. Abstract!Complete(executing[w])
      BY <1>6, <2>1 DEF Abstract!Complete, WorkerFinish
    <2>. QED
      BY <2>1, <2>2
  <1>7. ASSUME NEW w \in Workers,
               WorkerExit(w) \/ WorkerFindsNothing(w) \/ WorkerBlock(w) \/ SpuriousWakeup(w)
        PROVE  UNCHANGED Abstract!vars
    BY <1>7, SamePlaces
    DEF WorkerExit, WorkerFindsNothing, WorkerBlock, SpuriousWakeup
  <1>8. CASE UNCHANGED vars
    BY <1>8, SamePlaces DEF vars
  <1>. QED
    BY <1>1, <1>2, <1>3, <1>4, <1>5, <1>6, <1>7, <1>8 DEF Next, Submit, WorkerStep

\* The mutex, the condition variable and the two-phase shutdown keep the
\* promises of TaskPool: order, no early task lost, nothing after the halt.
THEOREM Implementation == Spec => ImplementsTaskPool
  <1>1. Init => Abstract!Init
    BY DEF Init, Abstract!Init, Running
  <1>. QED
    BY <1>1, AbstractStep, Invariance, PTL DEF Spec, ImplementsTaskPool, Abstract!Spec

-----------------------------------------------------------------------------
(* No worker sleeps beside unclaimed work.                                 *)

LEMMA Counts ==
  /\ IsFiniteSet(Ready) /\ Cardinality(Ready) \in Nat
  /\ IsFiniteSet(Notifying) /\ Cardinality(Notifying) \in Nat
  <1>1. IsFiniteSet(Workers) /\ IsFiniteSet(Threads)
    BY ThreadPoolAssumption, FS_Union DEF Threads
  <1>2. Ready \subseteq Workers /\ Notifying \subseteq Threads
    BY DEF Ready, Notifying
  <1>. QED
    BY <1>1, <1>2, FS_Subset, FS_CardinalityType

LEMMA EmptyIsFine == TypeOK /\ queue = <<>> => WorkConserving
  BY Counts DEF WorkConserving, TypeOK

LEMMA WorkConservingStep ==
  IInv /\ IInv' /\ WorkConserving /\ [Next]_vars => WorkConserving'
  <1> SUFFICES ASSUME IInv, IInv', WorkConserving, [Next]_vars, Waiting' # {}
               PROVE  Len(queue') <= Cardinality(Ready') + Cardinality(Notifying')
    BY DEF WorkConserving
  <1> USE DEF IInv, TypeOK
  <1>1. /\ Cardinality(Ready) \in Nat /\ Cardinality(Notifying) \in Nat
        /\ Len(queue) \in Nat /\ Len(queue') \in Nat
    BY Counts
  <1>2. ASSUME UNCHANGED <<queue, worker, call>>
        PROVE  Len(queue') <= Cardinality(Ready') + Cardinality(Notifying')
    BY <1>2 DEF WorkConserving, Ready, Notifying, Waiting
  <1>3. ASSUME NEW th \in Threads, NEW t \in Tasks, SubmitCheck(th, t)
        PROVE  Len(queue') <= Cardinality(Ready') + Cardinality(Notifying')
    <2>1. Notifying' = Notifying /\ queue' = queue /\ worker' = worker
      BY <1>3 DEF SubmitCheck, MayCall, Notifying
    <2>. QED
      BY <2>1 DEF WorkConserving, Waiting, Ready
  <1>4. ASSUME NEW th \in Threads, SubmitPush(th)
        PROVE  Len(queue') <= Cardinality(Ready') + Cardinality(Notifying')
    <2>1. Notifying' = Notifying \union {th} /\ th \notin Notifying /\ worker' = worker
      BY <1>4 DEF SubmitPush, Notifying
    <2>2. Cardinality(Notifying') = Cardinality(Notifying) + 1
      BY <2>1, Counts, FS_AddElement
    <2>3. arg[th] \in Tasks /\ queue' = Append(queue, arg[th])
      BY <1>4 DEF SubmitPush, Control
    <2>4. Len(queue') = Len(queue) + 1
      BY <2>3
    <2>. QED
      BY <1>1, <2>1, <2>2, <2>4 DEF WorkConserving, Waiting, Ready
  <1>5. ASSUME NEW th \in Threads, SubmitNotify(th)
        PROVE  Len(queue') <= Cardinality(Ready') + Cardinality(Notifying')
    <2>1. PICK w \in Waiting : worker' = [worker EXCEPT ![w] = "ready"]
      BY <1>5 DEF SubmitNotify, NotifyOne, Waiting
    <2>2. Ready' = Ready \union {w} /\ w \notin Ready
      BY <2>1 DEF Ready, Waiting
    <2>3. Notifying' = Notifying \ {th} /\ th \in Notifying /\ queue' = queue
      BY <1>5 DEF SubmitNotify, Notifying
    <2>4. /\ Cardinality(Ready') = Cardinality(Ready) + 1
          /\ Cardinality(Notifying') = Cardinality(Notifying) - 1
      BY <2>2, <2>3, Counts, FS_AddElement, FS_RemoveElement
    <2>. QED
      BY <1>1, <2>1, <2>3, <2>4 DEF WorkConserving
  <1>6. ASSUME NEW c \in Clients, Shutdown(c)
        PROVE  Len(queue') <= Cardinality(Ready') + Cardinality(Notifying')
    <2>1. CASE ShutdownNotify(c)
      BY <2>1 DEF ShutdownNotify, Waiting
    <2>2. CASE ShutdownBegin(c) \/ ShutdownJoin(c)
      <3>1. Notifying' = Notifying /\ queue' = queue /\ worker' = worker
        BY <2>2 DEF ShutdownBegin, ShutdownJoin, MayCall, Notifying
      <3>. QED
        BY <3>1 DEF WorkConserving, Waiting, Ready
    <2>. QED
      BY <1>6, <2>1, <2>2 DEF Shutdown
  <1>7. ASSUME NEW w \in Workers, WorkerTake(w)
        PROVE  Len(queue') <= Cardinality(Ready') + Cardinality(Notifying')
    <2>1. Ready' = Ready \ {w} /\ w \in Ready
      BY <1>7 DEF WorkerTake, Ready
    <2>2. Cardinality(Ready') = Cardinality(Ready) - 1
      BY <2>1, Counts, FS_RemoveElement
    <2>3. Len(queue') = Len(queue) - 1
      BY <1>7, PopFacts DEF WorkerTake
    <2>4. Notifying' = Notifying /\ Waiting # {}
      BY <1>7 DEF WorkerTake, Notifying, Waiting
    <2>. QED
      BY <1>1, <2>2, <2>3, <2>4 DEF WorkConserving
  <1>8. ASSUME NEW w \in Workers, WorkerFinish(w) \/ SpuriousWakeup(w)
        PROVE  Len(queue') <= Cardinality(Ready') + Cardinality(Notifying')
    <2>1. Ready' = Ready \union {w} /\ w \notin Ready /\ queue' = queue
      BY <1>8 DEF WorkerFinish, SpuriousWakeup, Ready
    <2>2. Cardinality(Ready') = Cardinality(Ready) + 1
      BY <2>1, Counts, FS_AddElement
    <2>3. Notifying' = Notifying /\ Waiting # {}
      BY <1>8 DEF WorkerFinish, SpuriousWakeup, Notifying, Waiting
    <2>. QED
      BY <1>1, <2>1, <2>2, <2>3 DEF WorkConserving
  <1>9. ASSUME NEW w \in Workers, WorkerExit(w) \/ WorkerFindsNothing(w) \/ WorkerBlock(w)
        PROVE  Len(queue') <= Cardinality(Ready') + Cardinality(Notifying')
    <2>1. queue' = <<>>
      BY <1>9, ThreadPoolAssumption
      DEF WorkerExit, WorkerFindsNothing, WorkerBlock, Control
    <2>2. Cardinality(Ready') \in Nat /\ Cardinality(Notifying') \in Nat
      <3>1. IsFiniteSet(Workers) /\ IsFiniteSet(Threads)
        BY ThreadPoolAssumption, FS_Union DEF Threads
      <3>2. Ready' \subseteq Workers /\ Notifying' \subseteq Threads
        BY DEF Ready, Notifying
      <3>. QED
        BY <3>1, <3>2, FS_Subset, FS_CardinalityType
    <2>. QED
      BY <2>1, <2>2
  <1>. QED
    BY <1>2, <1>3, <1>4, <1>5, <1>6, <1>7, <1>8, <1>9
    DEF Next, Submit, WorkerStep, vars

\* A worker sleeps only while enough wake-ups for the queued tasks are under
\* way: notifying after the mutex is released loses none (src/thread_pool.cpp:52).
THEOREM NoIdleWorker == Spec => []WorkConserving
  <1>1. Init => WorkConserving
    BY EmptyIsFine, InvInit DEF Init, IInv
  <1>. QED
    BY <1>1, WorkConservingStep, Invariance, PTL DEF Spec

=============================================================================
