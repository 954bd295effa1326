------------------------------- MODULE EventLoop -------------------------------
(***************************************************************************)
(* The queue and the dispatcher together, as the architecture document     *)
(* draws them: threads that take an event and dispatch it before they take *)
(* the next.  That loop is their users', the repository has none; what it  *)
(* calls is the code of both.  Other threads push and clear events, and    *)
(* register and unregister handlers, at any time.                          *)
(***************************************************************************)
EXTENDS EventQueue, EventDispatcher

CONSTANT Kind   \* the kind of each event

ASSUME EventLoopAssumption ==
  /\ Kind \in [1 .. MaxEvents -> Kinds]
  /\ Nobody \notin Consumers

VARIABLE stage  \* where each consumer is in its loop

loopVars == <<vars, dispatcherVars, stage>>

Stages == {"receiving", "holding", "dispatching"}

LoopInit ==
  /\ Init
  /\ DispatcherInit
  /\ stage = [c \in Consumers |-> "receiving"]

Goto(c, s) == stage' = [stage EXCEPT ![c] = s]

-----------------------------------------------------------------------------
(* A consumer's loop.                                                      *)

Receive(c) ==
  /\ stage[c] = "receiving"
  /\ TryPop(c) \/ WaitAndPop(c)
  /\ IF received'[c] # received[c] THEN Goto(c, "holding") ELSE UNCHANGED stage
  /\ UNCHANGED dispatcherVars

Start(c) ==
  /\ stage[c] = "holding"
  /\ BeginDispatch(c)
  /\ Goto(c, "dispatching")
  /\ UNCHANGED vars

KindOf(c) == Kind[Last(received[c])]

Proceed(c) ==
  /\ stage[c] = "dispatching"
  /\ PassHandler(c, KindOf(c)) \/ CallHandler(c, KindOf(c)) \/ HandlerSucceeds(c)
  /\ UNCHANGED <<vars, stage>>

Finish(c) ==
  /\ stage[c] = "dispatching"
  /\ HandlerFails(c) \/ EndDispatch(c)
  /\ Goto(c, "receiving")
  /\ UNCHANGED vars

-----------------------------------------------------------------------------
(* What other threads do, and the clock.                                   *)

ChangeQueue ==
  /\ Push \/ Clear \/ \E c \in Consumers : Expire(c) \/ TimeOut(c) \/ WakeSpuriously(c)
  /\ UNCHANGED <<dispatcherVars, stage>>

ChangeHandlers ==
  /\ \/ \E h \in Handlers \union {NoHandler} : RegisterHandler(h)
     \/ \E h \in Handlers : UnregisterHandler(h)
     \/ ClearHandlers
  /\ UNCHANGED <<vars, stage>>

LoopNext ==
  \/ \E c \in Consumers : Receive(c) \/ Start(c) \/ Proceed(c) \/ Finish(c)
  \/ ChangeQueue
  \/ ChangeHandlers

LoopSpec == LoopInit /\ [][LoopNext]_loopVars

\* As for the queue; a handler returns, and a thread that waits for the
\* dispatcher's mutex gets it although it is taken again and again.
FairLoopSpec ==
  /\ LoopSpec
  /\ QueueFairness
  /\ \A c \in Consumers :
       WF_loopVars(Proceed(c)) /\ WF_loopVars(Finish(c)) /\ SF_loopVars(Start(c))

-----------------------------------------------------------------------------
\* A dispatch calls the handlers that were registered when it took the mutex,
\* each as often as it was registered and in that order, leaving out those that do
\* not match, although others register and unregister while handlers run; and
\* whoever has unregistered a handler can rely on it that it is not being called.
CalledAsRegistered ==
  \A c \in Consumers : holder = c =>
    LET passed == IF inside = NoHandler THEN turn - 1 ELSE turn
        matching == {i \in 1 .. passed : Accepts(present[i], KindOf(c))}
    IN  /\ ToSet(called) = {[at |-> i, handler |-> present[i]] : i \in matching}
        /\ \A i, j \in DOMAIN called : i < j => called[i].at < called[j].at
        /\ inside # NoHandler => inside \in ToSet(handlers)

\* Every event that a thread has taken is dispatched to the end, or to the first
\* handler that fails, which must not keep the other threads' events from theirs.
TakenIsDispatched == \A c \in Consumers : stage[c] = "holding" ~> stage[c] = "receiving"

=============================================================================
