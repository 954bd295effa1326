---------------------------- MODULE EventDispatcher ----------------------------
(***************************************************************************)
(* EventDispatcher of include/launch_cpp/event_dispatcher.hpp: a list of   *)
(* handlers under a mutex.  dispatch() holds the mutex until the last      *)
(* handler has returned, and handlers take their time, so a call of one is *)
(* two steps; the other calls are one.  A handler that calls the           *)
(* dispatcher would wait for its own thread and is left out.               *)
(***************************************************************************)
EXTENDS Naturals, Sequences, SequencesExt

CONSTANTS
  Handlers,
  NoHandler,     \* the null pointer
  Matches,       \* the kinds of events that each handler's matches() accepts
  Nobody,        \* no thread
  MaxHandlers    \* bound: the length of the list

\* The values of get_type().
Kinds == {"process_started", "process_exited", "shutdown"}

ASSUME EventDispatcherAssumption ==
  /\ NoHandler \notin Handlers
  /\ Matches \in [Handlers -> SUBSET Kinds]
  /\ MaxHandlers \in Nat

VARIABLES
  handlers,   \* handlers_
  holder,     \* the thread that is inside dispatch(), with the mutex
  turn,       \* the element of the list that its loop is at
  inside,     \* the handler it is calling
  called,     \* its calls: of which handler, at which element (history)
  present     \* the list when it took the mutex (history)

dispatchVars == <<holder, turn, inside, called, present>>
dispatcherVars == <<handlers, dispatchVars>>

DispatcherInit ==
  /\ handlers = <<>>
  /\ holder = Nobody /\ turn = 1 /\ inside = NoHandler
  /\ called = <<>> /\ present = <<>>

Unlocked == holder = Nobody

-----------------------------------------------------------------------------
\* A null pointer is registered like any other.
RegisterHandler(h) ==
  /\ Unlocked /\ Len(handlers) < MaxHandlers
  /\ handlers' = Append(handlers, h)
  /\ UNCHANGED dispatchVars

\* Mutant of UnregisterHandler: it does not take the mutex.
UnregisterUnlocked(h) ==
  /\ h \in ToSet(handlers)
  /\ handlers' = RemoveFirst(handlers, h)
  /\ UNCHANGED dispatchVars

\* Of a handler that was registered twice the earlier registration goes; one
\* that is not there changes nothing.
UnregisterHandler(h) ==
  /\ Unlocked /\ h \in ToSet(handlers)
  /\ handlers' = RemoveFirst(handlers, h)
  /\ UNCHANGED dispatchVars

ClearHandlers ==
  /\ Unlocked /\ handlers # <<>>
  /\ handlers' = <<>>
  /\ UNCHANGED dispatchVars

-----------------------------------------------------------------------------
(* dispatch() of an event of kind k, on thread t                           *)

BeginDispatch(t) ==
  /\ Unlocked
  /\ holder' = t /\ turn' = 1 /\ called' = <<>> /\ present' = handlers
  /\ UNCHANGED <<handlers, inside>>

Accepts(h, k) == h # NoHandler /\ k \in Matches[h]

AtHandler(t) == holder = t /\ inside = NoHandler /\ turn <= Len(handlers)

PassHandler(t, k) ==
  /\ AtHandler(t) /\ ~Accepts(handlers[turn], k)
  /\ turn' = turn + 1
  /\ UNCHANGED <<handlers, holder, inside, called, present>>

CallHandler(t, k) ==
  /\ AtHandler(t) /\ Accepts(handlers[turn], k)
  /\ inside' = handlers[turn]
  /\ called' = Append(called, [at |-> turn, handler |-> handlers[turn]])
  /\ UNCHANGED <<handlers, holder, turn, present>>

HandlerSucceeds(t) ==
  /\ holder = t /\ inside # NoHandler
  /\ inside' = NoHandler /\ turn' = turn + 1
  /\ UNCHANGED <<handlers, holder, called, present>>

\* dispatch() returns, with an error or at the end of the list.
Unlock ==
  /\ holder' = Nobody
  /\ turn' = 1 /\ called' = <<>> /\ present' = <<>>
  /\ UNCHANGED handlers

\* Mutant of HandlerFails: the early return leaves the mutex locked.
HandlerFailsLocked(t) ==
  /\ holder = t /\ inside # NoHandler
  /\ inside' = NoHandler
  /\ UNCHANGED <<handlers, holder, turn, called, present>>

\* The first error ends the dispatch.
HandlerFails(t) ==
  /\ holder = t /\ inside # NoHandler
  /\ inside' = NoHandler
  /\ Unlock

EndDispatch(t) ==
  /\ holder = t /\ inside = NoHandler /\ turn > Len(handlers)
  /\ Unlock
  /\ UNCHANGED inside

=============================================================================
