------------------------------ MODULE EventQueue ------------------------------
(***************************************************************************)
(* EventQueue of include/launch_cpp/event_queue.hpp: events under a mutex, *)
(* and threads that wait for one with a timeout.  Every call holds the     *)
(* mutex throughout, except that wait_and_pop() gives it up to sleep, so a *)
(* step is a whole call or the part of wait_and_pop() between two sleeps.  *)
(* Events are numbered in the order in which they are pushed.              *)
(***************************************************************************)
EXTENDS Naturals, Sequences, FiniteSets, SequencesExt

CONSTANTS
  Consumers,   \* the threads that take events
  MaxEvents    \* bound: how many events are pushed

ASSUME EventQueueAssumption == IsFiniteSet(Consumers) /\ MaxEvents \in Nat

VARIABLES
  queue,      \* queue_
  pushed,     \* how many events were pushed
  place,      \* where each consumer is in wait_and_pop()
  late,       \* whether the deadline of its wait has passed
  received    \* the events each consumer was given

vars == <<queue, pushed, place, late, received>>

Places == {"out", "asleep", "awake"}
Asleep == {c \in Consumers : place[c] = "asleep"}
Awake == {c \in Consumers : place[c] = "awake"}

Init ==
  /\ queue = <<>> /\ pushed = 0
  /\ place = [c \in Consumers |-> "out"]
  /\ late = [c \in Consumers |-> FALSE]
  /\ received = [c \in Consumers |-> <<>>]

-----------------------------------------------------------------------------

NotifyOne ==
  \/ Asleep = {} /\ UNCHANGED place
  \/ \E c \in Asleep : place' = [place EXCEPT ![c] = "awake"]

Push ==
  /\ pushed < MaxEvents
  /\ pushed' = pushed + 1
  /\ queue' = Append(queue, pushed + 1)
  /\ NotifyOne
  /\ UNCHANGED <<late, received>>

\* Mutant of Take: the event is copied and stays where it is.
TakeACopy(c) ==
  /\ queue # <<>>
  /\ received' = [received EXCEPT ![c] = Append(@, Head(queue))]
  /\ UNCHANGED queue

\* front() and pop().
Take(c) ==
  /\ queue # <<>>
  /\ received' = [received EXCEPT ![c] = Append(@, Head(queue))]
  /\ queue' = Tail(queue)

\* try_pop(), which on an empty queue returns false and changes nothing.
TryPop(c) == place[c] = "out" /\ Take(c) /\ UNCHANGED <<pushed, place, late>>

Clear == queue # <<>> /\ queue' = <<>> /\ UNCHANGED <<pushed, place, late, received>>

-----------------------------------------------------------------------------
(* wait_and_pop()                                                          *)

\* The predicate is tested before the first sleep.
Wait(c) ==
  /\ place[c] = "out"
  /\ \/ Take(c) /\ UNCHANGED <<place, late>>
     \/ /\ queue = <<>>
        /\ place' = [place EXCEPT ![c] = "asleep"]
        /\ late' = [late EXCEPT ![c] = FALSE]
        /\ UNCHANGED <<queue, received>>
  /\ UNCHANGED pushed

\* The deadline is fixed when the wait begins.
Expire(c) ==
  /\ place[c] # "out" /\ ~late[c]
  /\ late' = [late EXCEPT ![c] = TRUE]
  /\ UNCHANGED <<queue, pushed, place, received>>

\* Sleep ends without a notification: at the deadline, or for no reason.
Rouse(c) == place[c] = "asleep" /\ place' = [place EXCEPT ![c] = "awake"]
TimeOut(c) == late[c] /\ Rouse(c) /\ UNCHANGED <<queue, pushed, late, received>>
WakeSpuriously(c) == ~late[c] /\ Rouse(c) /\ UNCHANGED <<queue, pushed, late, received>>

\* Mutant of Resume: past the deadline the predicate is not tested any more.
ResumeTooLate(c) ==
  /\ place[c] = "awake"
  /\ \/ ~late[c] /\ Take(c) /\ place' = [place EXCEPT ![c] = "out"]
     \/ /\ late[c] \/ queue = <<>>
        /\ place' = [place EXCEPT ![c] = IF late[c] THEN "out" ELSE "asleep"]
        /\ UNCHANGED <<queue, received>>
  /\ UNCHANGED <<pushed, late>>

\* Mutant of Resume: the whole timeout is waited for again after each wake-up.
ResumeAfresh(c) ==
  /\ place[c] = "awake"
  /\ \/ Take(c) /\ place' = [place EXCEPT ![c] = "out"] /\ UNCHANGED late
     \/ /\ queue = <<>>
        /\ place' = [place EXCEPT ![c] = "asleep"]
        /\ late' = [late EXCEPT ![c] = FALSE]
        /\ UNCHANGED <<queue, received>>
  /\ UNCHANGED pushed

\* The mutex is held again: the predicate decides, also past the deadline.
Resume(c) ==
  /\ place[c] = "awake"
  /\ \/ Take(c) /\ place' = [place EXCEPT ![c] = "out"]
     \/ /\ queue = <<>>
        /\ place' = [place EXCEPT ![c] = IF late[c] THEN "out" ELSE "asleep"]
        /\ UNCHANGED <<queue, received>>
  /\ UNCHANGED <<pushed, late>>

-----------------------------------------------------------------------------
WaitAndPop(c) == Wait(c) \/ Resume(c)

Next ==
  \/ Push \/ Clear
  \/ \E c \in Consumers :
       TryPop(c) \/ WaitAndPop(c) \/ Expire(c) \/ TimeOut(c) \/ WakeSpuriously(c)

Spec == Init /\ [][Next]_vars

\* Time passes, a sleeper is woken at its deadline, and a thread that is awake
\* gets the mutex.  Nobody has to push.
QueueFairness ==
  \A c \in Consumers : WF_vars(Expire(c)) /\ WF_vars(TimeOut(c)) /\ WF_vars(Resume(c))

FairSpec == Spec /\ QueueFairness

-----------------------------------------------------------------------------
Events == 1 .. MaxEvents

\* Every variable keeps to its type.
TypeOK ==
  /\ queue \in Seq(Events)
  /\ pushed \in 0 .. MaxEvents
  /\ place \in [Consumers -> Places]
  /\ late \in [Consumers -> BOOLEAN]
  /\ received \in [Consumers -> Seq(Events)]

\* A thread sleeps in wait_and_pop() only while there are threads enough awake
\* for all events of the queue, although a notification may go to a thread that
\* is timing out and try_pop() and clear() take what it was sent for.
NobodySleepsOverAnEvent == Asleep # {} => Len(queue) <= Cardinality(Awake)

Rising(s) == \A i, j \in DOMAIN s : i < j => s[i] < s[j]

\* No event is given to two threads or twice to one, none overtakes another, and
\* what waits in the queue is later than what anybody was given.
DeliveredOnceInOrder ==
  /\ Rising(queue)
  /\ \A c \in Consumers :
       /\ Rising(received[c] \o queue)
       /\ \A d \in Consumers \ {c} : ToSet(received[c]) \intersect ToSet(received[d]) = {}

\* A wait ends: with an event or at its deadline, however often it is woken.
WaitReturns == \A c \in Consumers : place[c] # "out" ~> place[c] = "out"

=============================================================================
