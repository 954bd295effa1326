------------------------------ MODULE TaskPool ------------------------------
(***************************************************************************)
(* What the thread pool of src/thread_pool.cpp promises to its callers:    *)
(* tasks start in the order they were handed over, each at most once; a    *)
(* task handed over while the pool is open is promised to be completed     *)
(* before the pool halts; nothing runs once it has halted.  Workers, the   *)
(* mutex and the condition variable do not appear here.                    *)
(***************************************************************************)
EXTENDS Sequences, SequencesExt

CONSTANT Tasks   \* the tasks callers may hand over

VARIABLES
  phase,         \* "open", "closing" or "halted"
  pending,       \* handed over and not started, oldest first
  active,        \* being executed
  done,          \* executed to the end
  promised       \* handed over while the pool was open

vars == <<phase, pending, active, done, promised>>

Init ==
  /\ phase = "open"
  /\ pending = <<>>
  /\ active = {}
  /\ done = {}
  /\ promised = {}

Accept(t) ==
  /\ t \notin ToSet(pending) \union active \union done
  /\ pending' = Append(pending, t)
  /\ promised' = IF phase = "open" THEN promised \union {t} ELSE promised
  /\ UNCHANGED <<phase, active, done>>

Start ==
  /\ phase # "halted"
  /\ pending # <<>>
  /\ pending' = Tail(pending)
  /\ active' = active \union {Head(pending)}
  /\ UNCHANGED <<phase, done, promised>>

Complete(t) ==
  /\ t \in active
  /\ active' = active \ {t}
  /\ done' = done \union {t}
  /\ UNCHANGED <<phase, pending, promised>>

Close ==
  /\ phase = "open"
  /\ phase' = "closing"
  /\ UNCHANGED <<pending, active, done, promised>>

Halt ==
  /\ phase = "closing"
  /\ active = {}
  /\ promised \subseteq done
  /\ phase' = "halted"
  /\ UNCHANGED <<pending, active, done, promised>>

Next ==
  \/ \E t \in Tasks : Accept(t) \/ Complete(t)
  \/ Start
  \/ Close
  \/ Halt

Spec == Init /\ [][Next]_vars

=============================================================================
