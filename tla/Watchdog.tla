------------------------------- MODULE Watchdog -------------------------------
(***************************************************************************)
(* PosixWatchdog: a table of nodes under nodes_mutex_, each with the time  *)
(* of its last heartbeat; a thread that from time to time looks for nodes  *)
(* that have been silent too long and reports each once; and start() and   *)
(* stop(), which hand that thread over by an atomic flag and no mutex.     *)
(*                                                                         *)
(* A critical section is one action, with the callback it calls: these are *)
(* the user's and are assumed not to call the watchdog.  Time is kept as   *)
(* the age of each last heartbeat.  A heartbeat whose checksum is wrong or *)
(* whose node is unknown changes nothing; sequence numbers are stored and  *)
(* never looked at.  start() and stop() are called one after the other:    *)
(* called by two threads at once, they may end the program or leave a      *)
(* thread behind.                                                          *)
(***************************************************************************)
EXTENDS Integers, FiniteSets

CONSTANTS
  Nodes,         \* node ids
  Timeouts       \* timeout_ms of the nodes, in ticks of the clock

ASSUME WatchdogAssumption ==
  /\ Timeouts \subseteq Nat /\ IsFiniteSet(Timeouts) /\ Timeouts # {}

VARIABLES
  timeout,      \* of each node in nodes_; 0, which is refused, means not there
  age,          \* ticks since last_heartbeat
  responsive,
  running,      \* running_
  thread,       \* watchdog_thread_: where it is, "none" if not joinable
  elapsed,      \* ages at the time check_timeouts() took, negative if younger
  pc,           \* where the thread that calls start() and stop() is
  reports       \* timeouts reported of each node since its last sign of life

nodeVars == <<timeout, age, responsive, reports>>
threadVars == <<running, thread, pc>>
vars == <<nodeVars, threadVars, elapsed>>

\* Ages beyond every timeout are not told apart.
MaxAge == 1 + CHOOSE t \in Timeouts : \A u \in Timeouts : u <= t

Stations == {"none", "testing", "locking", "asleep", "finished"}

Init ==
  /\ timeout = [n \in Nodes |-> 0]
  /\ age = [n \in Nodes |-> 0]
  /\ responsive = [n \in Nodes |-> TRUE]
  /\ reports = [n \in Nodes |-> 0]
  /\ running = FALSE
  /\ thread = "none"
  /\ elapsed = [n \in Nodes |-> -1]
  /\ pc = "out"

Registered(n) == timeout[n] # 0

-----------------------------------------------------------------------------
(* The table of nodes.                                                     *)

\* The node has been heard of now, after any time the thread may hold.
Heard(n) ==
  /\ age' = [age EXCEPT ![n] = 0]
  /\ elapsed' = [elapsed EXCEPT ![n] = -1]
  /\ responsive' = [responsive EXCEPT ![n] = TRUE]
  /\ reports' = [reports EXCEPT ![n] = 0]

\* A node that is registered already is refused.
Register(n, t) ==
  /\ ~Registered(n) /\ t # 0
  /\ timeout' = [timeout EXCEPT ![n] = t]
  /\ Heard(n)
  /\ UNCHANGED threadVars

\* Mutant of Unregister: the entry is disabled, not erased.
UnregisterDisables(n) ==
  /\ Registered(n)
  /\ timeout' = [timeout EXCEPT ![n] = 0]
  /\ UNCHANGED <<age, responsive, reports, elapsed, threadVars>>

\* The entry is erased; what is kept of a node that has none is blank.
Unregister(n) ==
  /\ Registered(n)
  /\ timeout' = [timeout EXCEPT ![n] = 0]
  /\ Heard(n)
  /\ UNCHANGED threadVars

Heartbeat(n) ==
  /\ Registered(n)
  /\ Heard(n)
  /\ UNCHANGED <<timeout, threadVars>>

\* FALSE also where it returns that there is no such node.
is_responsive(n) == Registered(n) /\ responsive[n]

\* Time passes for the nodes in the table.
Tick ==
  /\ age' = [n \in Nodes |-> IF Registered(n) /\ age[n] < MaxAge THEN age[n] + 1 ELSE age[n]]
  /\ UNCHANGED <<timeout, responsive, reports, threadVars, elapsed>>

-----------------------------------------------------------------------------
(* watchdog_thread()                                                       *)

\* The flag is read, then the clock, before nodes_mutex_ is taken.
Sample ==
  /\ thread = "testing" /\ running
  /\ elapsed' = age
  /\ thread' = "locking"
  /\ UNCHANGED <<nodeVars, running, pc>>

\* Mutant of Check: the difference of the times is taken for unsigned.
CheckUnsigned ==
  /\ thread = "locking"
  /\ LET late == {n \in Nodes : /\ Registered(n) /\ responsive[n]
                                /\ elapsed[n] > timeout[n] \/ elapsed[n] < 0}
     IN  /\ responsive' = [n \in Nodes |-> responsive[n] /\ n \notin late]
         /\ reports' = [n \in Nodes |-> reports[n] + IF n \in late THEN 1 ELSE 0]
  /\ thread' = "asleep"
  /\ UNCHANGED <<timeout, age, elapsed, running, pc>>

\* Mutant of Check: a node that is unresponsive already is reported again.
CheckReportsAgain ==
  /\ thread = "locking"
  /\ LET late == {n \in Nodes : Registered(n) /\ elapsed[n] > timeout[n]}
     IN  /\ responsive' = [n \in Nodes |-> responsive[n] /\ n \notin late]
         /\ reports' = [n \in Nodes |-> reports[n] + IF n \in late THEN 1 ELSE 0]
  /\ thread' = "asleep"
  /\ UNCHANGED <<timeout, age, elapsed, running, pc>>

\* check_timeouts() under the mutex.
Check ==
  /\ thread = "locking"
  /\ LET late == {n \in Nodes : /\ Registered(n) /\ responsive[n]
                                /\ elapsed[n] > timeout[n]}
     IN  /\ responsive' = [n \in Nodes |-> responsive[n] /\ n \notin late]
         /\ reports' = [n \in Nodes |-> reports[n] + IF n \in late THEN 1 ELSE 0]
  /\ thread' = "asleep"
  /\ UNCHANGED <<timeout, age, elapsed, running, pc>>

\* Mutant of Wake: the thread checks once and is done.
WakeAndLeave ==
  /\ thread = "asleep"
  /\ thread' = "finished"
  /\ UNCHANGED <<nodeVars, elapsed, running, pc>>

\* The 100 ms between two checks are over, or long over.
Wake ==
  /\ thread = "asleep"
  /\ thread' = "testing"
  /\ UNCHANGED <<nodeVars, elapsed, running, pc>>

Leave ==
  /\ thread = "testing" /\ ~running
  /\ thread' = "finished"
  /\ UNCHANGED <<nodeVars, elapsed, running, pc>>

-----------------------------------------------------------------------------
(* start() and stop()                                                      *)

\* The exchange; a watchdog that is running is told so.
StartBegin ==
  /\ pc = "out" /\ ~running
  /\ running' = TRUE
  /\ pc' = "starting"
  /\ UNCHANGED <<nodeVars, elapsed, thread>>

\* A new thread is assigned to watchdog_thread_; if that is still joinable, the
\* assignment ends the program, which QuietOnceStopped excludes.
StartThread ==
  /\ pc = "starting"
  /\ thread' = "testing"
  /\ pc' = "out"
  /\ UNCHANGED <<nodeVars, elapsed, running>>

\* Mutant of StopBegin: the thread is left to find out by itself.
StopWithoutJoin ==
  /\ pc = "out" /\ running
  /\ running' = FALSE
  /\ UNCHANGED <<nodeVars, elapsed, thread, pc>>

\* Mutant of StopBegin: the flag is read but not cleared.
StopKeepsRunning ==
  /\ pc = "out" /\ running
  /\ pc' = IF thread = "none" THEN "out" ELSE "joining"
  /\ UNCHANGED <<nodeVars, elapsed, running, thread>>

\* The exchange; a watchdog that is stopped has nothing to join.
StopBegin ==
  /\ pc = "out" /\ running
  /\ running' = FALSE
  /\ pc' = IF thread = "none" THEN "out" ELSE "joining"
  /\ UNCHANGED <<nodeVars, elapsed, thread>>

StopJoin ==
  /\ pc = "joining"
  /\ thread = "finished"
  /\ thread' = "none"
  /\ pc' = "out"
  /\ UNCHANGED <<nodeVars, elapsed, running>>

-----------------------------------------------------------------------------
WatchdogThread == Sample \/ Check \/ Wake \/ Leave

Proceed == StartThread \/ StopJoin

Next ==
  \/ \E n \in Nodes, t \in Timeouts : Register(n, t)
  \/ \E n \in Nodes : Unregister(n) \/ Heartbeat(n)
  \/ Tick
  \/ WatchdogThread
  \/ StartBegin \/ StopBegin \/ Proceed

Spec == Init /\ [][Next]_vars

\* The watchdog thread and a thread inside start() or stop() are scheduled, and
\* nodes_mutex_ is not kept from the thread for ever.
FairSpec ==
  Spec /\ WF_vars(WatchdogThread) /\ WF_vars(Proceed)

-----------------------------------------------------------------------------
\* A node that is not in nodes_ has left nothing behind.
Blank == \A n \in Nodes : ~Registered(n) => age[n] = 0 /\ responsive[n] /\ reports[n] = 0

\* Every variable keeps to its type, and the table holds no more than it says.
TypeOK ==
  /\ timeout \in [Nodes -> {0} \union Timeouts]
  /\ age \in [Nodes -> 0 .. MaxAge]
  /\ responsive \in [Nodes -> BOOLEAN]
  /\ running \in BOOLEAN
  /\ thread \in Stations
  /\ elapsed \in [Nodes -> -1 .. MaxAge]
  /\ pc \in {"out", "starting", "joining"}
  /\ reports \in [Nodes -> Nat]
  /\ Blank

\* A node is marked unresponsive only when it really has been silent longer
\* than its timeout, although check_timeouts() reads the clock before it waits
\* for the mutex and heartbeats come in between.
NoFalseAlarm ==
  [][\A n \in Nodes : responsive[n] /\ ~responsive'[n] => age[n] > timeout[n]]_vars

\* One silence is reported once: a node that is responsive has not been reported
\* since it was last heard of, and one that is not, has been exactly once.
OneReportPerSilence ==
  \A n \in Nodes : reports[n] = IF responsive[n] THEN 0 ELSE 1

\* After stop() has returned, no watchdog thread is left that could still report
\* a timeout, until the next start() makes one: what it assigns to is never a
\* thread that is still joinable, which would end the program.
QuietOnceStopped ==
  (~running /\ pc = "out") \/ pc = "starting" => thread = "none"

\* A node that stays silent for longer than its timeout while the watchdog runs
\* is noticed: for ever silent and unnoticed it cannot be.
Unnoticed(n) == running /\ age[n] > timeout[n] /\ is_responsive(n)
SilenceIsNoticed == \A n \in Nodes : []<>~Unnoticed(n)

\* A stop() that waits for the thread returns.
StopReturns == pc = "joining" ~> pc = "out"

=============================================================================
