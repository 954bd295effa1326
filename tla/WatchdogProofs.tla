---------------------------- MODULE WatchdogProofs ----------------------------
(***************************************************************************)
(* Proofs about Watchdog, for any set of nodes and any finite set of       *)
(* timeouts.                                                               *)
(***************************************************************************)
EXTENDS Watchdog, FiniteSetTheorems, WellFoundedInduction, TLAPS

-----------------------------------------------------------------------------
(* The clock.                                                              *)

\* A finite set of numbers has a largest: a subset that has none, and of which
\* every proper subset has one, cannot be.
LEMMA LargestExists ==
  ASSUME NEW S \in SUBSET Nat, IsFiniteSet(S), S # {}
  PROVE  \E t \in S : \A u \in S : u <= t
  <1> DEFINE Bounded(A) == \E t \in A : \A u \in A : u <= t
             Bad == {A \in SUBSET S : A # {} /\ ~Bounded(A)}
  <1> SUFFICES ASSUME Bad # {} PROVE FALSE
    OBVIOUS
  <1>1. IsWellFoundedOn(StrictSubsetOrdering(S), SUBSET S)
    BY FS_StrictSubsetOrderingWellFounded, FS_FiniteSubsetsOfFinite
  <1>2. PICK A \in Bad : \A B \in Bad : <<B, A>> \notin StrictSubsetOrdering(S)
    <2> HIDE DEF Bad
    <2>1. Bad \subseteq SUBSET S
      BY DEF Bad
    <2>. QED
      BY <1>1, <2>1, WFMin
  <1>3. PICK x \in A : TRUE
    OBVIOUS
  <1>4. A \ {x} \notin Bad
    BY <1>2, <1>3 DEF StrictSubsetOrdering
  <1>5. CASE A \ {x} = {}
    BY <1>3, <1>5
  <1>6. CASE Bounded(A \ {x})
    <2>1. PICK t \in A \ {x} : \A u \in A \ {x} : u <= t
      BY <1>6
    <2>2. t \in Nat /\ x \in Nat /\ A \subseteq Nat
      BY <1>3
    <2>3. CASE x <= t
      BY <2>1, <2>2, <2>3
    <2>4. CASE t <= x
      BY <1>3, <2>1, <2>2, <2>4
    <2>. QED
      BY <2>2, <2>3, <2>4
  <1>. QED
    BY <1>3, <1>4, <1>5, <1>6

LEMMA MaxAgeType == MaxAge \in Nat
  <1>1. \E t \in Timeouts : \A u \in Timeouts : u <= t
    BY WatchdogAssumption, LargestExists
  <1> DEFINE top == CHOOSE t \in Timeouts : \A u \in Timeouts : u <= t
  <1>2. top \in Timeouts /\ \A u \in Timeouts : u <= top
    BY <1>1, Zenon
  <1>3. MaxAge = 1 + top
    BY DEF MaxAge
  <1> HIDE DEF top
  <1>. QED
    BY <1>2, <1>3, WatchdogAssumption

-----------------------------------------------------------------------------
(* The inductive invariant.                                                *)

\* Who holds the watchdog thread: running_ and watchdog_thread_ agree except
\* inside start() and stop(), and the thread ends for stop() alone.
Handover ==
  /\ pc = "starting" => running /\ thread = "none"
  /\ pc = "joining" => ~running /\ thread # "none"
  /\ pc = "out" => (running <=> thread # "none")
  /\ thread = "finished" => pc = "joining"

\* The clock the thread has read is never ahead of a node's silence, however
\* many heartbeats came since.
ReadEarlier == \A n \in Nodes : elapsed[n] <= age[n]

IInv == TypeOK /\ Handover /\ ReadEarlier /\ OneReportPerSilence

LEMMA InvInit == Init => IInv
  <1> SUFFICES ASSUME Init PROVE IInv
    OBVIOUS
  <1> USE DEF Init
  <1>1. Blank /\ running \in BOOLEAN
    BY Zenon DEF Blank
  <1>2. TypeOK
    BY <1>1, MaxAgeType DEF TypeOK, Stations
  <1>3. Handover /\ ReadEarlier /\ OneReportPerSilence
    BY DEF Handover, ReadEarlier, OneReportPerSilence
  <1>. QED
    BY <1>2, <1>3 DEF IInv

\* Registering, unregistering and heartbeats keep the invariant.
LEMMA HeardStep ==
  ASSUME IInv, NEW n \in Nodes, Heard(n), UNCHANGED threadVars,
         \/ \E t \in Timeouts : timeout' = [timeout EXCEPT ![n] = t]
         \/ timeout' = [timeout EXCEPT ![n] = 0]
         \/ timeout' = timeout
  PROVE  IInv'
  <1> USE DEF IInv, Heard, threadVars
  <1>1. timeout' \in [Nodes -> {0} \union Timeouts]
    BY DEF TypeOK
  <1>2. \A m \in Nodes : m # n => timeout'[m] = timeout[m]
    BY DEF TypeOK
  <1>3. TypeOK'
    <2>1. Blank'
      BY <1>2 DEF TypeOK, Blank, Registered
    <2>2. responsive' \in [Nodes -> BOOLEAN]
      BY DEF TypeOK
    <2>. QED
      BY <1>1, <2>1, <2>2, MaxAgeType DEF TypeOK
  <1>4. Handover'
    BY DEF Handover
  <1>5. ReadEarlier' /\ OneReportPerSilence'
    BY DEF ReadEarlier, OneReportPerSilence, TypeOK
  <1>. QED
    BY <1>3, <1>4, <1>5

LEMMA TickStep == ASSUME IInv, Tick PROVE IInv'
  <1> USE DEF IInv, Tick, nodeVars, threadVars
  <1>1. age' \in [Nodes -> 0 .. MaxAge] /\ \A n \in Nodes : age[n] <= age'[n]
    BY MaxAgeType DEF TypeOK
  <1>2. TypeOK'
    <2>1. Blank'
      BY DEF TypeOK, Blank, Registered
    <2>. QED
      BY <1>1, <2>1 DEF TypeOK
  <1>3. ReadEarlier'
    BY <1>1, MaxAgeType DEF ReadEarlier, TypeOK
  <1>4. Handover' /\ OneReportPerSilence'
    BY DEF Handover, OneReportPerSilence
  <1>. QED
    BY <1>2, <1>3, <1>4

LEMMA CheckStep == ASSUME IInv, Check PROVE IInv'
  <1> DEFINE late == {n \in Nodes : Registered(n) /\ responsive[n] /\ elapsed[n] > timeout[n]}
  <1> USE DEF IInv, Check
  <1>1. /\ responsive' = [n \in Nodes |-> responsive[n] /\ n \notin late]
        /\ reports' = [n \in Nodes |-> reports[n] + IF n \in late THEN 1 ELSE 0]
    OBVIOUS
  <1>2. TypeOK'
    <2>1. responsive' \in [Nodes -> BOOLEAN] /\ reports' \in [Nodes -> Nat]
      BY <1>1 DEF TypeOK
    <2>2. Blank'
      BY <1>1 DEF TypeOK, Blank, Registered
    <2>. QED
      BY <2>1, <2>2 DEF TypeOK, Stations
  <1>3. Handover' /\ ReadEarlier'
    BY DEF Handover, ReadEarlier
  <1>4. OneReportPerSilence'
    <2> SUFFICES ASSUME NEW n \in Nodes
                 PROVE  reports'[n] = IF responsive'[n] THEN 0 ELSE 1
      BY DEF OneReportPerSilence
    <2>1. reports[n] = IF responsive[n] THEN 0 ELSE 1
      BY DEF OneReportPerSilence
    <2>2. CASE n \in late
      <3>1. responsive[n] /\ ~responsive'[n]
        BY <1>1, <2>2, Zenon
      <3>. QED
        BY <1>1, <2>1, <2>2, <3>1
    <2>3. CASE n \notin late
      <3>1. responsive'[n] = responsive[n]
        <4>1. responsive'[n] = (responsive[n] /\ n \notin late) /\ responsive[n] \in BOOLEAN
          BY <1>1, Zenon DEF TypeOK
        <4>. QED
          BY <2>3, <4>1, Zenon
      <3>. QED
        BY <1>1, <2>1, <2>3, <3>1
    <2>. QED
      BY <2>2, <2>3
  <1>. QED
    BY <1>2, <1>3, <1>4

\* The steps of the threads that leave the table alone.
LEMMA ThreadStep ==
  ASSUME IInv, Sample \/ Wake \/ Leave \/ StartBegin \/ StartThread \/ StopBegin \/ StopJoin
  PROVE  IInv'
  <1> USE DEF IInv, Sample, Wake, Leave, StartBegin, StartThread, StopBegin, StopJoin, nodeVars
  <1>1. TypeOK'
    <2>1. Blank' /\ running' \in BOOLEAN
      BY Zenon DEF TypeOK, Blank, Registered
    <2>. QED
      BY <2>1, MaxAgeType DEF TypeOK, Stations
  <1>2. Handover'
    BY DEF Handover, TypeOK
  <1>3. ReadEarlier' /\ OneReportPerSilence'
    BY DEF ReadEarlier, OneReportPerSilence, TypeOK
  <1>. QED
    BY <1>1, <1>2, <1>3

LEMMA InvStep == IInv /\ [Next]_vars => IInv'
  <1> SUFFICES ASSUME IInv, [Next]_vars PROVE IInv'
    OBVIOUS
  <1>1. ASSUME NEW n \in Nodes, NEW t \in Timeouts, Register(n, t) PROVE IInv'
    BY <1>1, HeardStep DEF Register
  <1>2. ASSUME NEW n \in Nodes, Unregister(n) \/ Heartbeat(n) PROVE IInv'
    BY <1>2, HeardStep DEF Unregister, Heartbeat
  <1>3. CASE Tick
    BY <1>3, TickStep
  <1>4. CASE WatchdogThread \/ StartBegin \/ StopBegin \/ Proceed
    BY <1>4, CheckStep, ThreadStep DEF WatchdogThread, Proceed
  <1>5. CASE UNCHANGED vars
    BY <1>5 DEF vars, nodeVars, threadVars, IInv, TypeOK, Blank, Registered, Handover, ReadEarlier,
                OneReportPerSilence
  <1>. QED
    BY <1>1, <1>2, <1>3, <1>4, <1>5 DEF Next

\* The inductive invariant holds in every reachable state.
THEOREM Invariance == Spec => []IInv
  BY InvInit, InvStep, PTL DEF Spec

-----------------------------------------------------------------------------
(* The properties.                                                         *)

\* Every variable keeps its type, and a node that is not registered has left
\* nothing behind.
THEOREM TypeCorrect == Spec => []TypeOK
  <1>1. IInv => TypeOK
    BY DEF IInv
  <1>. QED
    BY <1>1, Invariance, PTL

\* One silence is reported once, however the checks and the heartbeats fall:
\* src/safety/posix_watchdog.cpp, check_timeouts().
THEOREM SilenceReportedOnce == Spec => []OneReportPerSilence
  <1>1. IInv => OneReportPerSilence
    BY DEF IInv
  <1>. QED
    BY <1>1, Invariance, PTL

\* After stop() no watchdog thread is left, and start() assigns to none that is
\* still joinable: src/safety/posix_watchdog.cpp, start() and stop().
THEOREM StopLeavesNoThread == Spec => []QuietOnceStopped
  <1>1. IInv => QuietOnceStopped
    BY DEF IInv, Handover, QuietOnceStopped
  <1>. QED
    BY <1>1, Invariance, PTL

\* What looked late when the clock was read is late by now.
LEMMA LateIsSilent ==
  ASSUME TypeOK, ReadEarlier, NEW n \in Nodes, elapsed[n] > timeout[n]
  PROVE  age[n] > timeout[n]
  <1>1. timeout[n] \in Int
    <2>1. {0} \union Timeouts \subseteq Int
      BY WatchdogAssumption
    <2>. QED
      BY <2>1, Zenon DEF TypeOK
  <1>2. elapsed[n] \in Int /\ age[n] \in Int
    BY MaxAgeType DEF TypeOK
  <1>. QED
    BY <1>1, <1>2 DEF ReadEarlier

\* No node is marked unresponsive that was heard of within its timeout, although
\* the clock is read before nodes_mutex_ is taken.
THEOREM AlarmsAreTrue == Spec => NoFalseAlarm
  <1> DEFINE A == \A n \in Nodes : responsive[n] /\ ~responsive'[n] => age[n] > timeout[n]
  <1>1. IInv /\ [Next]_vars => [A]_vars
    <2> SUFFICES ASSUME IInv, Next, NEW n \in Nodes, responsive[n], ~responsive'[n]
                 PROVE  age[n] > timeout[n]
      OBVIOUS
    <2> USE DEF IInv
    <2>1. ASSUME NEW m \in Nodes, Heard(m) PROVE FALSE
      BY <2>1 DEF Heard, TypeOK
    <2>2. CASE Check
      <3>1. elapsed[n] > timeout[n]
        BY <2>2 DEF Check
      <3>. QED
        BY <3>1, LateIsSilent
    <2>3. ASSUME responsive' = responsive PROVE FALSE
      BY <2>3
    <2>. QED
      BY <2>1, <2>2, <2>3
      DEF Next, Register, Unregister, Heartbeat, Tick, WatchdogThread, Sample, Wake, Leave,
          StartBegin, StopBegin, Proceed, StartThread, StopJoin, nodeVars
  <1>. QED
    BY <1>1, Invariance, PTL DEF Spec, NoFalseAlarm

=============================================================================
