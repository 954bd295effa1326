---------------------------- MODULE EventLoopProofs ----------------------------
(***************************************************************************)
(* Proofs about EventLoop, for any finite set of consumers, any number of  *)
(* events, any handlers and any list of them.                              *)
(***************************************************************************)
EXTENDS EventLoop, QueueFacts, FiniteSetTheorems, TLAPS

-----------------------------------------------------------------------------
(* Sequences of event numbers.                                             *)

LEMMA AppendRising ==
  ASSUME NEW s \in Seq(Nat), NEW e \in Nat, Rising(s), \A x \in ToSet(s) : x < e
  PROVE  Rising(Append(s, e))
  <1>1. /\ Len(Append(s, e)) = Len(s) + 1 /\ Append(s, e)[Len(s) + 1] = e
        /\ \A i \in 1 .. Len(s) : Append(s, e)[i] = s[i]
        /\ DOMAIN s = 1 .. Len(s) /\ DOMAIN Append(s, e) = 1 .. Len(s) + 1
        /\ Len(s) \in Nat
    OBVIOUS
  <1>2. \A i \in 1 .. Len(s) : s[i] < e
    BY <1>1 DEF ToSet
  <1>. QED
    BY <1>1, <1>2 DEF Rising

LEMMA TailRising ==
  ASSUME NEW s \in Seq(Nat), s # <<>>, Rising(s)
  PROVE  Rising(Tail(s)) /\ \A y \in ToSet(Tail(s)) : Head(s) < y
  <1>1. /\ Len(s) \in Nat /\ Len(s) > 0 /\ Head(s) = s[1]
        /\ Len(Tail(s)) = Len(s) - 1 /\ DOMAIN s = 1 .. Len(s)
        /\ DOMAIN Tail(s) = 1 .. Len(s) - 1
    OBVIOUS
  <1>2. \A i \in 1 .. Len(s) - 1 : Tail(s)[i] = s[i + 1]
    OBVIOUS
  <1>3. Rising(Tail(s))
    <2> SUFFICES ASSUME NEW i \in DOMAIN Tail(s), NEW j \in DOMAIN Tail(s), i < j
                 PROVE  Tail(s)[i] < Tail(s)[j]
      BY DEF Rising
    <2>1. i + 1 \in DOMAIN s /\ j + 1 \in DOMAIN s /\ i + 1 < j + 1
      BY <1>1
    <2>2. s[i + 1] < s[j + 1]
      BY <2>1 DEF Rising
    <2>. QED
      BY <1>1, <1>2, <2>2
  <1>4. \A i \in DOMAIN Tail(s) : Head(s) < Tail(s)[i]
    BY <1>1, <1>2 DEF Rising
  <1>. QED
    BY <1>3, <1>4 DEF ToSet

\* One sequence after the other rises if both do and the second is the later.
LEMMA ConcatRising ==
  ASSUME NEW r \in Seq(Nat), NEW q \in Seq(Nat)
  PROVE  Rising(r \o q) <=>
           Rising(r) /\ Rising(q) /\ \A x \in ToSet(r), y \in ToSet(q) : x < y
  <1>1. /\ Len(r) \in Nat /\ Len(q) \in Nat
        /\ DOMAIN r = 1 .. Len(r) /\ DOMAIN q = 1 .. Len(q)
        /\ DOMAIN (r \o q) = 1 .. Len(r) + Len(q)
        /\ \A i \in 1 .. Len(r) : (r \o q)[i] = r[i]
        /\ \A j \in 1 .. Len(q) : (r \o q)[Len(r) + j] = q[j]
    OBVIOUS
  <1>2. ASSUME Rising(r \o q)
        PROVE  Rising(r) /\ Rising(q) /\ \A x \in ToSet(r), y \in ToSet(q) : x < y
    <2>1. ASSUME NEW i \in DOMAIN r, NEW j \in DOMAIN r, i < j PROVE r[i] < r[j]
      <3>1. i \in DOMAIN (r \o q) /\ j \in DOMAIN (r \o q)
        BY <1>1
      <3>2. (r \o q)[i] < (r \o q)[j]
        BY <1>2, <2>1, <3>1 DEF Rising
      <3>. QED
        BY <1>1, <3>2
    <2>2. ASSUME NEW i \in DOMAIN q, NEW j \in DOMAIN q, i < j PROVE q[i] < q[j]
      <3>1. /\ Len(r) + i \in DOMAIN (r \o q) /\ Len(r) + j \in DOMAIN (r \o q)
            /\ Len(r) + i < Len(r) + j
        BY <1>1, <2>2
      <3>. QED
        BY <1>1, <1>2, <3>1 DEF Rising
    <2>3. ASSUME NEW i \in DOMAIN r, NEW j \in DOMAIN q PROVE r[i] < q[j]
      <3>1. /\ i \in DOMAIN (r \o q) /\ Len(r) + j \in DOMAIN (r \o q) /\ i < Len(r) + j
        BY <1>1
      <3>. QED
        BY <1>1, <1>2, <3>1 DEF Rising
    <2>. QED
      BY <2>1, <2>2, <2>3 DEF Rising, ToSet
  <1>3. ASSUME Rising(r), Rising(q), \A x \in ToSet(r), y \in ToSet(q) : x < y
        PROVE  Rising(r \o q)
    <2> SUFFICES ASSUME NEW i \in DOMAIN (r \o q), NEW j \in DOMAIN (r \o q), i < j
                 PROVE  (r \o q)[i] < (r \o q)[j]
      BY DEF Rising
    <2>1. \A m \in DOMAIN r, n \in DOMAIN q : r[m] < q[n]
      BY <1>3 DEF ToSet
    <2>2. CASE j <= Len(r)
      BY <1>1, <1>3, <2>2 DEF Rising
    <2>3. CASE i > Len(r)
      <3>1. /\ i - Len(r) \in DOMAIN q /\ j - Len(r) \in DOMAIN q
            /\ i = Len(r) + (i - Len(r)) /\ j = Len(r) + (j - Len(r))
            /\ i - Len(r) < j - Len(r)
        BY <1>1, <2>3
      <3>2. q[i - Len(r)] < q[j - Len(r)]
        BY <1>3, <3>1 DEF Rising
      <3>. QED
        BY <1>1, <3>1, <3>2
    <2>4. CASE i <= Len(r) /\ j > Len(r)
      <3>1. i \in DOMAIN r /\ j - Len(r) \in DOMAIN q /\ j = Len(r) + (j - Len(r))
        BY <1>1, <2>4
      <3>. QED
        BY <1>1, <2>1, <3>1
    <2>5. i \in Int /\ j \in Int /\ Len(r) \in Int
      BY <1>1
    <2>. QED
      BY <2>2, <2>3, <2>4, <2>5
  <1>. QED
    BY <1>2, <1>3

-----------------------------------------------------------------------------
(* The inductive invariant.                                                *)

\* DeliveredOnceInOrder, of elements instead of positions.
Delivery ==
  /\ Rising(queue)
  /\ \A c \in Consumers :
       /\ Rising(received[c])
       /\ \A x \in ToSet(received[c]), y \in ToSet(queue) : x < y
       /\ \A d \in Consumers \ {c} : ToSet(received[c]) \intersect ToSet(received[d]) = {}

\* Nothing is in anybody's hands that was not pushed.
Numbered ==
  /\ \A x \in ToSet(queue) : x <= pushed
  /\ \A c \in Consumers : \A x \in ToSet(received[c]) : x <= pushed

QueueInv == TypeOK /\ Delivery /\ Numbered

LEMMA SequenceTypes ==
  ASSUME TypeOK
  PROVE  /\ queue \in Seq(Nat) /\ pushed \in Nat
         /\ \A c \in Consumers : received[c] \in Seq(Nat)
  BY EventQueueAssumption DEF TypeOK, Events

LEMMA DeliveryIsOrder ==
  ASSUME TypeOK
  PROVE  Delivery <=> DeliveredOnceInOrder
  BY SequenceTypes, ConcatRising DEF Delivery, DeliveredOnceInOrder

LEMMA QueueInit == Init => QueueInv
  <1> SUFFICES ASSUME Init PROVE QueueInv
    OBVIOUS
  <1>1. late \in [Consumers -> BOOLEAN]
    BY Zenon DEF Init
  <1>2. TypeOK
    BY <1>1, EventQueueAssumption DEF Init, TypeOK, Places
  <1>3. ToSet(<<>>) = {} /\ Rising(<<>>)
    BY DEF ToSet, Rising
  <1>4. Delivery /\ Numbered
    BY <1>3 DEF Init, Delivery, Numbered
  <1>. QED
    BY <1>2, <1>4 DEF QueueInv

LEMMA PushStep ==
  ASSUME QueueInv, Push
  PROVE  QueueInv'
  <1> USE DEF QueueInv
  <1>1. /\ pushed + 1 \in Events /\ queue' = Append(queue, pushed + 1)
        /\ pushed' = pushed + 1 /\ UNCHANGED <<late, received>>
    BY EventQueueAssumption DEF Push, TypeOK, Events
  <1>2. /\ queue' \in Seq(Events) /\ ToSet(queue') = ToSet(queue) \union {pushed + 1}
    BY <1>1, PushFacts DEF TypeOK
  <1>3. place' \in [Consumers -> Places]
    BY DEF Push, NotifyOne, TypeOK, Places, Asleep
  <1>4. TypeOK'
    BY <1>1, <1>2, <1>3, EventQueueAssumption DEF TypeOK, Events
  <1>5. /\ \A x \in ToSet(queue) : x \in Nat /\ x < pushed + 1
        /\ \A c \in Consumers : \A x \in ToSet(received[c]) : x \in Nat /\ x < pushed + 1
    <2>1. /\ ToSet(queue) \subseteq Nat
          /\ \A c \in Consumers : ToSet(received[c]) \subseteq Nat
      BY SequenceTypes, ElementFacts
    <2>2. pushed \in Nat /\ \A x \in Nat : x <= pushed => x < pushed + 1
      BY SequenceTypes
    <2>. QED
      BY <2>1, <2>2 DEF Numbered
  <1>6. Rising(queue')
    BY <1>1, <1>5, SequenceTypes, AppendRising DEF Delivery
  <1>7. Delivery'
    <2>1. \A c \in Consumers : \A x \in ToSet(received[c]), y \in ToSet(queue') : x < y
      BY <1>2, <1>5 DEF Delivery
    <2>2. received' = received
      BY <1>1
    <2>. QED
      BY <1>6, <2>1, <2>2 DEF Delivery
  <1>8. Numbered'
    <2>1. \A x \in Nat : x < pushed + 1 => x <= pushed'
      BY <1>1, SequenceTypes
    <2>2. pushed + 1 <= pushed'
      BY <1>1, SequenceTypes
    <2>. QED
      BY <1>1, <1>2, <1>5, <2>1, <2>2 DEF Numbered
  <1>. QED
    BY <1>4, <1>7, <1>8

\* Whoever takes an event takes the earliest, which nobody else has.
LEMMA TakeStep ==
  ASSUME QueueInv, NEW c \in Consumers, Take(c), pushed' = pushed,
         place' \in [Consumers -> Places], late' = late
  PROVE  QueueInv'
  <1> USE DEF QueueInv
  <1>1. /\ queue # <<>> /\ queue' = Tail(queue)
        /\ received' = [received EXCEPT ![c] = Append(received[c], Head(queue))]
    BY DEF Take
  <1>2. /\ Head(queue) \in Events /\ queue' \in Seq(Events)
        /\ ToSet(queue) = {Head(queue)} \union ToSet(queue')
    BY <1>1, PopFacts DEF TypeOK
  <1>3. /\ received[c] \in Seq(Events) /\ received'[c] = Append(received[c], Head(queue))
        /\ \A d \in Consumers : d # c => received'[d] = received[d]
    BY <1>1 DEF TypeOK
  <1>4. /\ received'[c] \in Seq(Events)
        /\ ToSet(received'[c]) = ToSet(received[c]) \union {Head(queue)}
    BY <1>2, <1>3, PushFacts
  <1>5. TypeOK'
    BY <1>1, <1>2, <1>4 DEF TypeOK
  <1>6. Rising(queue') /\ \A y \in ToSet(queue') : Head(queue) < y
    BY <1>1, SequenceTypes, TailRising DEF Delivery
  <1>7. \A d \in Consumers : \A x \in ToSet(received[d]) : x < Head(queue)
    BY <1>2 DEF Delivery
  <1>8. Rising(received'[c])
    BY <1>2, <1>3, <1>7, SequenceTypes, AppendRising DEF Delivery, Events
  <1>9. \A d \in Consumers : Head(queue) \notin ToSet(received[d])
    <2>1. Head(queue) \in Nat
      BY <1>2, EventQueueAssumption DEF Events
    <2>2. ~(Head(queue) < Head(queue))
      BY <2>1
    <2>. QED
      BY <1>7, <2>2, Zenon
  <1>10. Delivery'
    <2>1. ASSUME NEW d \in Consumers
          PROVE  /\ Rising(received'[d])
                 /\ \A x \in ToSet(received'[d]), y \in ToSet(queue') : x < y
      <3>1. CASE d = c
        BY <1>2, <1>4, <1>6, <1>8, <3>1 DEF Delivery
      <3>2. CASE d # c
        BY <1>2, <1>3, <3>2 DEF Delivery
      <3>. QED
        BY <3>1, <3>2
    <2>2. ASSUME NEW d \in Consumers, NEW e \in Consumers \ {d}
          PROVE  ToSet(received'[d]) \intersect ToSet(received'[e]) = {}
      <3>1. ToSet(received[d]) \intersect ToSet(received[e]) = {}
        BY DEF Delivery
      <3>2. CASE d = c
        BY <1>3, <1>4, <1>9, <3>1, <3>2
      <3>3. CASE e = c
        BY <1>3, <1>4, <1>9, <3>1, <3>3
      <3>4. CASE d # c /\ e # c
        BY <1>3, <3>1, <3>4
      <3>. QED
        BY <3>2, <3>3, <3>4
    <2>. QED
      BY <1>6, <2>1, <2>2 DEF Delivery
  <1>11. Numbered'
    <2>1. ASSUME NEW d \in Consumers, NEW x \in ToSet(received'[d]) PROVE x <= pushed
      BY <1>2, <1>3, <1>4 DEF Numbered
    <2>. QED
      BY <1>2, <2>1 DEF Numbered
  <1>. QED
    BY <1>5, <1>10, <1>11

LEMMA ClearStep == ASSUME QueueInv, Clear PROVE QueueInv'
  <1>1. queue' = <<>> /\ UNCHANGED <<pushed, place, late, received>>
    BY DEF Clear
  <1>2. ToSet(<<>>) = {} /\ Rising(<<>>)
    BY DEF ToSet, Rising
  <1>. QED
    BY <1>1, <1>2 DEF QueueInv, TypeOK, Delivery, Numbered

\* Going to sleep, waking and the clock touch no event.
LEMMA PlaceStep ==
  ASSUME QueueInv, UNCHANGED <<queue, pushed, received>>,
         place' \in [Consumers -> Places], late' \in [Consumers -> BOOLEAN]
  PROVE  QueueInv'
  BY DEF QueueInv, TypeOK, Delivery, Numbered

LEMMA QueueStep == QueueInv /\ [Next]_vars => QueueInv'
  <1> SUFFICES ASSUME QueueInv, [Next]_vars PROVE QueueInv'
    OBVIOUS
  <1>1. /\ place \in [Consumers -> Places] /\ late \in [Consumers -> BOOLEAN]
    BY DEF QueueInv, TypeOK
  <1>2. ASSUME NEW c \in Consumers, TryPop(c) PROVE QueueInv'
    BY <1>1, <1>2, TakeStep DEF TryPop
  <1>3. ASSUME NEW c \in Consumers, WaitAndPop(c) PROVE QueueInv'
    <2>1. place' \in [Consumers -> Places]
      BY <1>1, <1>3 DEF WaitAndPop, Wait, Resume, Places
    <2>2. late' \in [Consumers -> BOOLEAN]
      BY <1>1, <1>3 DEF WaitAndPop, Wait, Resume
    <2>3. CASE Take(c)
      BY <1>3, <2>1, <2>3, TakeStep DEF WaitAndPop, Wait, Resume, Take
    <2>4. CASE UNCHANGED <<queue, received>>
      BY <1>3, <2>1, <2>2, <2>4, PlaceStep DEF WaitAndPop, Wait, Resume
    <2>. QED
      BY <1>3, <2>3, <2>4 DEF WaitAndPop, Wait, Resume
  <1>4. ASSUME NEW c \in Consumers, Expire(c) \/ TimeOut(c) \/ WakeSpuriously(c) PROVE QueueInv'
    <2>1. place' \in [Consumers -> Places]
      BY <1>1, <1>4 DEF Expire, TimeOut, WakeSpuriously, Rouse, Places
    <2>2. late' \in [Consumers -> BOOLEAN]
      BY <1>1, <1>4, Zenon DEF Expire, TimeOut, WakeSpuriously
    <2>. QED
      BY <1>4, <2>1, <2>2, PlaceStep DEF Expire, TimeOut, WakeSpuriously
  <1>5. CASE UNCHANGED vars
    BY <1>1, <1>5, PlaceStep DEF vars
  <1>. QED
    BY <1>2, <1>3, <1>4, <1>5, PushStep, ClearStep DEF Next

-----------------------------------------------------------------------------
(* Notifications.                                                          *)

LEMMA CountAwake == IsFiniteSet(Awake) /\ Cardinality(Awake) \in Nat
  BY EventQueueAssumption, FS_Subset, FS_CardinalityType DEF Awake

LEMMA NotifiedStep ==
  QueueInv /\ NobodySleepsOverAnEvent /\ [Next]_vars => NobodySleepsOverAnEvent'
  <1> SUFFICES ASSUME QueueInv, NobodySleepsOverAnEvent, [Next]_vars, Asleep' # {}
               PROVE  Len(queue') <= Cardinality(Awake')
    BY DEF NobodySleepsOverAnEvent
  <1> USE DEF QueueInv, TypeOK
  <1>1. IsFiniteSet(Awake) /\ Cardinality(Awake) \in Nat /\ Len(queue) \in Nat
    BY CountAwake
  <1>2. Asleep # {} => Len(queue) <= Cardinality(Awake)
    BY DEF NobodySleepsOverAnEvent
  <1>3. Cardinality(Awake') \in Nat
    BY EventQueueAssumption, FS_Subset, FS_CardinalityType DEF Awake
  <1>4. ASSUME UNCHANGED place, Len(queue') <= Len(queue), Len(queue') \in Nat
        PROVE  Len(queue') <= Cardinality(Awake')
    <2>1. Awake' = Awake /\ Asleep' = Asleep
      BY <1>4 DEF Awake, Asleep
    <2>. QED
      BY <1>1, <1>2, <1>4, <2>1
  <1>5. ASSUME NEW c \in Consumers, Take(c)
        PROVE  Len(queue') = Len(queue) - 1
    BY <1>5, PopFacts DEF Take
  <1>6. ASSUME queue' = <<>> PROVE Len(queue') <= Cardinality(Awake')
    BY <1>3, <1>6
  <1>7. CASE Push
    <2>1. PICK c \in Asleep : place' = [place EXCEPT ![c] = "awake"]
      BY <1>7 DEF Push, NotifyOne, Asleep
    <2>2. Awake' = Awake \union {c} /\ c \notin Awake
      BY <2>1 DEF Awake, Asleep
    <2>3. Cardinality(Awake') = Cardinality(Awake) + 1
      BY <1>1, <2>2, FS_AddElement
    <2>4. Len(queue') = Len(queue) + 1
      BY <1>7 DEF Push
    <2>. QED
      BY <1>1, <1>2, <2>1, <2>3, <2>4
  <1>8. CASE Clear
    BY <1>6, <1>8 DEF Clear
  <1>9. ASSUME NEW c \in Consumers, TryPop(c) PROVE Len(queue') <= Cardinality(Awake')
    BY <1>1, <1>4, <1>5, <1>9 DEF TryPop, Take
  <1>10. ASSUME NEW c \in Consumers, Wait(c) PROVE Len(queue') <= Cardinality(Awake')
    BY <1>1, <1>4, <1>5, <1>6, <1>10 DEF Wait, Take
  <1>11. ASSUME NEW c \in Consumers, Resume(c) PROVE Len(queue') <= Cardinality(Awake')
    <2>1. CASE Take(c) /\ place' = [place EXCEPT ![c] = "out"]
      <3>1. Awake' = Awake \ {c} /\ c \in Awake /\ Asleep' = Asleep
        BY <1>11, <2>1 DEF Resume, Awake, Asleep
      <3>2. Cardinality(Awake') = Cardinality(Awake) - 1
        BY <1>1, <3>1, FS_RemoveElement
      <3>. QED
        BY <1>1, <1>2, <1>5, <2>1, <3>1, <3>2
    <2>. QED
      BY <1>6, <1>11, <2>1 DEF Resume
  <1>12. ASSUME NEW c \in Consumers, TimeOut(c) \/ WakeSpuriously(c)
         PROVE  Len(queue') <= Cardinality(Awake')
    <2>1. Awake' = Awake \union {c} /\ c \notin Awake /\ c \in Asleep /\ queue' = queue
      BY <1>12 DEF TimeOut, WakeSpuriously, Rouse, Awake, Asleep
    <2>2. Cardinality(Awake') = Cardinality(Awake) + 1
      BY <1>1, <2>1, FS_AddElement
    <2>. QED
      BY <1>1, <1>2, <2>1, <2>2
  <1>13. CASE UNCHANGED vars \/ \E c \in Consumers : Expire(c)
    BY <1>1, <1>4, <1>13 DEF vars, Expire
  <1>. QED
    BY <1>7, <1>8, <1>9, <1>10, <1>11, <1>12, <1>13 DEF Next, WaitAndPop

LEMMA NotifiedInit == Init => NobodySleepsOverAnEvent
  BY DEF Init, NobodySleepsOverAnEvent, Asleep

\* The queue by itself, whatever its users do with the events.
THEOREM QueueInvariance ==
  Spec => [](TypeOK /\ DeliveredOnceInOrder /\ NobodySleepsOverAnEvent)
  <1>1. QueueInv => TypeOK /\ DeliveredOnceInOrder
    BY DeliveryIsOrder DEF QueueInv
  <1>. QED
    BY <1>1, QueueInit, QueueStep, NotifiedInit, NotifiedStep, PTL DEF Spec

-----------------------------------------------------------------------------
(* The queue, seen from the loop.                                          *)

\* A step of the loop is a step of the queue or leaves the queue alone.
LEMMA LoopStepOfQueue == [LoopNext]_loopVars => [Next]_vars
  BY DEF LoopNext, loopVars, Receive, Start, Proceed, Finish, ChangeQueue, ChangeHandlers, Next

LEMMA QueueOfLoop == LoopSpec => [](QueueInv /\ NobodySleepsOverAnEvent)
  <1>1. LoopInit => Init
    BY DEF LoopInit
  <1>. QED
    BY <1>1, LoopStepOfQueue, QueueInit, QueueStep, NotifiedInit, NotifiedStep, PTL
    DEF LoopSpec

\* Every variable of the queue keeps its type.
THEOREM TypeCorrect == LoopSpec => []TypeOK
  <1>1. QueueInv => TypeOK
    BY DEF QueueInv
  <1>. QED
    BY <1>1, QueueOfLoop, PTL

\* A thread sleeps in wait_and_pop() only while enough others are awake for all
\* events, whoever was notified: include/launch_cpp/event_queue.hpp.
THEOREM NobodySleepsOver == LoopSpec => []NobodySleepsOverAnEvent
  BY QueueOfLoop, PTL

\* Every event goes to one thread at most, once, and none overtakes another.
THEOREM DeliveredInOrder == LoopSpec => []DeliveredOnceInOrder
  <1>1. QueueInv => DeliveredOnceInOrder
    BY DeliveryIsOrder DEF QueueInv
  <1>. QED
    BY <1>1, QueueOfLoop, PTL

-----------------------------------------------------------------------------
(* The list of handlers.                                                   *)

\* Erasing a handler leaves a list.
LEMMA RemoveFirstType ==
  ASSUME NEW S, NEW s \in Seq(S), NEW e
  PROVE  RemoveFirst(s, e) \in Seq(S)
  <1> DEFINE I == {i \in 1 .. Len(s) : s[i] = e}
  <1>1. CASE I = {}
    BY <1>1 DEF RemoveFirst
  <1>2. CASE I # {}
    <2>1. Min(I) \in 1 .. Len(s)
      <3>1. I \in SUBSET Nat
        OBVIOUS
      <3>. QED
        BY <1>2, <3>1, SmallestExists
    <2>2. RemoveFirst(s, e) = SubSeq(s, 1, Min(I) - 1) \o SubSeq(s, Min(I) + 1, Len(s))
      BY <1>2, Zenon DEF RemoveFirst, RemoveAt, SelectInSeq
    <2> HIDE DEF I
    <2>3. /\ SubSeq(s, 1, Min(I) - 1) \in Seq(S)
          /\ SubSeq(s, Min(I) + 1, Len(s)) \in Seq(S)
      BY <2>1
    <2>. QED
      BY <2>2, <2>3
  <1>. QED
    BY <1>1, <1>2

-----------------------------------------------------------------------------
(* The inductive invariant of the dispatcher.                              *)

\* dispatch() holds the mutex from its first step to its last, and meanwhile the
\* list is the one it began with.
CallRecord == [at : Nat, handler : Handlers \union {NoHandler}]
Holding ==
  /\ stage \in [Consumers -> Stages]
  /\ handlers \in Seq(Handlers \union {NoHandler})
  /\ holder \in Consumers \union {Nobody}
  /\ turn \in Nat /\ turn > 0
  /\ called \in Seq(CallRecord)
  /\ holder = Nobody => inside = NoHandler
  /\ holder # Nobody => handlers = present /\ stage[holder] = "dispatching"
  /\ inside # NoHandler => turn <= Len(handlers) /\ inside = handlers[turn]

Passed == IF inside = NoHandler THEN turn - 1 ELSE turn
Matching(c) == {i \in 1 .. Passed : Accepts(present[i], KindOf(c))}
CallsDue(c) == {[at |-> i, handler |-> present[i]] : i \in Matching(c)}
InOrder(s) == \A i, j \in DOMAIN s : i < j => s[i].at < s[j].at

\* The calls made so far are those due so far.
Calls ==
  \A c \in Consumers : holder = c => ToSet(called) = CallsDue(c) /\ InOrder(called)

DispatchInv == Holding /\ Calls

LEMMA DispatchInit == LoopInit => DispatchInv
  BY EventLoopAssumption
  DEF LoopInit, DispatcherInit, DispatchInv, Holding, Calls, Stages

\* While nobody dispatches, nothing is due.
LEMMA UnlockedIsFine ==
  ASSUME Holding, holder = Nobody
  PROVE  Calls
  BY EventLoopAssumption DEF Calls, Holding

\* Threads that take events and change the queue do not disturb a dispatch.
LEMMA OutsideStep ==
  ASSUME DispatchInv, UNCHANGED dispatcherVars, stage' \in [Consumers -> Stages],
         \A c \in Consumers :
           stage[c] = "dispatching" => stage'[c] = stage[c] /\ received'[c] = received[c]
  PROVE  DispatchInv'
  <1> USE DEF DispatchInv, dispatcherVars, dispatchVars
  <1>1. Holding'
    BY DEF Holding
  <1>2. ASSUME NEW c \in Consumers, holder = c PROVE CallsDue(c)' = CallsDue(c)
    <2>1. KindOf(c)' = KindOf(c)
      BY <1>2, EventLoopAssumption DEF Holding, KindOf
    <2>. QED
      BY <2>1 DEF CallsDue, Matching, Passed
  <1>3. Calls'
    BY <1>2 DEF Calls, InOrder
  <1>. QED
    BY <1>1, <1>3

LEMMA ReceiveStep ==
  ASSUME DispatchInv, TypeOK, NEW c \in Consumers, Receive(c)
  PROVE  DispatchInv'
  <1>1. stage[c] = "receiving" /\ UNCHANGED dispatcherVars
        /\ (stage' = stage \/ stage' = [stage EXCEPT ![c] = "holding"])
    BY DEF Receive, Goto
  <1>2. \A d \in Consumers : d # c => received'[d] = received[d]
    BY DEF Receive, TryPop, WaitAndPop, Wait, Resume, Take, TypeOK
  <1>. QED
    BY <1>1, <1>2, OutsideStep DEF DispatchInv, Holding, Stages

LEMMA ChangeStep ==
  ASSUME DispatchInv, ChangeQueue \/ ChangeHandlers
  PROVE  DispatchInv'
  <1>1. CASE ChangeQueue
    BY <1>1, OutsideStep
    DEF ChangeQueue, Push, Clear, Expire, TimeOut, WakeSpuriously, DispatchInv, Holding
  <1>2. CASE ChangeHandlers
    <2> USE DEF DispatchInv
    <2>1. UNCHANGED <<dispatchVars, stage>> /\ holder = Nobody
      BY <1>2 DEF ChangeHandlers, RegisterHandler, UnregisterHandler, ClearHandlers, Unlocked
    <2>2. handlers' \in Seq(Handlers \union {NoHandler})
      <3>1. handlers \in Seq(Handlers \union {NoHandler})
        BY DEF Holding
      <3>2. ASSUME NEW h \in Handlers \union {NoHandler}, RegisterHandler(h) PROVE handlers' \in Seq(Handlers \union {NoHandler})
        BY <3>1, <3>2 DEF RegisterHandler
      <3>3. ASSUME NEW h \in Handlers, UnregisterHandler(h) PROVE handlers' \in Seq(Handlers \union {NoHandler})
        BY <3>1, <3>3, RemoveFirstType DEF UnregisterHandler
      <3>4. CASE ClearHandlers
        BY <3>4 DEF ClearHandlers
      <3>. QED
        BY <1>2, <3>2, <3>3, <3>4 DEF ChangeHandlers
    <2>3. Holding'
      BY <2>1, <2>2 DEF Holding, dispatchVars
    <2>4. Calls'
      BY <2>1, EventLoopAssumption DEF Calls, dispatchVars
    <2>. QED
      BY <2>3, <2>4
  <1>. QED
    BY <1>1, <1>2

LEMMA StartStep == ASSUME DispatchInv, NEW c \in Consumers, Start(c) PROVE DispatchInv'
  <1> USE DEF DispatchInv, Start, BeginDispatch, Unlocked, Goto
  <1>1. Holding'
    BY EventLoopAssumption DEF Holding, Stages
  <1>2. Passed' = 0 /\ holder' = c /\ called' = <<>>
    BY DEF Passed, Holding
  <1>3. CallsDue(c)' = {}
    BY <1>2 DEF CallsDue, Matching
  <1>4. Calls'
    BY <1>2, <1>3 DEF Calls, ToSet, InOrder
  <1>. QED
    BY <1>1, <1>4

LEMMA FinishStep == ASSUME DispatchInv, NEW c \in Consumers, Finish(c) PROVE DispatchInv'
  <1> USE DEF DispatchInv, Finish, HandlerFails, EndDispatch, Unlock, Goto
  <1>1. Holding'
    <2>1. stage' \in [Consumers -> Stages] /\ handlers' \in Seq(Handlers \union {NoHandler})
      BY DEF Holding, Stages
    <2>2. holder' = Nobody /\ turn' = 1 /\ called' = <<>> /\ inside' = NoHandler
      OBVIOUS
    <2>3. turn' \in Nat /\ turn' > 0 /\ called' \in Seq(CallRecord)
      BY <2>2
    <2>. QED
      BY <2>1, <2>2, <2>3, Zenon DEF Holding
  <1>2. Calls'
    BY EventLoopAssumption DEF Calls
  <1>. QED
    BY <1>1, <1>2

\* One element of the list further, or into the call of its handler.
LEMMA ProceedStep == ASSUME DispatchInv, NEW c \in Consumers, Proceed(c) PROVE DispatchInv'
  <1> USE DEF DispatchInv, Proceed
  <1>1. /\ holder = c /\ holder' = c /\ handlers = present /\ Len(handlers) \in Nat
        /\ UNCHANGED <<stage, handlers, present, received>>
    BY EventLoopAssumption
    DEF PassHandler, CallHandler, HandlerSucceeds, AtHandler, Holding, vars
  <1>2. KindOf(c)' = KindOf(c) /\ ToSet(called) = CallsDue(c) /\ InOrder(called)
    BY <1>1 DEF KindOf, Calls
  <1>3. CASE PassHandler(c, KindOf(c))
    <2>1. Holding'
      BY <1>1, <1>3 DEF Holding, PassHandler, AtHandler
    <2>2. Passed = turn - 1 /\ Passed' = turn /\ turn \in Nat /\ called' = called
      BY <1>3 DEF Passed, PassHandler, AtHandler, Holding
    <2>3. Matching(c)' = Matching(c)
      BY <1>1, <1>2, <1>3, <2>2 DEF Matching, PassHandler
    <2>4. Calls'
      BY <1>1, <1>2, <2>2, <2>3 DEF Calls, CallsDue
    <2>. QED
      BY <2>1, <2>4
  <1>4. CASE CallHandler(c, KindOf(c))
    <2> DEFINE call == [at |-> turn, handler |-> handlers[turn]]
    <2>1. /\ turn \in Nat /\ turn > 0 /\ turn <= Len(handlers) /\ turn' = turn
          /\ inside = NoHandler /\ inside' = handlers[turn] /\ called' = Append(called, call)
          /\ handlers[turn] \in Handlers \union {NoHandler}
          /\ Accepts(handlers[turn], KindOf(c)) /\ handlers[turn] # NoHandler
      BY <1>4 DEF CallHandler, AtHandler, Holding, Accepts
    <2>2. call \in CallRecord /\ called \in Seq(CallRecord)
      BY <2>1 DEF CallRecord, Holding
    <2>3. called' \in Seq(CallRecord) /\ ToSet(called') = ToSet(called) \union {call}
      BY <2>1, <2>2, PushFacts
    <2>4. Holding'
      <3>1. /\ stage' \in [Consumers -> Stages]
            /\ handlers' \in Seq(Handlers \union {NoHandler})
            /\ holder' \in Consumers
        BY <1>1 DEF Holding
      <3>2. /\ turn' \in Nat /\ turn' > 0
            /\ turn' <= Len(handlers') /\ inside' = handlers'[turn']
        BY <1>1, <2>1
      <3>3. handlers' = present' /\ stage'[holder'] = "dispatching" /\ holder' # Nobody
        BY <1>1, EventLoopAssumption
      <3>. QED
        BY <2>3, <3>1, <3>2, <3>3, Zenon DEF Holding
    <2>5. Passed = turn - 1 /\ Passed' = turn
      BY <2>1 DEF Passed
    <2>6. Matching(c)' = Matching(c) \union {turn}
      BY <1>1, <1>2, <2>1, <2>5 DEF Matching
    <2>7. CallsDue(c)' = CallsDue(c) \union {call}
      BY <1>1, <2>6 DEF CallsDue
    <2>8. InOrder(called')
      <3>1. \A r \in ToSet(called) : r.at < turn
        BY <1>2, <2>1, <2>5 DEF CallsDue, Matching
      <3>2. \A i \in DOMAIN called : called[i].at < turn
        BY <3>1 DEF ToSet
      <3>3. /\ DOMAIN called = 1 .. Len(called) /\ Len(called) \in Nat
            /\ DOMAIN called' = 1 .. Len(called) + 1
            /\ \A i \in DOMAIN called : called'[i] = called[i]
            /\ called'[Len(called) + 1].at = turn
        BY <2>1 DEF Holding
      <3>. QED
        BY <1>2, <3>2, <3>3 DEF InOrder
    <2>9. Calls'
      BY <1>1, <1>2, <2>3, <2>7, <2>8 DEF Calls
    <2>. QED
      BY <2>4, <2>9
  <1>5. CASE HandlerSucceeds(c)
    <2>1. Holding'
      BY <1>1, <1>5 DEF Holding, HandlerSucceeds
    <2>2. Passed' = Passed /\ called' = called
      BY <1>5 DEF Passed, HandlerSucceeds, Holding
    <2>3. Calls'
      BY <1>1, <1>2, <2>2 DEF Calls, CallsDue, Matching
    <2>. QED
      BY <2>1, <2>3
  <1>. QED
    BY <1>3, <1>4, <1>5

LEMMA DispatchStep == TypeOK /\ DispatchInv /\ [LoopNext]_loopVars => DispatchInv'
  <1> SUFFICES ASSUME TypeOK, DispatchInv, [LoopNext]_loopVars PROVE DispatchInv'
    OBVIOUS
  <1>1. CASE UNCHANGED loopVars
    BY <1>1, OutsideStep DEF loopVars, vars, DispatchInv, Holding
  <1>. QED
    BY <1>1, ReceiveStep, StartStep, ProceedStep, FinishStep, ChangeStep DEF LoopNext

\* A dispatch calls the handlers registered when it took the mutex that match, each
\* as often as registered, in that order, and no other thread has unregistered one
\* while it is being called: include/launch_cpp/event_dispatcher.hpp, dispatch().
THEOREM CallsAsRegistered == LoopSpec => []CalledAsRegistered
  <1>1. DispatchInv => CalledAsRegistered
    <2> SUFFICES ASSUME DispatchInv, NEW c \in Consumers, holder = c
                 PROVE  /\ ToSet(called) = {[at |-> i, handler |-> present[i]] : i \in Matching(c)}
                        /\ InOrder(called)
                        /\ inside # NoHandler => inside \in ToSet(handlers)
      BY Zenon DEF CalledAsRegistered, Matching, Passed, InOrder
    <2>1. inside # NoHandler => inside \in ToSet(handlers)
      BY DEF DispatchInv, Holding, ToSet
    <2>. QED
      BY <2>1 DEF DispatchInv, Calls, CallsDue
  <1>2. QueueInv => TypeOK
    BY DEF QueueInv
  <1>. QED
    BY <1>1, <1>2, QueueOfLoop, DispatchInit, DispatchStep, PTL DEF LoopSpec

=============================================================================
