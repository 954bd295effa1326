----------------------------- MODULE QueueFacts -----------------------------
(* Facts about numbers and about a sequence used as a FIFO queue, cited by  *)
(* the proof modules.                                                       *)
EXTENDS Sequences, SequencesExt, WellFoundedInduction, TLAPS

\* A set of numbers has a smallest.
LEMMA SmallestExists ==
  ASSUME NEW S \in SUBSET Nat, S # {}
  PROVE  Min(S) \in S /\ \A y \in S : Min(S) <= y
  <1> DEFINE R == {p \in Nat \X Nat : p[1] < p[2]}
  <1>1. IsWellFoundedOn(R, Nat)
    BY NatLessThanWellFounded, Zenon DEF OpToRel
  <1>2. PICK x \in S : \A y \in S : <<y, x>> \notin R
    <2> HIDE DEF R
    <2>. QED
      BY <1>1, WFMin
  <1>3. ASSUME NEW y \in S PROVE x <= y
    <2>1. x \in Nat /\ y \in Nat /\ <<y, x>> \notin R
      BY <1>2
    <2>. QED
      BY <2>1
  <1>. QED
    BY <1>3, Zenon DEF Min

\* What holds of 0 and of each number's successor holds up to n.
LEMMA Reaches ==
  ASSUME NEW n \in Nat, NEW S, 0 \in S, \A i \in 0 .. n - 1 : i \in S => i + 1 \in S
  PROVE  \A i \in 0 .. n : i \in S
  <1> SUFFICES ASSUME NEW Out \in SUBSET Nat, Out = {i \in 0 .. n : i \notin S}, Out # {}
               PROVE  FALSE
    <2>1. {i \in 0 .. n : i \notin S} \in SUBSET Nat
      OBVIOUS
    <2>. QED
      BY <2>1
  <1>2. Min(Out) \in Out /\ \A i \in Out : Min(Out) <= i
    BY SmallestExists
  <1> DEFINE m == Min(Out)
  <1>4. m \in 0 .. n /\ m \notin S /\ m # 0
    BY <1>2
  <1>5. m - 1 \in 0 .. n - 1 /\ (m - 1) + 1 = m /\ ~(m <= m - 1)
    BY <1>4
  <1>6. m - 1 \in S
    BY <1>2, <1>5
  <1>. QED
    BY <1>4, <1>5, <1>6

\* What is in a queue is of its type.
LEMMA ElementFacts ==
  ASSUME NEW S, NEW s \in Seq(S)
  PROVE  ToSet(s) \subseteq S
  BY DEF ToSet

\* What an element that is appended leaves where it was.
LEMMA AppendFacts ==
  ASSUME NEW S, NEW s \in Seq(S), NEW e \in S
  PROVE  /\ Append(s, e) \in Seq(S) /\ Len(s) \in Nat /\ Len(Append(s, e)) = Len(s) + 1
         /\ DOMAIN Append(s, e) = 1 .. Len(s) + 1
         /\ Append(s, e)[Len(s) + 1] = e
         /\ \A i \in 1 .. Len(s) : Append(s, e)[i] = s[i]
  OBVIOUS

\* push() adds exactly the new element, and no duplicate unless it was there.
LEMMA PushFacts ==
  ASSUME NEW S, NEW s \in Seq(S), NEW e \in S
  PROVE  /\ Append(s, e) \in Seq(S)
         /\ ToSet(Append(s, e)) = ToSet(s) \union {e}
         /\ IsInjective(s) /\ e \notin ToSet(s) => IsInjective(Append(s, e))
  <1>1. Len(Append(s, e)) = Len(s) + 1 /\ Append(s, e)[Len(s) + 1] = e
    OBVIOUS
  <1>2. \A i \in 1 .. Len(s) : Append(s, e)[i] = s[i]
    OBVIOUS
  <1>3. DOMAIN Append(s, e) = DOMAIN s \union {Len(s) + 1}
    BY <1>1
  <1>. QED
    BY <1>1, <1>2, <1>3 DEF ToSet, IsInjective

\* front() and pop() take away exactly the oldest element.
LEMMA PopFacts ==
  ASSUME NEW S, NEW s \in Seq(S), s # <<>>
  PROVE  /\ Head(s) \in S /\ Tail(s) \in Seq(S) /\ Len(s) \in Nat
         /\ Len(Tail(s)) = Len(s) - 1
         /\ ToSet(s) = {Head(s)} \union ToSet(Tail(s))
         /\ IsInjective(s) => IsInjective(Tail(s)) /\ Head(s) \notin ToSet(Tail(s))
  <1>1. /\ Len(s) \in Nat /\ Len(s) > 0 /\ Head(s) = s[1]
        /\ Tail(s) \in Seq(S) /\ Len(Tail(s)) = Len(s) - 1
    OBVIOUS
  <1>2. \A i \in 1 .. Len(Tail(s)) : Tail(s)[i] = s[i + 1]
    OBVIOUS
  <1>3. DOMAIN s = 1 .. Len(s) /\ DOMAIN Tail(s) = 1 .. Len(Tail(s))
    BY <1>1
  <1>4. ToSet(s) \subseteq {Head(s)} \union ToSet(Tail(s))
    <2> SUFFICES ASSUME NEW i \in DOMAIN s, i # 1
                 PROVE  s[i] \in ToSet(Tail(s))
      BY <1>1, <1>3 DEF ToSet
    <2>1. i - 1 \in 1 .. Len(Tail(s)) /\ Tail(s)[i - 1] = s[i]
      BY <1>1, <1>2, <1>3
    <2>. QED
      BY <2>1, <1>3 DEF ToSet
  <1>5. {Head(s)} \union ToSet(Tail(s)) \subseteq ToSet(s)
    BY <1>1, <1>2, <1>3 DEF ToSet
  <1>6. ASSUME IsInjective(s)
        PROVE  IsInjective(Tail(s)) /\ Head(s) \notin ToSet(Tail(s))
    <2>1. IsInjective(Tail(s))
      BY <1>1, <1>2, <1>3, <1>6 DEF IsInjective
    <2>2. \A i \in DOMAIN Tail(s) : Tail(s)[i] # Head(s)
      BY <1>1, <1>2, <1>3, <1>6 DEF IsInjective
    <2>. QED
      BY <2>1, <2>2 DEF ToSet
  <1>. QED
    BY <1>1, <1>4, <1>5, <1>6

=============================================================================
