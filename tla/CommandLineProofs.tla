--------------------------- MODULE CommandLineProofs ---------------------------
(***************************************************************************)
(* A launch file comes through the parser, the builder and the launch as   *)
(* its author means it.  That each recursive function of the models exists *)
(* is proved first, by giving it line by line (or step by step) from the   *)
(* end where it stops.  Then a text is taken apart: where a line, a list,  *)
(* a field, an entity occurs in it, the parser reads that part as meant    *)
(* and goes on behind it.                                                  *)
(***************************************************************************)
EXTENDS CommandLine, QueueFacts, TLAPS

-----------------------------------------------------------------------------
(* The recursive function of the parser exists: each function reads        *)
(* further down in the text only.                                          *)

\* What a function is to do when P is what the others do.
Turn(P, t, c) ==
  CASE c[1] = "array" -> ParseArray(P, t, c[2], c[3])
    [] c[1] = "fields" -> Fields(P, t, c[2], c[3])
    [] c[1] = "object" -> ParseObject(P, t, c[2], c[3])

\* Below line h, P and Q are the same and leave the stream where there are lines,
\* or at the end.
Later(P, Q, t, h) ==
  \A c \in Calls(t) : c[2] > h => P[c] = Q[c] /\ P[c].next \in c[2] .. Len(t) + 1

\* A line and an indentation name a call of each function.
LEMMA CallsAre ==
  ASSUME NEW t \in Seq(Lines), NEW i \in 1 .. Len(t) + 1, NEW base \in Nat,
         NEW name \in {"array", "fields", "object"}
  PROVE  <<name, i, base>> \in Calls(t)
  BY DEF Calls

\* The line of a text.
LEMMA LineIs ==
  ASSUME NEW t \in Seq(Lines), NEW i \in 1 .. Len(t)
  PROVE  /\ t[i] \in Lines /\ t[i].blank \in BOOLEAN /\ t[i].indent \in Nat /\ t[i].dash \in BOOLEAN
         /\ t[i].key \in Names /\ t[i].rest \in Rests \union {Nothing}
  <1>1. t[i] \in Lines
    OBVIOUS
  <1>. QED
    BY <1>1 DEF Lines

\* The first line that is not blank is there, or there is none up to the end.
LEMMA FirstLineIs ==
  ASSUME NEW t \in Seq(Lines), NEW i \in 1 .. Len(t) + 1
  PROVE  /\ FirstLine(t, i) \in i .. Len(t) + 1
         /\ FirstLine(t, i) <= Len(t) => ~t[FirstLine(t, i)].blank
         /\ \A j \in i .. FirstLine(t, i) - 1 : t[j].blank
  <1> DEFINE S == {j \in i .. Len(t) : ~t[j].blank} \union {Len(t) + 1}
  <1>1. Len(t) \in Nat
    OBVIOUS
  <1>2. S \in SUBSET Nat /\ S # {}
    BY <1>1
  <1>3. Min(S) \in S /\ \A y \in S : Min(S) <= y
    <2> HIDE DEF S
    <2>. QED
      BY <1>2, SmallestExists
  <1>4. FirstLine(t, i) = Min(S)
    BY DEF FirstLine
  <1>5. ASSUME NEW j \in i .. Min(S) - 1 PROVE t[j].blank
    <2>1. j \in i .. Len(t) /\ j \notin S
      <3>1. Min(S) \in Nat /\ Min(S) <= Len(t) + 1
        BY <1>1, <1>2, <1>3
      <3>2. j \in Nat /\ ~(Min(S) <= j)
        BY <3>1
      <3> HIDE DEF S
      <3>. QED
        BY <1>1, <1>3, <3>1, <3>2
    <2>. QED
      BY <2>1
  <1>. QED
    BY <1>1, <1>3, <1>4, <1>5

\* What it says of one call further down.
LEMMA LaterAt ==
  ASSUME NEW t \in Seq(Lines), NEW P, NEW Q, NEW h \in Nat, Later(P, Q, t, h),
         NEW i \in 1 .. Len(t) + 1, i > h, NEW base \in Nat,
         NEW name \in {"array", "fields", "object"}
  PROVE  P[<<name, i, base>>] = Q[<<name, i, base>>] /\ P[<<name, i, base>>].next \in i .. Len(t) + 1
  <1>1. <<name, i, base>> \in Calls(t)
    BY CallsAre
  <1>. QED
    BY <1>1, Zenon DEF Later

\* What a function returns.
LEMMA AtIs ==
  ASSUME NEW v, NEW i
  PROVE  At(v, i).value = v /\ At(v, i).next = i
  BY DEF At

\* parse_value() never goes back in the stream.
LEMMA ParseValueMoves ==
  ASSUME NEW t \in Seq(Lines), NEW i \in 1 .. Len(t) + 1
  PROVE  ParseValue(t, i).next \in i .. Len(t) + 1
  <1>1. Len(t) \in Nat
    OBVIOUS
  <1>2. FirstLine(t, i) \in i .. Len(t) + 1
    BY FirstLineIs
  <1>. QED
    BY <1>1, <1>2, AtIs DEF ParseValue

\* A value behind a key depends on the calls further down alone, and its reading
\* never goes back.
LEMMA AfterKeyReads ==
  ASSUME NEW t \in Seq(Lines), NEW P, NEW Q, NEW h \in Nat, Later(P, Q, t, h),
         NEW i \in 1 .. Len(t) + 1, i > h, NEW above \in Nat
  PROVE  /\ AfterKey(P, t, i, above) = AfterKey(Q, t, i, above)
         /\ AfterKey(P, t, i, above).next \in i .. Len(t) + 1
  <1>1. Len(t) \in Nat
    OBVIOUS
  <1>2. CASE i > Len(t)
    <2>1. AfterKey(P, t, i, above) = At(Null, i) /\ AfterKey(Q, t, i, above) = At(Null, i)
      BY <1>2 DEF AfterKey
    <2>. QED
      BY <1>1, <2>1, AtIs
  <1>3. CASE i <= Len(t) /\ ~t[i].blank /\ t[i].dash /\ t[i].indent > above
    <2>1. t[i].indent \in Nat
      BY <1>1, <1>3, LineIs
    <2>2. /\ P[<<"array", i, t[i].indent>>] = Q[<<"array", i, t[i].indent>>]
          /\ P[<<"array", i, t[i].indent>>].next \in i .. Len(t) + 1
      BY <2>1, LaterAt
    <2>3. /\ AfterKey(P, t, i, above) = ArrayAt(P, i, t[i].indent)
          /\ AfterKey(Q, t, i, above) = ArrayAt(Q, i, t[i].indent)
      BY <1>1, <1>3 DEF AfterKey
    <2>. QED
      BY <2>2, <2>3, AtIs DEF ArrayAt
  <1>4. CASE i <= Len(t) /\ ~(~t[i].blank /\ t[i].dash /\ t[i].indent > above)
    <2>1. /\ AfterKey(P, t, i, above) = ParseValue(t, i)
          /\ AfterKey(Q, t, i, above) = ParseValue(t, i)
      BY <1>1, <1>4 DEF AfterKey
    <2>. QED
      BY <2>1, ParseValueMoves
  <1>. QED
    BY <1>1, <1>2, <1>3, <1>4

\* The same of the value of a key, which takes a line at least,
LEMMA FieldValueReads ==
  ASSUME NEW t \in Seq(Lines), NEW P, NEW Q, NEW i \in 1 .. Len(t), Later(P, Q, t, i),
         NEW above \in Nat
  PROVE  /\ FieldValue(P, t, i, above) = FieldValue(Q, t, i, above)
         /\ FieldValue(P, t, i, above).next \in i + 1 .. Len(t) + 1
  <1>1. Len(t) \in Nat /\ i \in Nat /\ i + 1 \in 1 .. Len(t) + 1 /\ i + 1 > i
    OBVIOUS
  <1>2. CASE t[i].rest = Nothing
    <2>1. /\ FieldValue(P, t, i, above) = AfterKey(P, t, i + 1, above)
          /\ FieldValue(Q, t, i, above) = AfterKey(Q, t, i + 1, above)
      BY <1>2 DEF FieldValue
    <2>. QED
      BY <1>1, <2>1, AfterKeyReads
  <1>3. CASE t[i].rest # Nothing
    <2>1. /\ FieldValue(P, t, i, above) = At(ScalarOf(t[i].rest), i + 1)
          /\ FieldValue(Q, t, i, above) = At(ScalarOf(t[i].rest), i + 1)
      BY <1>3 DEF FieldValue
    <2>. QED
      BY <1>1, <2>1, AtIs
  <1>. QED
    BY <1>2, <1>3

\* of a field and those below it,
LEMMA FieldAndReads ==
  ASSUME NEW t \in Seq(Lines), NEW P, NEW Q, NEW i \in 1 .. Len(t), Later(P, Q, t, i),
         NEW base \in Nat, NEW above \in Nat
  PROVE  /\ FieldAnd(P, t, i, base, above) = FieldAnd(Q, t, i, base, above)
         /\ FieldAnd(P, t, i, base, above).next \in i + 1 .. Len(t) + 1
  <1>1. Len(t) \in Nat /\ i \in Nat
    OBVIOUS
  <1>2. PICK r : r = FieldValue(P, t, i, above)
    OBVIOUS
  <1>3. r = FieldValue(Q, t, i, above) /\ r.next \in i + 1 .. Len(t) + 1
    BY <1>2, FieldValueReads
  <1>4. r.next \in 1 .. Len(t) + 1 /\ r.next > i
    BY <1>1, <1>3
  <1>5. /\ P[<<"fields", r.next, base>>] = Q[<<"fields", r.next, base>>]
        /\ P[<<"fields", r.next, base>>].next \in r.next .. Len(t) + 1
    BY <1>1, <1>4, LaterAt
  <1>6. /\ FieldAnd(P, t, i, base, above) =
             At(With(P[<<"fields", r.next, base>>].value, t[i].key, r.value), P[<<"fields", r.next, base>>].next)
        /\ FieldAnd(Q, t, i, base, above) =
             At(With(Q[<<"fields", r.next, base>>].value, t[i].key, r.value), Q[<<"fields", r.next, base>>].next)
    BY <1>2, <1>3, Zenon DEF FieldAnd
  <1>7. P[<<"fields", r.next, base>>].next \in i + 1 .. Len(t) + 1
    BY <1>1, <1>3, <1>5
  <1>. QED
    BY <1>5, <1>6, <1>7, AtIs

\* and of an element and those below it.
LEMMA ElementAndReads ==
  ASSUME NEW t \in Seq(Lines), NEW P, NEW Q, NEW i \in 1 .. Len(t), Later(P, Q, t, i),
         NEW base \in Nat
  PROVE  /\ ElementAnd(P, t, i, base) = ElementAnd(Q, t, i, base)
         /\ ElementAnd(P, t, i, base).next \in i + 1 .. Len(t) + 1
  <1>1. Len(t) \in Nat /\ i \in Nat /\ i + 1 \in 1 .. Len(t) + 1
    OBVIOUS
  <1> DEFINE First(R) == IF t[i].key # NoKey THEN ElementObject(R, t, i, base)
                         ELSE IF t[i].rest = Nothing THEN ParseValue(t, i + 1)
                         ELSE At(ScalarOf(t[i].rest), i + 1)
  <1>2. First(P) = First(Q) /\ First(P).next \in i + 1 .. Len(t) + 1
    <2>1. CASE t[i].key # NoKey
      <3>1. /\ FieldAnd(P, t, i, base, base) = FieldAnd(Q, t, i, base, base)
            /\ FieldAnd(P, t, i, base, base).next \in i + 1 .. Len(t) + 1
        BY FieldAndReads
      <3>. QED
        BY <2>1, <3>1, AtIs DEF ElementObject
    <2>2. CASE t[i].key = NoKey /\ t[i].rest = Nothing
      BY <1>1, <2>2, ParseValueMoves
    <2>3. CASE t[i].key = NoKey /\ t[i].rest # Nothing
      BY <1>1, <2>3, AtIs
    <2>. QED
      BY <2>1, <2>2, <2>3
  <1>3. PICK r : r = First(P) /\ r = First(Q)
    BY <1>2
  <1>4. r.next \in i + 1 .. Len(t) + 1
    BY <1>2, <1>3
  <1>5. r.next \in 1 .. Len(t) + 1 /\ r.next > i
    BY <1>1, <1>4
  <1>6. /\ P[<<"array", r.next, base>>] = Q[<<"array", r.next, base>>]
        /\ P[<<"array", r.next, base>>].next \in r.next .. Len(t) + 1
    BY <1>1, <1>5, LaterAt
  <1>7. /\ ElementAnd(P, t, i, base) =
             At(<<r.value>> \o P[<<"array", r.next, base>>].value, P[<<"array", r.next, base>>].next)
        /\ ElementAnd(Q, t, i, base) =
             At(<<r.value>> \o Q[<<"array", r.next, base>>].value, Q[<<"array", r.next, base>>].next)
    BY <1>3, Zenon DEF ElementAnd
  <1>8. P[<<"array", r.next, base>>].next \in i + 1 .. Len(t) + 1
    BY <1>1, <1>4, <1>6
  <1>. QED
    BY <1>6, <1>7, <1>8, AtIs

\* parse_array() depends on the calls further down alone.
LEMMA ParseArrayReads ==
  ASSUME NEW t \in Seq(Lines), NEW P, NEW Q, NEW i \in 1 .. Len(t) + 1, Later(P, Q, t, i),
         NEW base \in Nat
  PROVE  /\ ParseArray(P, t, i, base) = ParseArray(Q, t, i, base)
         /\ ParseArray(P, t, i, base).next \in i .. Len(t) + 1
  <1>1. Len(t) \in Nat /\ i \in Nat
    OBVIOUS
  <1>2. CASE i > Len(t) \/ (~t[i].blank /\ t[i].indent < base)
    <2>1. ParseArray(P, t, i, base) = At(<<>>, i) /\ ParseArray(Q, t, i, base) = At(<<>>, i)
      BY <1>2 DEF ParseArray
    <2>. QED
      BY <1>1, <2>1, AtIs
  <1>3. CASE /\ ~(i > Len(t)) /\ ~(~t[i].blank /\ t[i].indent < base)
             /\ (t[i].blank \/ ~t[i].dash)
    <2>1. i + 1 \in 1 .. Len(t) + 1 /\ i + 1 > i
      BY <1>1, <1>3
    <2>2. /\ P[<<"array", i + 1, base>>] = Q[<<"array", i + 1, base>>]
          /\ P[<<"array", i + 1, base>>].next \in i + 1 .. Len(t) + 1
      BY <1>1, <2>1, LaterAt
    <2>3. P[<<"array", i + 1, base>>].next \in i .. Len(t) + 1
      BY <1>1, <2>2
    <2>4. /\ ParseArray(P, t, i, base) = P[<<"array", i + 1, base>>]
          /\ ParseArray(Q, t, i, base) = Q[<<"array", i + 1, base>>]
      BY <1>3, Zenon DEF ParseArray
    <2>. QED
      BY <2>2, <2>3, <2>4
  <1>4. CASE /\ ~(i > Len(t)) /\ ~(~t[i].blank /\ t[i].indent < base)
             /\ ~(t[i].blank \/ ~t[i].dash)
    <2>1. i \in 1 .. Len(t)
      BY <1>1, <1>4
    <2>2. /\ ParseArray(P, t, i, base) = ElementAnd(P, t, i, base)
          /\ ParseArray(Q, t, i, base) = ElementAnd(Q, t, i, base)
      BY <1>4, Zenon DEF ParseArray
    <2>3. /\ ElementAnd(P, t, i, base) = ElementAnd(Q, t, i, base)
          /\ ElementAnd(P, t, i, base).next \in i + 1 .. Len(t) + 1
      BY <2>1, ElementAndReads
    <2>4. ElementAnd(P, t, i, base).next \in i .. Len(t) + 1
      BY <1>1, <2>3
    <2>. QED
      BY <2>2, <2>3, <2>4
  <1>. QED
    BY <1>2, <1>3, <1>4, Zenon

\* So do the fields of an element,
LEMMA FieldsReads ==
  ASSUME NEW t \in Seq(Lines), NEW P, NEW Q, NEW i \in 1 .. Len(t) + 1, Later(P, Q, t, i),
         NEW base \in Nat
  PROVE  /\ Fields(P, t, i, base) = Fields(Q, t, i, base)
         /\ Fields(P, t, i, base).next \in i .. Len(t) + 1
  <1>1. Len(t) \in Nat /\ i \in Nat
    OBVIOUS
  <1>2. CASE i > Len(t) \/ (~t[i].blank /\ t[i].indent <= base)
    <2>1. Fields(P, t, i, base) = At(NoFields, i) /\ Fields(Q, t, i, base) = At(NoFields, i)
      BY <1>2, Zenon DEF Fields
    <2>. QED
      BY <1>1, <2>1, AtIs
  <1>3. CASE /\ ~(i > Len(t)) /\ ~(~t[i].blank /\ t[i].indent <= base)
             /\ (t[i].blank \/ (~t[i].dash /\ t[i].key = NoKey))
    <2>1. i + 1 \in 1 .. Len(t) + 1 /\ i + 1 > i
      BY <1>1, <1>3
    <2>2. /\ P[<<"fields", i + 1, base>>] = Q[<<"fields", i + 1, base>>]
          /\ P[<<"fields", i + 1, base>>].next \in i + 1 .. Len(t) + 1
      BY <1>1, <2>1, LaterAt
    <2>3. P[<<"fields", i + 1, base>>].next \in i .. Len(t) + 1
      BY <1>1, <2>2
    <2>4. /\ Fields(P, t, i, base) = P[<<"fields", i + 1, base>>]
          /\ Fields(Q, t, i, base) = Q[<<"fields", i + 1, base>>]
      BY <1>3, Zenon DEF Fields
    <2>. QED
      BY <2>2, <2>3, <2>4
  <1>4. CASE ~(i > Len(t)) /\ ~t[i].blank /\ ~(t[i].indent <= base) /\ t[i].dash
    <2>1. i \in 1 .. Len(t) /\ t[i].indent \in Nat
      BY <1>1, <1>4, LineIs
    <2>2. /\ Fields(P, t, i, base) = At(NoFields, ParseArray(P, t, i, t[i].indent).next)
          /\ Fields(Q, t, i, base) = At(NoFields, ParseArray(Q, t, i, t[i].indent).next)
      BY <1>4, Zenon DEF Fields
    <2>3. /\ ParseArray(P, t, i, t[i].indent) = ParseArray(Q, t, i, t[i].indent)
          /\ ParseArray(P, t, i, t[i].indent).next \in i .. Len(t) + 1
      BY <2>1, ParseArrayReads
    <2>. QED
      BY <2>2, <2>3, AtIs
  <1>5. CASE ~(i > Len(t)) /\ ~t[i].blank /\ ~(t[i].indent <= base) /\ ~t[i].dash /\ t[i].key # NoKey
    <2>1. i \in 1 .. Len(t) /\ t[i].indent \in Nat
      BY <1>1, <1>5, LineIs
    <2>2. /\ Fields(P, t, i, base) = FieldAnd(P, t, i, base, t[i].indent)
          /\ Fields(Q, t, i, base) = FieldAnd(Q, t, i, base, t[i].indent)
      BY <1>5, Zenon DEF Fields
    <2>3. /\ FieldAnd(P, t, i, base, t[i].indent) = FieldAnd(Q, t, i, base, t[i].indent)
          /\ FieldAnd(P, t, i, base, t[i].indent).next \in i + 1 .. Len(t) + 1
      BY <2>1, FieldAndReads
    <2>4. FieldAnd(P, t, i, base, t[i].indent).next \in i .. Len(t) + 1
      BY <1>1, <2>3
    <2>. QED
      BY <2>2, <2>3, <2>4
  <1>. QED
    BY <1>2, <1>3, <1>4, <1>5, Zenon

\* the value of a key that has nothing after its colon,
LEMMA NestedValueReads ==
  ASSUME NEW t \in Seq(Lines), NEW P, NEW Q, NEW h \in Nat, Later(P, Q, t, h),
         NEW i \in 1 .. Len(t) + 1, i > h, NEW above \in Nat
  PROVE  /\ NestedValue(P, t, i, above) = NestedValue(Q, t, i, above)
         /\ NestedValue(P, t, i, above).next \in i .. Len(t) + 1
  <1>1. Len(t) \in Nat /\ i \in Nat /\ i \in i .. Len(t) + 1
    OBVIOUS
  <1>2. PICK j \in i .. Len(t) + 1 : j = FirstLine(t, i)
    BY FirstLineIs
  <1>3. CASE j > Len(t) \/ t[j].indent <= above
    <2>1. PICK v, n : /\ NestedValue(P, t, i, above) = At(v, n) /\ NestedValue(Q, t, i, above) = At(v, n)
                      /\ n \in {i, j}
      BY <1>2, <1>3, Zenon DEF NestedValue
    <2>. QED
      BY <1>1, <1>2, <2>1, AtIs
  <1>4. CASE ~(j > Len(t)) /\ ~(t[j].indent <= above)
    <2>1. t[j].indent \in Nat
      <3>1. j \in 1 .. Len(t)
        BY <1>1, <1>2, <1>4
      <3>. QED
        BY <3>1, LineIs
    <2>2. /\ P[<<"array", i, t[j].indent>>] = Q[<<"array", i, t[j].indent>>]
          /\ P[<<"array", i, t[j].indent>>].next \in i .. Len(t) + 1
      BY <2>1, LaterAt
    <2>5. /\ P[<<"object", i, t[j].indent>>] = Q[<<"object", i, t[j].indent>>]
          /\ P[<<"object", i, t[j].indent>>].next \in i .. Len(t) + 1
      BY <2>1, LaterAt
    <2>3. CASE t[j].dash
      <3>1. /\ NestedValue(P, t, i, above) = ArrayAt(P, i, t[j].indent)
            /\ NestedValue(Q, t, i, above) = ArrayAt(Q, i, t[j].indent)
        BY <1>2, <1>4, <2>3, Zenon DEF NestedValue
      <3>. QED
        BY <2>2, <3>1, AtIs DEF ArrayAt
    <2>4. CASE ~t[j].dash
      <3>1. /\ NestedValue(P, t, i, above) = ObjectAt(P, i, t[j].indent)
            /\ NestedValue(Q, t, i, above) = ObjectAt(Q, i, t[j].indent)
        BY <1>2, <1>4, <2>4, Zenon DEF NestedValue
      <3>. QED
        BY <2>5, <3>1, AtIs DEF ObjectAt
    <2>. QED
      BY <2>3, <2>4
  <1>. QED
    BY <1>3, <1>4

\* and parse_object().
LEMMA ParseObjectReads ==
  ASSUME NEW t \in Seq(Lines), NEW P, NEW Q, NEW i \in 1 .. Len(t) + 1, Later(P, Q, t, i),
         NEW base \in Nat
  PROVE  /\ ParseObject(P, t, i, base) = ParseObject(Q, t, i, base)
         /\ ParseObject(P, t, i, base).next \in i .. Len(t) + 1
  <1>1. Len(t) \in Nat /\ i \in Nat
    OBVIOUS
  <1>2. CASE i > Len(t)
    <2>1. ParseObject(P, t, i, base) = At(NoFields, i) /\ ParseObject(Q, t, i, base) = At(NoFields, i)
      BY <1>2, Zenon DEF ParseObject
    <2>. QED
      BY <1>1, <2>1, AtIs
  <1>3. CASE ~(i > Len(t)) /\ ~t[i].blank /\ t[i].indent < base
    <2>1. /\ ParseObject(P, t, i, base) = At(NoFields, i + 1)
          /\ ParseObject(Q, t, i, base) = At(NoFields, i + 1)
      BY <1>3, Zenon DEF ParseObject
    <2>2. i + 1 \in i .. Len(t) + 1
      BY <1>1, <1>3
    <2>. QED
      BY <2>1, <2>2, AtIs
  <1>4. CASE /\ ~(i > Len(t)) /\ ~(~t[i].blank /\ t[i].indent < base)
             /\ (t[i].blank \/ t[i].key = NoKey)
    <2>1. i + 1 \in 1 .. Len(t) + 1 /\ i + 1 > i
      BY <1>1, <1>4
    <2>2. /\ P[<<"object", i + 1, base>>] = Q[<<"object", i + 1, base>>]
          /\ P[<<"object", i + 1, base>>].next \in i + 1 .. Len(t) + 1
      BY <1>1, <2>1, LaterAt
    <2>3. P[<<"object", i + 1, base>>].next \in i .. Len(t) + 1
      BY <1>1, <2>2
    <2>4. /\ ParseObject(P, t, i, base) = P[<<"object", i + 1, base>>]
          /\ ParseObject(Q, t, i, base) = Q[<<"object", i + 1, base>>]
      BY <1>4, Zenon DEF ParseObject
    <2>. QED
      BY <2>2, <2>3, <2>4
  <1>5. CASE /\ ~(i > Len(t)) /\ ~(~t[i].blank /\ t[i].indent < base)
             /\ ~(t[i].blank \/ t[i].key = NoKey)
    <2>1. i \in 1 .. Len(t) /\ i + 1 \in 1 .. Len(t) + 1 /\ i + 1 > i /\ t[i].indent \in Nat
      BY <1>1, <1>5, LineIs
    <2> DEFINE v(R) == IF t[i].rest = Nothing THEN NestedValue(R, t, i + 1, t[i].indent)
                       ELSE IF t[i].rest[1] = "list"
                       THEN At(Array([j \in DOMAIN t[i].rest[2] |-> Scalar(t[i].rest[2][j])]), i + 1)
                       ELSE At(ScalarOf(t[i].rest), i + 1)
               k == IF t[i].dash THEN "- " \o t[i].key ELSE t[i].key
    <2>2. v(P) = v(Q) /\ v(P).next \in i + 1 .. Len(t) + 1
      <3>1. CASE t[i].rest = Nothing
        <4>1. v(P) = NestedValue(P, t, i + 1, t[i].indent) /\ v(Q) = NestedValue(Q, t, i + 1, t[i].indent)
          BY <3>1
        <4> HIDE DEF v
        <4>. QED
          BY <1>1, <2>1, <4>1, NestedValueReads
      <3>2. CASE t[i].rest # Nothing
        <4>1. PICK w : v(P) = At(w, i + 1) /\ v(Q) = At(w, i + 1)
          BY <3>2, Zenon
        <4> HIDE DEF v
        <4>. QED
          BY <1>1, <2>1, <4>1, AtIs
      <3> HIDE DEF v
      <3>. QED
        BY <3>1, <3>2
    <2>3. PICK r : r = v(P) /\ r = v(Q)
      BY <2>2
    <2>4. r.next \in i + 1 .. Len(t) + 1
      BY <2>2, <2>3
    <2>5. /\ ParseObject(P, t, i, base) =
               At(With(P[<<"object", r.next, base>>].value, k, r.value), P[<<"object", r.next, base>>].next)
          /\ ParseObject(Q, t, i, base) =
               At(With(Q[<<"object", r.next, base>>].value, k, r.value), Q[<<"object", r.next, base>>].next)
      BY <1>5, <2>3, Zenon DEF ParseObject
    <2> HIDE DEF v, k
    <2>6. r.next \in 1 .. Len(t) + 1 /\ r.next > i
      BY <1>1, <2>4
    <2>7. /\ P[<<"object", r.next, base>>] = Q[<<"object", r.next, base>>]
          /\ P[<<"object", r.next, base>>].next \in r.next .. Len(t) + 1
      BY <1>1, <2>6, LaterAt
    <2>8. P[<<"object", r.next, base>>].next \in i .. Len(t) + 1
      BY <1>1, <2>6, <2>7
    <2>. QED
      BY <2>5, <2>7, <2>8, AtIs
  <1>. QED
    BY <1>2, <1>3, <1>4, <1>5, Zenon

\* Each of the functions depends on the calls further down alone, and none goes
\* back in the stream.
LEMMA TurnReads ==
  ASSUME NEW t \in Seq(Lines), NEW c \in Calls(t), NEW P, NEW Q, Later(P, Q, t, c[2])
  PROVE  Turn(P, t, c) = Turn(Q, t, c) /\ Turn(P, t, c).next \in c[2] .. Len(t) + 1
  <1>1. /\ c[1] \in {"array", "fields", "object"} /\ c[2] \in 1 .. Len(t) + 1 /\ c[3] \in Nat
    BY DEF Calls
  <1>2. CASE c[1] = "array"
    <2>1. Turn(P, t, c) = ParseArray(P, t, c[2], c[3]) /\ Turn(Q, t, c) = ParseArray(Q, t, c[2], c[3])
      BY <1>2 DEF Turn
    <2>. QED
      BY <1>1, <2>1, ParseArrayReads
  <1>3. CASE c[1] = "fields"
    <2>1. Turn(P, t, c) = Fields(P, t, c[2], c[3]) /\ Turn(Q, t, c) = Fields(Q, t, c[2], c[3])
      BY <1>3 DEF Turn
    <2>. QED
      BY <1>1, <2>1, FieldsReads
  <1>4. CASE c[1] = "object"
    <2>1. Turn(P, t, c) = ParseObject(P, t, c[2], c[3]) /\ Turn(Q, t, c) = ParseObject(Q, t, c[2], c[3])
      BY <1>4 DEF Turn
    <2>. QED
      BY <1>1, <2>1, ParseObjectReads
  <1>. QED
    BY <1>1, <1>2, <1>3, <1>4

\* P does what it is to do from below line h on.
Good(P, t, h) ==
  \A c \in Calls(t) : c[2] > h => P[c] = Turn(P, t, c) /\ P[c].next \in c[2] .. Len(t) + 1

\* Functions that are good for all lines below one can be made good for that line.
LEMMA OneLineMore ==
  ASSUME NEW t \in Seq(Lines), NEW i \in 1 .. Len(t) + 1, NEW P, Good(P, t, i)
  PROVE  \E Q : Q = [c \in Calls(t) |-> Q[c]] /\ Good(Q, t, i - 1)
  <1> DEFINE Q == [c \in Calls(t) |-> IF c[2] = i THEN Turn(P, t, c) ELSE P[c]]
  <1>1. Len(t) \in Nat /\ i \in Nat /\ \A c \in Calls(t) : c[2] \in Nat
    BY DEF Calls
  <1>2. \A c \in Calls(t) : Q[c] = IF c[2] = i THEN Turn(P, t, c) ELSE P[c]
    OBVIOUS
  <1>3. Q = [c \in Calls(t) |-> Q[c]]
    OBVIOUS
  <1> HIDE DEF Q
  <1>4. \A h \in Nat : h >= i => Later(P, Q, t, h)
    <2> SUFFICES ASSUME NEW h \in Nat, h >= i, NEW c \in Calls(t), c[2] > h
                 PROVE  P[c] = Q[c] /\ P[c].next \in c[2] .. Len(t) + 1
      BY DEF Later
    <2>1. c[2] # i /\ c[2] > i
      BY <1>1
    <2>. QED
      BY <1>2, <2>1 DEF Good
  <1>5. ASSUME NEW c \in Calls(t), c[2] > i - 1
        PROVE  Q[c] = Turn(Q, t, c) /\ Q[c].next \in c[2] .. Len(t) + 1
    <2>1. c[2] \in Nat /\ c[2] >= i
      BY <1>1, <1>5
    <2>2. Later(P, Q, t, c[2])
      BY <1>4, <2>1
    <2>3. Turn(P, t, c) = Turn(Q, t, c) /\ Turn(P, t, c).next \in c[2] .. Len(t) + 1
      BY <2>2, TurnReads
    <2>4. Q[c] = Turn(P, t, c)
      <3>1. CASE c[2] = i
        BY <1>2, <3>1
      <3>2. CASE c[2] # i
        <4>1. c[2] > i
          BY <1>1, <2>1, <3>2
        <4>. QED
          BY <1>2, <3>2, <4>1 DEF Good
      <3>. QED
        BY <3>1, <3>2
    <2>. QED
      BY <2>3, <2>4
  <1>. QED
    BY <1>3, <1>5 DEF Good

\* The parser does, for every call, what the functions of parse() say.
LEMMA ParserReads ==
  ASSUME NEW t \in Seq(Lines), NEW c \in Calls(t)
  PROVE  Parser(t)[c] = Turn(Parser(t), t, c)
  <1> DEFINE n == Len(t) + 1
             S == {k \in 0 .. n : \E P : P = [d \in Calls(t) |-> P[d]] /\ Good(P, t, n - k)}
             Eqn(P) == P = [d \in Calls(t) |-> Turn(P, t, d)]
  <1>1. n \in Nat /\ n = Len(t) + 1 /\ \A d \in Calls(t) : d[2] \in 1 .. n
    BY DEF Calls
  <1>2. 0 \in S
    <2> DEFINE P == [d \in Calls(t) |-> d]
    <2>1. P = [d \in Calls(t) |-> P[d]]
      OBVIOUS
    <2>2. Good(P, t, n - 0)
      <3>1. \A d \in Calls(t) : ~(d[2] > n - 0)
        BY <1>1
      <3>. QED
        BY <3>1 DEF Good
    <2>. QED
      BY <1>1, <2>1, <2>2
  <1>3. ASSUME NEW k \in 0 .. n - 1, k \in S PROVE k + 1 \in S
    <2>1. PICK P : Good(P, t, n - k)
      BY <1>3
    <2>2. n - k \in 1 .. Len(t) + 1 /\ (n - k) - 1 = n - (k + 1) /\ k + 1 \in 0 .. n
      BY <1>1
    <2>3. \E Q : Q = [d \in Calls(t) |-> Q[d]] /\ Good(Q, t, n - (k + 1))
      <3>1. \E Q : Q = [d \in Calls(t) |-> Q[d]] /\ Good(Q, t, (n - k) - 1)
        BY <2>1, <2>2, OneLineMore
      <3>. QED
        BY <2>2, <3>1
    <2>. QED
      BY <2>2, <2>3
  <1>4. n \in S
    <2> HIDE DEF S, n
    <2>1. \A k \in 0 .. n : k \in S
      BY <1>1, <1>2, <1>3, Reaches
    <2>. QED
      BY <1>1, <2>1
  <1>5. PICK P : P = [d \in Calls(t) |-> P[d]] /\ Good(P, t, 0)
    <2>1. n - n = 0
      BY <1>1
    <2>. QED
      BY <1>4, <2>1
  <1>6. Eqn(P)
    <2>1. \A d \in Calls(t) : d[2] > 0
      BY <1>1
    <2>2. \A d \in Calls(t) : P[d] = Turn(P, t, d)
      BY <1>5, <2>1 DEF Good
    <2>. QED
      BY <1>5, <2>2
  <1>7. Parser(t) = CHOOSE Q : Eqn(Q)
    BY Zenon DEF Parser, Turn
  <1>8. Eqn(Parser(t))
    <2> HIDE DEF Eqn
    <2>. QED
      BY <1>6, <1>7
  <1>. QED
    BY <1>8

\* What each of the three functions does.
LEMMA ParserCalls ==
  ASSUME NEW t \in Seq(Lines), NEW i \in 1 .. Len(t) + 1, NEW base \in Nat
  PROVE  /\ Parser(t)[<<"array", i, base>>] = ParseArray(Parser(t), t, i, base)
         /\ Parser(t)[<<"fields", i, base>>] = Fields(Parser(t), t, i, base)
         /\ Parser(t)[<<"object", i, base>>] = ParseObject(Parser(t), t, i, base)
  <1>1. /\ <<"array", i, base>> \in Calls(t) /\ <<"fields", i, base>> \in Calls(t)
        /\ <<"object", i, base>> \in Calls(t)
    BY DEF Calls
  <1>2. Parser(t)[<<"array", i, base>>] = ParseArray(Parser(t), t, i, base)
    <2>1. Parser(t)[<<"array", i, base>>] = Turn(Parser(t), t, <<"array", i, base>>)
      BY <1>1, ParserReads
    <2>. QED
      BY <2>1 DEF Turn
  <1>3. Parser(t)[<<"fields", i, base>>] = Fields(Parser(t), t, i, base)
    <2>1. Parser(t)[<<"fields", i, base>>] = Turn(Parser(t), t, <<"fields", i, base>>)
      BY <1>1, ParserReads
    <2>. QED
      BY <2>1 DEF Turn
  <1>4. Parser(t)[<<"object", i, base>>] = ParseObject(Parser(t), t, i, base)
    <2>1. Parser(t)[<<"object", i, base>>] = Turn(Parser(t), t, <<"object", i, base>>)
      BY <1>1, ParserReads
    <2>. QED
      BY <2>1 DEF Turn
  <1>. QED
    BY <1>2, <1>3, <1>4

-----------------------------------------------------------------------------
(* Texts within a text.                                                     *)

\* The i-th of n steps leads from e to D[i][e], which is in E; f is where they lead.
StayIn(E, D, n) == \A i \in 1 .. n : \A e \in E : D[i][e] \in E
Steps(f, D, n, s) == f[0] = s /\ \A i \in 1 .. n : f[i] = D[i][f[i - 1]]

\* The steps can be taken one after the other.
LEMMA StepsExist ==
  ASSUME NEW n \in Nat, NEW E, NEW s \in E, NEW D, StayIn(E, D, n)
  PROVE  \E f \in [0 .. n -> E] : Steps(f, D, n, s)
  <1> USE DEF StayIn, Steps
  <1> DEFINE Upto(m) == \E f \in [0 .. m -> E] : f[0] = s /\ \A i \in 1 .. m : f[i] = D[i][f[i - 1]]
             S == {m \in 0 .. n : Upto(m)}
  <1>2. 0 \in S
    <2>1. [i \in 0 .. 0 |-> s] \in [0 .. 0 -> E] /\ [i \in 0 .. 0 |-> s][0] = s
      OBVIOUS
    <2>2. \A i \in 1 .. 0 : FALSE
      OBVIOUS
    <2>3. Upto(0)
      BY <2>1, <2>2
    <2>. QED
      BY <2>3
  <1>3. ASSUME NEW m \in 0 .. n - 1, m \in S PROVE m + 1 \in S
    <2>1. PICK f \in [0 .. m -> E] : f[0] = s /\ \A i \in 1 .. m : f[i] = D[i][f[i - 1]]
      BY <1>3
    <2>2. m + 1 \in 0 .. n /\ m + 1 \in 1 .. n /\ m \in Nat /\ f[m] \in E
      BY <2>1
    <2> DEFINE h == [i \in 0 .. m + 1 |-> IF i <= m THEN f[i] ELSE D[m + 1][f[m]]]
    <2>3. h \in [0 .. m + 1 -> E]
      BY <2>1, <2>2
    <2>4. h[0] = s
      BY <2>1, <2>2
    <2>5. ASSUME NEW i \in 1 .. m + 1 PROVE h[i] = D[i][h[i - 1]]
      <3>1. CASE i <= m
        <4>1. i \in 1 .. m /\ i - 1 \in 0 .. m + 1 /\ i - 1 <= m /\ i \in 0 .. m + 1
          BY <2>2, <3>1
        <4>2. h[i] = f[i] /\ h[i - 1] = f[i - 1]
          BY <3>1, <4>1
        <4>. QED
          BY <2>1, <4>1, <4>2
      <3>2. CASE i = m + 1
        <4>1. i - 1 = m /\ m \in 0 .. m + 1 /\ ~(m + 1 <= m)
          BY <2>2, <3>2
        <4>. QED
          BY <3>2, <4>1
      <3>. QED
        BY <2>2, <3>1, <3>2
    <2>6. Upto(m + 1)
      <3> HIDE DEF h
      <3>. QED
        BY <2>3, <2>4, <2>5
    <2>. QED
      BY <2>2, <2>6
  <1>. QED
    <2>1. \A m \in 0 .. n : m \in S
      <3> HIDE DEF S
      <3>. QED
        BY <1>2, <1>3, Reaches
    <2>2. n \in S
      BY <2>1
    <2>. QED
      BY <2>2

\* FlattenSeq is where appending the sequences one after the other ends.
LEMMA Flattened ==
  ASSUME NEW L, NEW ss \in Seq(Seq(L))
  PROVE  \E f \in [0 .. Len(ss) -> Seq(L)] :
           /\ f[0] = <<>> /\ f[Len(ss)] = FlattenSeq(ss)
           /\ \A k \in 1 .. Len(ss) : f[k] = f[k - 1] \o ss[k]
  <1> DEFINE n == Len(ss)
             D == [k \in 1 .. n |-> [u \in Seq(L) |-> u \o ss[k]]]
             Eqn(g) == g = [i \in 1 .. n |-> IF i = 1 THEN ss[i] ELSE g[i - 1] \o ss[i]]
  <1>1. n \in Nat /\ \A k \in 1 .. n : ss[k] \in Seq(L)
    OBVIOUS
  <1>2. PICK f \in [0 .. n -> Seq(L)] :
          f[0] = <<>> /\ \A i \in 1 .. n : f[i] = D[i][f[i - 1]]
    <2>1. \A i \in 1 .. n : \A e \in Seq(L) : D[i][e] \in Seq(L)
      BY <1>1
    <2>2. <<>> \in Seq(L)
      OBVIOUS
    <2>3. PICK E, s : E = Seq(L) /\ s = <<>>
      OBVIOUS
    <2>4. s \in E /\ \A i \in 1 .. n : \A e \in E : D[i][e] \in E
      BY <2>1, <2>2, <2>3
    <2> HIDE DEF D, n
    <2>5. s \in E /\ StayIn(E, D, n)
      BY <2>4 DEF StayIn
    <2>6. \E f \in [0 .. n -> E] : Steps(f, D, n, s)
      BY <1>1, <2>5, StepsExist
    <2>. QED
      BY <2>3, <2>6 DEF Steps
  <1>3. \A k \in 1 .. n : k - 1 \in 0 .. n /\ f[k] = f[k - 1] \o ss[k]
    <2> SUFFICES ASSUME NEW k \in 1 .. n PROVE k - 1 \in 0 .. n /\ f[k] = f[k - 1] \o ss[k]
      OBVIOUS
    <2>1. k - 1 \in 0 .. n
      BY <1>1
    <2>2. f[k - 1] \in Seq(L)
      BY <1>2, <2>1
    <2>. QED
      BY <1>2, <2>1, <2>2
  <1> HIDE DEF D
  <1>4. CASE n = 0
    <2>1. FlattenSeq(ss) = <<>>
      BY <1>4 DEF FlattenSeq
    <2>. QED
      BY <1>2, <1>3, <1>4, <2>1
  <1>5. CASE n # 0
    <2> DEFINE g == CHOOSE h : Eqn(h)
    <2>1. Eqn([i \in 1 .. n |-> f[i]])
      <3> DEFINE h == [i \in 1 .. n |-> f[i]]
      <3>1. ASSUME NEW i \in 1 .. n PROVE h[i] = IF i = 1 THEN ss[i] ELSE h[i - 1] \o ss[i]
        <4>1. CASE i = 1
          <5>3. 1 \in 1 .. n /\ 1 - 1 = 0
            BY <4>1
          <5>1. f[1] = f[1 - 1] \o ss[1] /\ ss[1] \in Seq(L)
            BY <1>1, <1>3, <5>3
          <5>2. f[1] = <<>> \o ss[1]
            BY <1>2, <5>1, <5>3
          <5>. QED
            BY <4>1, <5>1, <5>2
        <4>2. CASE i # 1
          <5>1. i - 1 \in 1 .. n
            BY <1>1, <4>2
          <5>. QED
            BY <1>3, <4>2, <5>1
        <4>. QED
          BY <4>1, <4>2
      <3>. QED
        BY <3>1
    <2>2. Eqn(g)
      <3> HIDE DEF Eqn
      <3>. QED
        BY <2>1
    <2>3. FlattenSeq(ss) = g[n]
      BY <1>5, Zenon DEF FlattenSeq
    <2> HIDE DEF g
    <2>4. /\ g = [i \in 1 .. n |-> g[i]]
          /\ \A i \in 1 .. n : g[i] = IF i = 1 THEN ss[i] ELSE g[i - 1] \o ss[i]
      BY <2>2
    <2> DEFINE T == {i \in 0 .. n : i = 0 \/ g[i] = f[i]}
    <2>5. 0 \in T
      BY <1>1
    <2>6. ASSUME NEW i \in 0 .. n - 1, i \in T PROVE i + 1 \in T
      <3>1. i + 1 \in 1 .. n /\ (i + 1) - 1 = i /\ i + 1 \in 0 .. n
        BY <1>1
      <3>2. f[i + 1] = f[i] \o ss[i + 1] /\ ss[i + 1] \in Seq(L)
        BY <1>1, <1>3, <3>1
      <3>3. g[i + 1] = IF i + 1 = 1 THEN ss[i + 1] ELSE g[i] \o ss[i + 1]
        BY <2>4, <3>1
      <3>4. CASE i = 0
        <4>1. f[i] = <<>>
          BY <1>2, <3>4
        <4>2. <<>> \o ss[i + 1] = ss[i + 1]
          BY <3>2
        <4>. QED
          BY <3>1, <3>2, <3>3, <3>4, <4>1, <4>2
      <3>5. CASE i # 0
        <4>1. g[i] = f[i] /\ i + 1 # 1
          BY <1>1, <2>6, <3>5
        <4>. QED
          BY <3>1, <3>2, <3>3, <4>1
      <3>. QED
        BY <3>4, <3>5
    <2>7. \A i \in 0 .. n : i \in T
      <3> HIDE DEF T, n
      <3>. QED
        BY <1>1, <2>5, <2>6, Reaches
    <2>8. n \in T
      BY <1>1, <2>7
    <2>9. FlattenSeq(ss) = f[n]
      BY <1>5, <2>3, <2>8
    <2>. QED
      BY <1>2, <1>3, <2>9
  <1>. QED
    BY <1>4, <1>5

\* The lines u stand in t from line i on.
Occurs(t, i, u) ==
  i + Len(u) <= Len(t) + 1 /\ \A k \in 1 .. Len(u) : t[i + k - 1] = u[k]

\* Of two texts one after the other each stands where it begins.
LEMMA OccursConcat ==
  ASSUME NEW L, NEW t \in Seq(L), NEW i \in Nat \ {0}, NEW u \in Seq(L), NEW v \in Seq(L),
         Occurs(t, i, u \o v)
  PROVE  /\ Occurs(t, i, u) /\ Occurs(t, i + Len(u), v)
         /\ i + Len(u) \in Nat \ {0} /\ (i + Len(u)) + Len(v) = i + Len(u \o v)
  <1>1. /\ Len(t) \in Nat /\ Len(u) \in Nat /\ Len(v) \in Nat /\ Len(u \o v) = Len(u) + Len(v)
        /\ \A k \in 1 .. Len(u) : (u \o v)[k] = u[k]
        /\ \A k \in 1 .. Len(v) : (u \o v)[Len(u) + k] = v[k]
    OBVIOUS
  <1>2. PICK w : w = u \o v
    OBVIOUS
  <1>3. Occurs(t, i, u)
    BY <1>1, <1>2 DEF Occurs
  <1>4. ASSUME NEW k \in 1 .. Len(v) PROVE t[(i + Len(u)) + k - 1] = v[k]
    <2>1. Len(u) + k \in 1 .. Len(w) /\ (i + Len(u)) + k - 1 = i + (Len(u) + k) - 1
      BY <1>1, <1>2
    <2>. QED
      BY <1>1, <1>2, <2>1 DEF Occurs
  <1>5. (i + Len(u)) + Len(v) <= Len(t) + 1
    BY <1>1, <1>2 DEF Occurs
  <1>. QED
    BY <1>1, <1>3, <1>4, <1>5 DEF Occurs

\* Each of the sequences that are flattened stands in t, one below the other.
Laid(t, i, ss, p) ==
  /\ p[0] = i /\ p[Len(ss)] = i + Len(FlattenSeq(ss))
  /\ \A k \in 1 .. Len(ss) : Occurs(t, p[k - 1], ss[k]) /\ p[k] = p[k - 1] + Len(ss[k])

\* Each part of a text has its place.
LEMMA FlatPositions ==
  ASSUME NEW L, NEW t \in Seq(L), NEW i \in Nat \ {0}, NEW ss \in Seq(Seq(L)),
         Occurs(t, i, FlattenSeq(ss))
  PROVE  \E p \in [0 .. Len(ss) -> Nat \ {0}] : Laid(t, i, ss, p)
  <1> DEFINE n == Len(ss)
  <1>1. n \in Nat /\ \A k \in 1 .. n : ss[k] \in Seq(L)
    OBVIOUS
  <1>2. PICK f \in [0 .. n -> Seq(L)] :
          /\ f[0] = <<>> /\ f[n] = FlattenSeq(ss)
          /\ \A k \in 1 .. n : f[k] = f[k - 1] \o ss[k]
    BY Flattened
  <1> HIDE DEF n
  <1> DEFINE p == [k \in 0 .. n |-> i + Len(f[k])]
             T == {m \in 0 .. n : Occurs(t, i, f[n - m])}
  <1>3. \A k \in 0 .. n : f[k] \in Seq(L) /\ Len(f[k]) \in Nat /\ p[k] = i + Len(f[k])
    BY <1>2
  <1>4. p \in [0 .. n -> Nat \ {0}]
    BY <1>3
  <1>5. ASSUME NEW k \in 1 .. n, Occurs(t, i, f[k])
        PROVE  /\ Occurs(t, i, f[k - 1]) /\ Occurs(t, p[k - 1], ss[k])
               /\ p[k] = p[k - 1] + Len(ss[k])
    <2>1. k - 1 \in 0 .. n /\ k \in 0 .. n
      BY <1>1
    <2>2. f[k - 1] \in Seq(L) /\ ss[k] \in Seq(L) /\ f[k] = f[k - 1] \o ss[k]
      BY <1>1, <1>2, <2>1
    <2>3. Occurs(t, i, f[k - 1] \o ss[k])
      BY <1>5, <2>2
    <2>4. /\ Occurs(t, i, f[k - 1]) /\ Occurs(t, i + Len(f[k - 1]), ss[k])
          /\ (i + Len(f[k - 1])) + Len(ss[k]) = i + Len(f[k - 1] \o ss[k])
      <3>1. PICK u \in Seq(L), v \in Seq(L) : u = f[k - 1] /\ v = ss[k]
        BY <2>2
      <3>2. Occurs(t, i, u \o v)
        BY <2>3, <3>1
      <3>3. Occurs(t, i, u) /\ Occurs(t, i + Len(u), v) /\ (i + Len(u)) + Len(v) = i + Len(u \o v)
        BY <3>2, OccursConcat
      <3>. QED
        BY <3>1, <3>3
    <2>5. p[k - 1] = i + Len(f[k - 1]) /\ p[k] = i + Len(f[k])
      BY <1>3, <2>1
    <2>. QED
      BY <2>2, <2>4, <2>5
  <1>6. \A m \in 0 .. n : m \in T
    <2>1. 0 \in T
      <3>1. n - 0 = n
        BY <1>1
      <3>. QED
        BY <1>1, <1>2, <3>1
    <2>2. ASSUME NEW m \in 0 .. n - 1, m \in T PROVE m + 1 \in T
      <3>1. n - m \in 1 .. n /\ (n - m) - 1 = n - (m + 1) /\ m + 1 \in 0 .. n
        BY <1>1
      <3>2. Occurs(t, i, f[n - m])
        BY <2>2
      <3>3. Occurs(t, i, f[(n - m) - 1])
        BY <1>5, <3>1, <3>2
      <3>. QED
        BY <3>1, <3>3
    <2> HIDE DEF T
    <2>. QED
      BY <1>1, <2>1, <2>2, Reaches
  <1>7. \A k \in 1 .. n : Occurs(t, i, f[k])
    <2> SUFFICES ASSUME NEW k \in 1 .. n PROVE Occurs(t, i, f[k])
      OBVIOUS
    <2>1. n - k \in 0 .. n /\ n - (n - k) = k
      BY <1>1
    <2>2. n - k \in T
      BY <1>6, <2>1
    <2>. QED
      BY <2>1, <2>2
  <1>8. p[0] = i /\ p[n] = i + Len(FlattenSeq(ss)) /\ FlattenSeq(ss) \in Seq(L)
    <2>1. 0 \in 0 .. n /\ n \in 0 .. n /\ Len(f[0]) = 0
      BY <1>1, <1>2
    <2>2. p[0] = i + Len(f[0]) /\ p[n] = i + Len(f[n])
      BY <1>3, <2>1
    <2>3. p[0] = i
      BY <2>1, <2>2
    <2>4. FlattenSeq(ss) \in Seq(L)
      BY <1>2, <1>3, <2>1
    <2>. QED
      BY <1>2, <2>2, <2>3, <2>4
  <1>9. \A k \in 1 .. n : Occurs(t, p[k - 1], ss[k]) /\ p[k] = p[k - 1] + Len(ss[k])
    BY <1>5, <1>7
  <1> HIDE DEF p
  <1>. QED
    BY <1>4, <1>8, <1>9 DEF n, Laid

-----------------------------------------------------------------------------
(* Lists, and where an array or an element ends.                           *)

\* What holds of n and of each number's predecessor holds down to 0.
LEMMA ReachesDown ==
  ASSUME NEW n \in Nat, NEW S, n \in S, \A i \in 1 .. n : i \in S => i - 1 \in S
  PROVE  \A i \in 0 .. n : i \in S
  <1> DEFINE T == {m \in 0 .. n : n - m \in S}
  <1>1. 0 \in T
    <2>1. n - 0 = n
      OBVIOUS
    <2>. QED
      BY <2>1
  <1>2. ASSUME NEW m \in 0 .. n - 1, m \in T PROVE m + 1 \in T
    <2>1. n - m \in 1 .. n /\ (n - m) - 1 = n - (m + 1) /\ m + 1 \in 0 .. n
      OBVIOUS
    <2>. QED
      BY <1>2, <2>1
  <1>3. \A m \in 0 .. n : m \in T
    <2> HIDE DEF T
    <2>. QED
      BY <1>1, <1>2, Reaches
  <1>4. ASSUME NEW i \in 0 .. n PROVE i \in S
    <2>1. n - i \in 0 .. n /\ n - (n - i) = i
      OBVIOUS
    <2>. QED
      BY <1>3, <2>1
  <1>. QED
    BY <1>4

\* A function on the first numbers is a sequence.
LEMMA IsSequence ==
  ASSUME NEW S, NEW n \in Nat, NEW g, g = [k \in 1 .. n |-> g[k]], \A k \in 1 .. n : g[k] \in S
  PROVE  g \in Seq(S) /\ Len(g) = n
  <1>1. g \in [1 .. n -> S]
    OBVIOUS
  <1>. QED
    BY <1>1

\* What is left of v after its first m.
Rest(v, m) == [k \in 1 .. Len(v) - m |-> v[m + k]]

\* What is left of a sequence, one element less at a time.
LEMMA RestStep ==
  ASSUME NEW S, NEW v \in Seq(S)
  PROVE  /\ Rest(v, 0) = v /\ Rest(v, Len(v)) = <<>>
         /\ \A m \in 1 .. Len(v) : Rest(v, m - 1) = <<v[m]>> \o Rest(v, m)
  <1>1. Rest(v, 0) = v
    BY DEF Rest
  <1>2. Rest(v, Len(v)) = <<>>
    BY DEF Rest
  <1>3. ASSUME NEW m \in 1 .. Len(v) PROVE Rest(v, m - 1) = <<v[m]>> \o Rest(v, m)
    <2>1. Rest(v, m) \in Seq(S) /\ Len(Rest(v, m)) = Len(v) - m
      BY DEF Rest
    <2>2. Rest(v, m - 1) \in Seq(S) /\ Len(Rest(v, m - 1)) = (Len(v) - m) + 1
      BY DEF Rest
    <2>3. v[m] \in S
      OBVIOUS
    <2>4. PICK u \in Seq(S) : u = Rest(v, m)
      BY <2>1
    <2>5. /\ <<v[m]>> \o u \in Seq(S) /\ Len(<<v[m]>> \o u) = (Len(v) - m) + 1
          /\ (<<v[m]>> \o u)[1] = v[m]
          /\ \A k \in 1 .. Len(v) - m : (<<v[m]>> \o u)[k + 1] = u[k]
      BY <2>1, <2>3, <2>4
    <2>6. \A k \in 1 .. Len(v) - m : u[k] = v[m + k]
      BY <2>4 DEF Rest
    <2>7. \A k \in 1 .. (Len(v) - m) + 1 : Rest(v, m - 1)[k] = v[(m - 1) + k]
      BY DEF Rest
    <2>8. ASSUME NEW k \in 1 .. (Len(v) - m) + 1 PROVE Rest(v, m - 1)[k] = (<<v[m]>> \o u)[k]
      <3>1. CASE k = 1
        <4>1. (m - 1) + 1 = m
          OBVIOUS
        <4>. QED
          BY <2>5, <2>7, <3>1, <4>1
      <3>2. CASE k # 1
        <4>1. k - 1 \in 1 .. Len(v) - m /\ (k - 1) + 1 = k /\ (m - 1) + k = m + (k - 1)
          BY <3>2
        <4>. QED
          BY <2>5, <2>6, <2>7, <4>1
      <3>. QED
        BY <3>1, <3>2
    <2>9. PICK a, b : a = Rest(v, m - 1) /\ b = <<v[m]>> \o u
      OBVIOUS
    <2>10. a \in Seq(S) /\ b \in Seq(S) /\ Len(a) = Len(b) /\ \A k \in 1 .. Len(a) : a[k] = b[k]
      BY <2>2, <2>5, <2>8, <2>9
    <2>11. a = b
      BY <2>10
    <2>. QED
      BY <2>4, <2>9, <2>11
  <1>. QED
    BY <1>1, <1>2, <1>3

-----------------------------------------------------------------------------
(* The lines of a file.                                                    *)

\* The parts of a line.
LEMMA LinesAre ==
  /\ Blank \in Lines /\ Blank.blank
  /\ \A i \in Nat, d \in BOOLEAN, k \in Names, r \in Rests \union {Nothing} :
       /\ Line(i, d, k, r) \in Lines
       /\ ~Line(i, d, k, r).blank /\ Line(i, d, k, r).indent = i /\ Line(i, d, k, r).dash = d
       /\ Line(i, d, k, r).key = k /\ Line(i, d, k, r).rest = r
  <1>1. Blank \in Lines /\ Blank.blank
    BY YamlParserAssumption DEF Blank, Lines
  <1>2. ASSUME NEW i \in Nat, NEW d \in BOOLEAN, NEW k \in Names, NEW r \in Rests \union {Nothing}
        PROVE  /\ Line(i, d, k, r) \in Lines
               /\ ~Line(i, d, k, r).blank /\ Line(i, d, k, r).indent = i /\ Line(i, d, k, r).dash = d
               /\ Line(i, d, k, r).key = k /\ Line(i, d, k, r).rest = r
    BY DEF Line, Lines
  <1>. QED
    BY <1>1, <1>2

\* What may follow a key: a word, or a list of words with at least one.
LEMMA RestsAre ==
  ASSUME NEW r \in Rests
  PROVE  /\ r # Nothing
         /\ \/ r[1] = "word" /\ r[2] \in Words
            \/ r[1] = "list" /\ r[2] \in Seq(Words) /\ r[2] # <<>>
  BY DEF Rests, Nothing

\* A word may.
LEMMA WordIsRest ==
  ASSUME NEW w \in Words
  PROVE  Word(w) \in Rests /\ Word(w)[1] = "word" /\ Word(w)[2] = w
  BY DEF Word, Rests

\* The elements of a list in block style.
Elements(ws) == [i \in DOMAIN ws |-> Element(ws[i])]

\* The lines of a list.
LEMMA ElementsAre ==
  ASSUME NEW ws \in Seq(Words)
  PROVE  /\ Elements(ws) \in Seq(Lines) /\ Len(Elements(ws)) = Len(ws)
         /\ \A k \in 1 .. Len(ws) : Elements(ws)[k] = Line(6, TRUE, NoKey, Word(ws[k]))
  <1>1. ASSUME NEW k \in 1 .. Len(ws)
        PROVE  /\ Element(ws[k]) = Line(6, TRUE, NoKey, Word(ws[k]))
               /\ Line(6, TRUE, NoKey, Word(ws[k])) \in Lines
    <2>1. Element(ws[k]) = Line(6, TRUE, NoKey, Word(ws[k]))
      BY DEF Element, Line
    <2>2. Word(ws[k]) \in Rests
      BY WordIsRest
    <2>3. NoKey \in Names
      BY YamlParserAssumption
    <2>. QED
      BY <2>1, <2>2, <2>3, LinesAre
  <1>2. DOMAIN ws = 1 .. Len(ws) /\ Len(ws) \in Nat
    OBVIOUS
  <1>3. Elements(ws) = [k \in 1 .. Len(ws) |-> Line(6, TRUE, NoKey, Word(ws[k]))]
    BY <1>1, <1>2 DEF Elements
  <1>4. PICK g : g = [k \in 1 .. Len(ws) |-> Line(6, TRUE, NoKey, Word(ws[k]))]
    OBVIOUS
  <1>5. \A k \in 1 .. Len(ws) : g[k] = Line(6, TRUE, NoKey, Word(ws[k])) /\ g[k] \in Lines
    BY <1>1, <1>4
  <1>6. g \in Seq(Lines) /\ Len(g) = Len(ws)
    <2>1. g = [k \in 1 .. Len(ws) |-> g[k]]
      BY <1>4
    <2>. QED
      BY <1>2, <1>5, <2>1, IsSequence
  <1>. QED
    BY <1>3, <1>4, <1>5, <1>6

\* What the parser sees of an element.
LEMMA ElementIs ==
  ASSUME NEW l, NEW w \in Words, l = Line(6, TRUE, NoKey, Word(w))
  PROVE  /\ ~l.blank /\ l.indent = 6 /\ l.dash /\ l.key = NoKey /\ l.rest = Word(w)
         /\ l.rest # Nothing /\ ScalarOf(l.rest) = Scalar(w)
  <1>1. Word(w) \in Rests /\ Word(w) # Nothing /\ ScalarOf(Word(w)) = Scalar(w)
    BY WordIsRest, RestsAre DEF ScalarOf
  <1>2. ~l.blank /\ l.indent = 6 /\ l.dash /\ l.key = NoKey /\ l.rest = Word(w)
    BY DEF Line
  <1>. QED
    BY <1>1, <1>2

\* Blank lines are passed over.
LEMMA BlankPassed ==
  ASSUME NEW t \in Seq(Lines), NEW i \in 1 .. Len(t), t[i].blank, NEW base \in Nat
  PROVE  /\ Parser(t)[<<"array", i, base>>] = Parser(t)[<<"array", i + 1, base>>]
         /\ Parser(t)[<<"fields", i, base>>] = Parser(t)[<<"fields", i + 1, base>>]
         /\ Parser(t)[<<"object", i, base>>] = Parser(t)[<<"object", i + 1, base>>]
  <1>1. i \in 1 .. Len(t) + 1 /\ ~(i > Len(t))
    OBVIOUS
  <1>2. PICK P : P = Parser(t)
    OBVIOUS
  <1>3. /\ P[<<"array", i, base>>] = ParseArray(P, t, i, base)
        /\ P[<<"fields", i, base>>] = Fields(P, t, i, base)
        /\ P[<<"object", i, base>>] = ParseObject(P, t, i, base)
    BY <1>1, <1>2, ParserCalls
  <1>4. ParseArray(P, t, i, base) = P[<<"array", i + 1, base>>]
    BY <1>1, Zenon DEF ParseArray
  <1>5. Fields(P, t, i, base) = P[<<"fields", i + 1, base>>]
    BY <1>1, Zenon DEF Fields
  <1>6. ParseObject(P, t, i, base) = P[<<"object", i + 1, base>>]
    BY <1>1, Zenon DEF ParseObject
  <1>. QED
    BY <1>2, <1>3, <1>4, <1>5, <1>6

\* Who reads on from line j comes to line e, the end or one that is indented less
\* than the elements of a list.
Resume(t, j, e) ==
  /\ j \in 1 .. Len(t) + 1 /\ e \in 1 .. Len(t) + 1
  /\ j = e \/ (j \in 1 .. Len(t) /\ t[j].blank /\ e = j + 1)
  /\ e = Len(t) + 1 \/ (~t[e].blank /\ t[e].indent < 6)

\* What goes on at the end of a part goes on at the line that is not blank.
LEMMA Resumes ==
  ASSUME NEW t \in Seq(Lines), NEW j, NEW e, Resume(t, j, e), NEW base \in Nat
  PROVE  /\ Parser(t)[<<"array", j, base>>] = Parser(t)[<<"array", e, base>>]
         /\ Parser(t)[<<"fields", j, base>>] = Parser(t)[<<"fields", e, base>>]
  <1>1. CASE j = e
    BY <1>1
  <1>2. CASE j \in 1 .. Len(t) /\ t[j].blank /\ e = j + 1
    BY <1>2, BlankPassed
  <1>. QED
    BY <1>1, <1>2 DEF Resume

\* An array ends, without a line read, where a line is indented less,
LEMMA ArrayStops ==
  ASSUME NEW t \in Seq(Lines), NEW e \in 1 .. Len(t) + 1, NEW base \in Nat,
         e = Len(t) + 1 \/ (~t[e].blank /\ t[e].indent < base)
  PROVE  Parser(t)[<<"array", e, base>>] = At(<<>>, e)
  <1>1. e > Len(t) \/ (~t[e].blank /\ t[e].indent < base)
    OBVIOUS
  <1>2. PICK P : P = Parser(t)
    OBVIOUS
  <1>3. P[<<"array", e, base>>] = ParseArray(P, t, e, base)
    BY <1>2, ParserCalls
  <1>4. ParseArray(P, t, e, base) = At(<<>>, e)
    BY <1>1, Zenon DEF ParseArray
  <1>. QED
    BY <1>2, <1>3, <1>4

\* and an element where a line is not indented more.
LEMMA FieldsStop ==
  ASSUME NEW t \in Seq(Lines), NEW e \in 1 .. Len(t) + 1, NEW base \in Nat,
         e = Len(t) + 1 \/ (~t[e].blank /\ t[e].indent <= base)
  PROVE  Parser(t)[<<"fields", e, base>>] = At(NoFields, e)
  <1>1. e > Len(t) \/ (~t[e].blank /\ t[e].indent <= base)
    OBVIOUS
  <1>2. PICK P : P = Parser(t)
    OBVIOUS
  <1>3. P[<<"fields", e, base>>] = Fields(P, t, e, base)
    BY <1>2, ParserCalls
  <1>4. Fields(P, t, e, base) = At(NoFields, e)
    BY <1>1, Zenon DEF Fields
  <1>. QED
    BY <1>2, <1>3, <1>4

\* What is before the end of a text.
LEMMA OccursAt ==
  ASSUME NEW t \in Seq(Lines), NEW i \in Nat \ {0}, NEW u \in Seq(Lines), Occurs(t, i, u)
  PROVE  /\ i + Len(u) \in 1 .. Len(t) + 1 /\ Len(u) \in Nat /\ Len(t) \in Nat
         /\ \A k \in 1 .. Len(u) : i + k - 1 \in 1 .. Len(t) /\ t[i + k - 1] = u[k]
  <1>1. Len(u) \in Nat /\ Len(t) \in Nat
    OBVIOUS
  <1>. QED
    BY <1>1 DEF Occurs

\* A list in block style is read to its end.
LEMMA ElementsRead ==
  ASSUME NEW t \in Seq(Lines), NEW i \in Nat \ {0}, NEW ws \in Seq(Words), Occurs(t, i, Elements(ws)),
         NEW e, Parser(t)[<<"array", i + Len(ws), 6>>] = At(<<>>, e)
  PROVE  Parser(t)[<<"array", i, 6>>] = At([k \in DOMAIN ws |-> Scalar(ws[k])], e)
  <1> DEFINE V == {Scalar(w) : w \in Words}
             v == [k \in DOMAIN ws |-> Scalar(ws[k])]
             n == Len(ws)
             S == {m \in 0 .. n : Parser(t)[<<"array", i + m, 6>>] = At(Rest(v, m), e)}
  <1>1. n \in Nat /\ v \in Seq(V) /\ Len(v) = n /\ \A k \in 1 .. n : v[k] = Scalar(ws[k])
    OBVIOUS
  <1>2. /\ Rest(v, 0) = v /\ Rest(v, n) = <<>>
        /\ \A m \in 1 .. n : Rest(v, m - 1) = <<v[m]>> \o Rest(v, m)
    <2> HIDE DEF v, V, n
    <2>. QED
      BY <1>1, RestStep
  <1>3. n \in S
    BY <1>1, <1>2
  <1>4. ASSUME NEW m \in 1 .. n, m \in S PROVE m - 1 \in S
    <2>1. PICK j : j = i + (m - 1)
      OBVIOUS
    <2>2. /\ j \in 1 .. Len(t) /\ j + 1 = i + m /\ m - 1 \in 0 .. n /\ Len(t) \in Nat
          /\ t[j] = Line(6, TRUE, NoKey, Word(ws[m]))
      <3>1. PICK u \in Seq(Lines) : /\ u = Elements(ws) /\ Len(u) = n
                                    /\ u[m] = Line(6, TRUE, NoKey, Word(ws[m]))
        BY ElementsAre
      <3>2. Occurs(t, i, u)
        BY <3>1
      <3>3. i + m - 1 \in 1 .. Len(t) /\ t[i + m - 1] = u[m] /\ Len(t) \in Nat
        <4>1. m \in 1 .. Len(u)
          BY <3>1
        <4>2. Len(t) \in Nat /\ \A k \in 1 .. Len(u) : i + k - 1 \in 1 .. Len(t) /\ t[i + k - 1] = u[k]
          BY <3>2, OccursAt, Zenon
        <4>. QED
          BY <4>1, <4>2, Zenon
      <3>4. i + m - 1 = j /\ j + 1 = i + m /\ m - 1 \in 0 .. n
        BY <1>1, <2>1
      <3>. QED
        BY <3>1, <3>3, <3>4
    <2>3. ws[m] \in Words
      OBVIOUS
    <2>4. /\ ~t[j].blank /\ t[j].indent = 6 /\ t[j].dash /\ t[j].key = NoKey
          /\ t[j].rest # Nothing /\ ScalarOf(t[j].rest) = Scalar(ws[m])
      BY <2>2, <2>3, ElementIs
    <2>5. PICK P : P = Parser(t)
      OBVIOUS
    <2>6. P[<<"array", j, 6>>] = ParseArray(P, t, j, 6)
      <3>1. j \in 1 .. Len(t) + 1
        BY <2>2
      <3>. QED
        BY <2>5, <3>1, ParserCalls
    <2>7. ParseArray(P, t, j, 6) = ElementAnd(P, t, j, 6)
      <3>1. ~(j > Len(t))
        BY <2>2
      <3>2. ~(t[j].indent < 6)
        BY <2>4
      <3>. QED
        BY <2>4, <3>1, <3>2, Zenon DEF ParseArray
    <2>8. PICK r : r = At(ScalarOf(t[j].rest), j + 1)
      OBVIOUS
    <2>9. r.value = Scalar(ws[m]) /\ r.next = i + m
      BY <2>2, <2>4, <2>8, AtIs
    <2>10. ElementAnd(P, t, j, 6) =
             At(<<r.value>> \o P[<<"array", r.next, 6>>].value, P[<<"array", r.next, 6>>].next)
      BY <2>4, <2>8, Zenon DEF ElementAnd
    <2>11. P[<<"array", r.next, 6>>] = At(Rest(v, m), e)
      BY <1>4, <2>5, <2>9
    <2>12. P[<<"array", r.next, 6>>].value = Rest(v, m) /\ P[<<"array", r.next, 6>>].next = e
      <3> HIDE DEF v
      <3>. QED
        BY <2>11, AtIs
    <2>13. <<r.value>> \o Rest(v, m) = Rest(v, m - 1)
      BY <1>1, <1>2, <2>9
    <2>14. P[<<"array", j, 6>>] = At(Rest(v, m - 1), e)
      BY <2>6, <2>7, <2>10, <2>12, <2>13
    <2>. QED
      BY <2>1, <2>2, <2>5, <2>14
  <1>5. \A m \in 0 .. n : m \in S
    <2> HIDE DEF S, n
    <2>. QED
      BY <1>1, <1>3, <1>4, ReachesDown
  <1>6. 0 \in S /\ i + 0 = i
    BY <1>1, <1>5
  <1>. QED
    BY <1>2, <1>6

-----------------------------------------------------------------------------
(* A field.                                                                *)

Fielded == (Names \ {NoKey}) \X Rests

\* The field f stands from line i to before line j.
Stands(t, i, f, j) ==
  /\ i \in 1 .. Len(t) /\ ~t[i].blank /\ t[i].key = f[1]
  /\ \/ f[2][1] = "word" /\ t[i].rest = f[2] /\ j = i + 1
     \/ /\ f[2][1] = "list" /\ t[i].rest = Nothing
        /\ Occurs(t, i + 1, Elements(f[2][2])) /\ j = (i + 1) + Len(f[2][2])

\* The value of a field is read as it is meant, up to the next line of interest.
LEMMA FieldRead ==
  ASSUME NEW t \in Seq(Lines), NEW i, NEW j, NEW e, NEW f \in Fielded, Stands(t, i, f, j),
         Resume(t, j, e), NEW above \in 0 .. 5
  PROVE  /\ FieldValue(Parser(t), t, i, above).value = Meant(f[2])
         /\ FieldValue(Parser(t), t, i, above).next \in {j, e}
  <1>1. PICK P : P = Parser(t)
    OBVIOUS
  <1>2. f[2] \in Rests
    BY DEF Fielded
  <1>3. CASE f[2][1] = "word"
    <2>1. f[2] # Nothing /\ t[i].rest = f[2] /\ j = i + 1
      BY <1>2, <1>3, RestsAre DEF Stands
    <2>2. FieldValue(P, t, i, above) = At(ScalarOf(t[i].rest), i + 1)
      BY <2>1, Zenon DEF FieldValue
    <2>3. ScalarOf(f[2]) = Meant(f[2])
      BY <1>3 DEF ScalarOf, Meant
    <2>. QED
      BY <1>1, <2>1, <2>2, <2>3, AtIs
  <1>4. CASE f[2][1] = "list"
    <2>1. PICK ws \in Seq(Words) : ws = f[2][2] /\ ws # <<>>
      BY <1>2, <1>4, RestsAre
    <2>2. /\ t[i].rest = Nothing /\ Occurs(t, i + 1, Elements(ws)) /\ j = (i + 1) + Len(ws)
          /\ i \in 1 .. Len(t) /\ i + 1 \in Nat \ {0} /\ Len(ws) \in Nat \ {0} /\ Len(t) \in Nat
      BY <1>4, <2>1 DEF Stands
    <2>3. FieldValue(P, t, i, above) = AfterKey(P, t, i + 1, above)
      BY <2>2, Zenon DEF FieldValue
    <2>4. i + 1 \in 1 .. Len(t) /\ ~t[i + 1].blank /\ t[i + 1].dash /\ t[i + 1].indent = 6
      <3>1. PICK u \in Seq(Lines) : /\ u = Elements(ws) /\ Len(u) = Len(ws)
                                    /\ u[1] = Line(6, TRUE, NoKey, Word(ws[1]))
        <4>1. 1 \in 1 .. Len(ws)
          BY <2>2
        <4>2. /\ Elements(ws) \in Seq(Lines) /\ Len(Elements(ws)) = Len(ws)
              /\ Elements(ws)[1] = Line(6, TRUE, NoKey, Word(ws[1]))
          BY <4>1, ElementsAre
        <4>. QED
          BY <4>2
      <3>2. Occurs(t, i + 1, u) /\ 1 \in 1 .. Len(u)
        BY <2>2, <3>1
      <3>3. (i + 1) + 1 - 1 \in 1 .. Len(t) /\ t[(i + 1) + 1 - 1] = u[1]
        BY <2>2, <3>2, OccursAt, Zenon
      <3>4. (i + 1) + 1 - 1 = i + 1 /\ ws[1] \in Words
        BY <2>2
      <3>5. t[i + 1] = Line(6, TRUE, NoKey, Word(ws[1]))
        BY <3>1, <3>3, <3>4
      <3>. QED
        BY <3>3, <3>4, <3>5, ElementIs
    <2>5. AfterKey(P, t, i + 1, above) = ArrayAt(P, i + 1, 6)
      <3>1. ~(i + 1 > Len(t)) /\ t[i + 1].indent > above
        BY <2>2, <2>4
      <3>. QED
        BY <2>4, <3>1, Zenon DEF AfterKey
    <2>6. P[<<"array", i + 1, 6>>] = At([k \in DOMAIN ws |-> Scalar(ws[k])], e)
      <3>1. /\ j \in 1 .. Len(t) + 1 /\ e \in 1 .. Len(t) + 1
            /\ e = Len(t) + 1 \/ (~t[e].blank /\ t[e].indent < 6)
        BY DEF Resume
      <3>2. Parser(t)[<<"array", j, 6>>] = Parser(t)[<<"array", e, 6>>]
        <4>1. PICK b \in Nat : b = 6
          OBVIOUS
        <4>2. Parser(t)[<<"array", j, b>>] = Parser(t)[<<"array", e, b>>]
          BY Resumes, Zenon
        <4>. QED
          BY <4>1, <4>2
      <3>3. Parser(t)[<<"array", e, 6>>] = At(<<>>, e)
        BY <3>1, ArrayStops
      <3>. QED
        BY <1>1, <2>2, <3>2, <3>3, ElementsRead
    <2>7. ArrayAt(P, i + 1, 6) = At(Array([k \in DOMAIN ws |-> Scalar(ws[k])]), e)
      BY <2>6, AtIs DEF ArrayAt
    <2>8. Meant(f[2]) = Array([k \in DOMAIN ws |-> Scalar(ws[k])])
      BY <1>4, <2>1 DEF Meant
    <2>. QED
      BY <1>1, <2>3, <2>5, <2>7, <2>8, AtIs
  <1>. QED
    BY <1>3, <1>4 DEF Stands

\* A field, and what is read from below it.
LEMMA FieldAndRead ==
  ASSUME NEW t \in Seq(Lines), NEW i, NEW j, NEW e, NEW f \in Fielded, Stands(t, i, f, j),
         Resume(t, j, e), NEW above \in 0 .. 5, NEW base \in Nat, NEW g, NEW z,
         Parser(t)[<<"fields", e, base>>] = At(g, z)
  PROVE  FieldAnd(Parser(t), t, i, base, above) = At(With(g, f[1], Meant(f[2])), z)
  <1>1. PICK P : P = Parser(t)
    OBVIOUS
  <1>2. PICK r : r = FieldValue(P, t, i, above)
    OBVIOUS
  <1>3. r.value = Meant(f[2]) /\ r.next \in {j, e}
    BY <1>1, <1>2, FieldRead
  <1>4. P[<<"fields", r.next, base>>] = At(g, z)
    <2>1. Parser(t)[<<"fields", j, base>>] = Parser(t)[<<"fields", e, base>>]
      BY Resumes, Zenon
    <2>. QED
      BY <1>1, <1>3, <2>1
  <1>5. P[<<"fields", r.next, base>>].value = g /\ P[<<"fields", r.next, base>>].next = z
    BY <1>4, AtIs
  <1>6. FieldAnd(P, t, i, base, above) =
          At(With(P[<<"fields", r.next, base>>].value, t[i].key, r.value),
             P[<<"fields", r.next, base>>].next)
    BY <1>2, Zenon DEF FieldAnd
  <1>7. t[i].key = f[1]
    BY DEF Stands
  <1>. QED
    BY <1>1, <1>3, <1>5, <1>6, <1>7

\* What may stand before a line.
Remarks == {<<>>, <<Blank>>}

\* A comment is one line or none.
LEMMA CommentIs ==
  ASSUME NEW s, NEW place
  PROVE  Comment(s, place) \in Remarks
  BY DEF Comment, Remarks

\* The line l, after the remark c and before the lines v, is line i.
Found(t, p, c, l, v, i) ==
  /\ Resume(t, p, i) /\ i \in 1 .. Len(t) /\ t[i] = l /\ Occurs(t, i + 1, v)
  /\ (i + 1) + Len(v) = p + Len((c \o <<l>>) \o v) /\ (c = <<>> => i = p)

\* A line after a comment or none, and what is below it.
LEMMA Introduced ==
  ASSUME NEW t \in Seq(Lines), NEW p \in Nat \ {0}, NEW c \in Remarks, NEW l \in Lines,
         ~l.blank, l.indent < 6, NEW v \in Seq(Lines), Occurs(t, p, (c \o <<l>>) \o v)
  PROVE  \E i : Found(t, p, c, l, v, i)
  <1>a. PICK u : u = (c \o <<l>>) \o v
    OBVIOUS
  <1>b. Occurs(t, p, u) /\ c \in {<<>>, <<Blank>>}
    BY <1>a DEF Remarks
  <1>1. PICK a \in Seq(Lines) : a = c \o <<l>> /\ c \in Seq(Lines) /\ <<l>> \in Seq(Lines)
    <2>1. <<Blank>> \in Seq(Lines) /\ <<>> \in Seq(Lines) /\ <<l>> \in Seq(Lines)
      BY LinesAre
    <2>2. PICK d \in Seq(Lines), b \in Seq(Lines) : d = c /\ b = <<l>>
      BY <1>b, <2>1
    <2>3. d \o b \in Seq(Lines)
      OBVIOUS
    <2>. QED
      BY <2>2, <2>3
  <1>2. /\ Occurs(t, p, a) /\ Occurs(t, p + Len(a), v)
        /\ p + Len(a) \in Nat \ {0} /\ (p + Len(a)) + Len(v) = p + Len(u)
    <2>1. u = a \o v
      BY <1>1, <1>a
    <2>2. Occurs(t, p, a \o v)
      BY <1>b, <2>1
    <2>3. /\ Occurs(t, p, a) /\ Occurs(t, p + Len(a), v)
          /\ p + Len(a) \in Nat \ {0} /\ (p + Len(a)) + Len(v) = p + Len(a \o v)
      BY <2>2, OccursConcat, SMTT(30)
    <2>. QED
      BY <2>1, <2>3
  <1>3. PICK b \in Seq(Lines) : b = <<l>> /\ Len(b) = 1 /\ b[1] = l
    BY <1>1
  <1>4. PICK d \in Seq(Lines) : d = c
    BY <1>1
  <1>5. a = d \o b
    BY <1>1, <1>3, <1>4
  <1>6. /\ Occurs(t, p, d) /\ Occurs(t, p + Len(d), b)
        /\ p + Len(d) \in Nat \ {0} /\ (p + Len(d)) + Len(b) = p + Len(a)
    BY <1>2, <1>5, OccursConcat
  <1>7. PICK i : i = p + Len(d)
    OBVIOUS
  <1>8. i \in 1 .. Len(t) /\ t[i] = l /\ Len(t) \in Nat /\ i + 1 = p + Len(a)
    <2>1. /\ i + Len(b) \in 1 .. Len(t) + 1 /\ Len(t) \in Nat
          /\ \A k \in 1 .. Len(b) : i + k - 1 \in 1 .. Len(t) /\ t[i + k - 1] = b[k]
      <3>1. Occurs(t, i, b) /\ i \in Nat \ {0}
        BY <1>6, <1>7
      <3>. QED
        BY <3>1, OccursAt, Zenon
    <2>2. 1 \in 1 .. Len(b) /\ i + 1 - 1 = i
      BY <1>3, <1>6, <1>7
    <2>3. i + 1 - 1 \in 1 .. Len(t) /\ t[i + 1 - 1] = b[1]
      BY <2>1, <2>2
    <2>. QED
      BY <1>3, <1>6, <1>7, <2>1, <2>2, <2>3
  <1>9. CASE c = <<>>
    <2>1. Len(d) = 0 /\ i = p
      BY <1>4, <1>7, <1>9
    <2>2. Resume(t, p, i)
      BY <1>8, <2>1 DEF Resume
    <2>3. Occurs(t, i + 1, v) /\ (i + 1) + Len(v) = p + Len(u)
      BY <1>2, <1>8
    <2>. QED
      BY <1>a, <1>2, <1>8, <2>1, <2>2, <2>3 DEF Found
  <1>10. CASE c = <<Blank>>
    <2>1. Len(d) = 1 /\ d[1] = Blank /\ i = p + 1 /\ c # <<>>
      BY <1>4, <1>7, <1>10
    <2>2. p \in 1 .. Len(t) /\ t[p] = d[1]
      <3>1. 1 \in 1 .. Len(d) /\ p + 1 - 1 = p
        BY <2>1
      <3>2. p + 1 - 1 \in 1 .. Len(t) /\ t[p + 1 - 1] = d[1]
        BY <1>6, <3>1, OccursAt, Zenon
      <3>. QED
        BY <3>1, <3>2
    <2>3. t[p].blank
      BY <2>1, <2>2, LinesAre
    <2>4. Resume(t, p, i)
      BY <1>8, <2>1, <2>2, <2>3 DEF Resume
    <2>5. Occurs(t, i + 1, v) /\ (i + 1) + Len(v) = p + Len(u)
      BY <1>2, <1>8
    <2>. QED
      BY <1>a, <1>2, <1>8, <2>1, <2>4, <2>5 DEF Found
  <1>. QED
    BY <1>b, <1>9, <1>10

\* The lines of a field.
LEMMA FieldLinesAre ==
  ASSUME NEW s, Supported(s), NEW f \in Fielded, NEW first \in BOOLEAN
  PROVE  LET indent == IF first THEN 2 ELSE 4
             c == IF first THEN <<>> ELSE Comment(s, "fields")
         IN  /\ f[2][1] = "word" =>
                  FieldLines(s, f, first) = (c \o <<Line(indent, first, f[1], f[2])>>) \o <<>>
             /\ f[2][1] = "list" =>
                  FieldLines(s, f, first) =
                    (c \o <<Line(indent, first, f[1], Nothing)>>) \o Elements(f[2][2])
  <1> DEFINE indent == IF first THEN 2 ELSE 4
  <1>1. PICK c \in Remarks : c = IF first THEN <<>> ELSE Comment(s, "fields")
    BY CommentIs DEF Remarks
  <1>2. f[2] \in Rests /\ f[1] \in Names /\ indent \in Nat /\ Nothing \in Rests \union {Nothing}
    BY DEF Fielded
  <1>3. CASE f[2][1] = "word"
    <2>1. PICK l \in Lines : l = Line(indent, first, f[1], f[2])
      BY <1>2, LinesAre
    <2>2. FieldLines(s, f, first) = Append(c, l)
      BY <1>1, <1>3, <2>1 DEF FieldLines
    <2>3. Append(c, l) = (c \o <<l>>) \o <<>>
      BY <1>1, LinesAre DEF Remarks
    <2>. QED
      BY <1>1, <1>3, <2>1, <2>2, <2>3
  <1>4. CASE f[2][1] = "list"
    <2>1. PICK l \in Lines : l = Line(indent, first, f[1], Nothing)
      BY <1>2, LinesAre
    <2>2. ~s.layout.inline /\ Comment(s, "lists") = <<>>
      BY DEF Supported, Comment
    <2>3. FieldLines(s, f, first) = ((c \o <<l>>) \o Comment(s, "lists")) \o Elements(f[2][2])
      BY <1>1, <1>4, <2>1, <2>2, Zenon DEF FieldLines, Elements
    <2>4. (c \o <<l>>) \o <<>> = c \o <<l>>
      BY <1>1, LinesAre DEF Remarks
    <2>. QED
      BY <1>1, <1>4, <2>1, <2>2, <2>3, <2>4
  <1>. QED
    BY <1>2, <1>3, <1>4, RestsAre, Zenon

-----------------------------------------------------------------------------
(* An entity.                                                              *)

\* The lines of a field: the line l, a remark before it and the lines v below it.
Spelled(s, f, first, c, l, v) ==
  /\ FieldLines(s, f, first) = (c \o <<l>>) \o v /\ (first => c = <<>>)
  /\ ~l.blank /\ l.indent = (IF first THEN 2 ELSE 4) /\ l.dash = first /\ l.key = f[1]
  /\ \/ f[2][1] = "word" /\ l.rest = f[2] /\ Len(v) = 0
     \/ f[2][1] = "list" /\ l.rest = Nothing /\ v = Elements(f[2][2]) /\ Len(v) = Len(f[2][2])

\* The lines of a field are a comment, the line of its key and its list.
LEMMA FieldLinesTyped ==
  ASSUME NEW s, Supported(s), NEW f \in Fielded, NEW first \in BOOLEAN
  PROVE  \E c \in Remarks, l \in Lines, v \in Seq(Lines) : Spelled(s, f, first, c, l, v)
  <1>1. PICK c \in Remarks : c = IF first THEN <<>> ELSE Comment(s, "fields")
    BY CommentIs DEF Remarks
  <1>2. PICK indent \in Nat : indent = IF first THEN 2 ELSE 4
    OBVIOUS
  <1>3. f[2] \in Rests /\ f[1] \in Names
    BY DEF Fielded
  <1>4. CASE f[2][1] = "word"
    <2>1. PICK l \in Lines : l = Line(indent, first, f[1], f[2])
      BY <1>3, LinesAre
    <2>2. ~l.blank /\ l.indent = indent /\ l.dash = first /\ l.key = f[1] /\ l.rest = f[2]
      BY <1>3, <2>1, LinesAre
    <2>3. FieldLines(s, f, first) = (c \o <<l>>) \o <<>>
      BY <1>1, <1>2, <1>4, <2>1, FieldLinesAre, Zenon
    <2>4. <<>> \in Seq(Lines) /\ Len(<<>>) = 0
      OBVIOUS
    <2>. QED
      BY <1>1, <1>2, <1>4, <2>2, <2>3, <2>4 DEF Spelled
  <1>5. CASE f[2][1] = "list"
    <2>1. PICK l \in Lines : l = Line(indent, first, f[1], Nothing)
      BY <1>3, LinesAre
    <2>2. ~l.blank /\ l.indent = indent /\ l.dash = first /\ l.key = f[1] /\ l.rest = Nothing
      BY <1>3, <2>1, LinesAre
    <2>3. f[2][2] \in Seq(Words)
      BY <1>3, <1>5, RestsAre
    <2>4. PICK v \in Seq(Lines) : v = Elements(f[2][2]) /\ Len(v) = Len(f[2][2])
      BY <2>3, ElementsAre
    <2>5. FieldLines(s, f, first) = (c \o <<l>>) \o v
      BY <1>1, <1>2, <1>5, <2>1, <2>4, FieldLinesAre, Zenon
    <2>. QED
      BY <1>1, <1>2, <1>5, <2>2, <2>4, <2>5 DEF Spelled
  <1>. QED
    BY <1>3, <1>4, <1>5, RestsAre, Zenon

\* They are lines.
LEMMA FieldLinesSeq ==
  ASSUME NEW s, Supported(s), NEW f \in Fielded, NEW first \in BOOLEAN
  PROVE  FieldLines(s, f, first) \in Seq(Lines)
  <1>1. PICK c \in Remarks, l \in Lines, v \in Seq(Lines) : Spelled(s, f, first, c, l, v)
    BY FieldLinesTyped, Zenon
  <1>2. <<Blank>> \in Seq(Lines) /\ <<>> \in Seq(Lines) /\ <<l>> \in Seq(Lines)
    BY LinesAre
  <1>3. PICK d \in Seq(Lines), b \in Seq(Lines) : d = c /\ b = <<l>>
    BY <1>2 DEF Remarks
  <1>4. (d \o b) \o v \in Seq(Lines)
    OBVIOUS
  <1>. QED
    BY <1>1, <1>3, <1>4 DEF Spelled

\* The field f begins in line i, and ends before line j.
Begins(t, p, f, first, j, i) ==
  /\ Resume(t, p, i) /\ Stands(t, i, f, j)
  /\ t[i].indent = (IF first THEN 2 ELSE 4) /\ t[i].dash = first
  /\ (first => i = p)

\* A field whose lines occur in a text stands there.
LEMMA FieldStands ==
  ASSUME NEW t \in Seq(Lines), NEW s, Supported(s), NEW f \in Fielded, NEW first \in BOOLEAN,
         NEW p \in Nat \ {0}, Occurs(t, p, FieldLines(s, f, first))
  PROVE  \E i : Begins(t, p, f, first, p + Len(FieldLines(s, f, first)), i)
  <1>1. PICK c \in Remarks, l \in Lines, v \in Seq(Lines) : Spelled(s, f, first, c, l, v)
    BY FieldLinesTyped, Zenon
  <1>2. PICK u : u = FieldLines(s, f, first)
    OBVIOUS
  <1>3. u = (c \o <<l>>) \o v /\ Occurs(t, p, (c \o <<l>>) \o v) /\ l.indent < 6 /\ ~l.blank
    BY <1>1, <1>2 DEF Spelled
  <1>4. PICK i : Found(t, p, c, l, v, i)
    BY <1>3, Introduced, Zenon
  <1>5. Stands(t, i, f, p + Len(u))
    <2>1. CASE f[2][1] = "word" /\ l.rest = f[2] /\ Len(v) = 0
      <3>1. p + Len(u) = i + 1
        BY <1>3, <1>4, <2>1 DEF Found
      <3>. QED
        BY <1>1, <1>4, <2>1, <3>1 DEF Stands, Spelled, Found
    <2>2. CASE /\ f[2][1] = "list" /\ l.rest = Nothing /\ v = Elements(f[2][2])
               /\ Len(v) = Len(f[2][2])
      <3>1. p + Len(u) = (i + 1) + Len(f[2][2])
        BY <1>3, <1>4, <2>2 DEF Found
      <3>. QED
        BY <1>1, <1>4, <2>2, <3>1 DEF Stands, Spelled, Found
    <2>. QED
      BY <1>1, <2>1, <2>2 DEF Spelled
  <1>. QED
    BY <1>1, <1>2, <1>4, <1>5 DEF Spelled, Found, Begins

\* The fields of an entity after its first m, as they are meant.
FieldsFrom(e, m) ==
  [k \in {e[i][1] : i \in m + 1 .. Len(e)} |-> Meant(e[CHOOSE i \in DOMAIN e : e[i][1] = k][2])]

\* An entity is a sequence of fields, no two of the same key.
LEMMA EntityIs ==
  ASSUME NEW e \in Entities
  PROVE  /\ e \in Seq(Fielded) /\ Len(e) \in Nat \ {0} /\ DOMAIN e = 1 .. Len(e)
         /\ \A i, j \in 1 .. Len(e) : e[i][1] = e[j][1] => i = j
         /\ \A i \in 1 .. Len(e) : e[i] \in Fielded
  <1>1. /\ e \in Seq(Fielded) /\ e # <<>>
        /\ \A i, j \in DOMAIN e : e[i][1] = e[j][1] => i = j
    BY DEF Entities, Fielded
  <1>2. DOMAIN e = 1 .. Len(e) /\ Len(e) \in Nat \ {0} /\ \A i \in 1 .. Len(e) : e[i] \in Fielded
    BY <1>1
  <1>. QED
    BY <1>1, <1>2

\* The fields from one on are that field with those that follow, and all of them
\* are the entity that is meant.
LEMMA FieldsFromStep ==
  ASSUME NEW e \in Entities
  PROVE  /\ FieldsFrom(e, Len(e)) = NoFields
         /\ \A m \in 1 .. Len(e) :
              FieldsFrom(e, m - 1) = With(FieldsFrom(e, m), e[m][1], Meant(e[m][2]))
         /\ Object(FieldsFrom(e, 0)) = MeantEntity(e)
  <1>1. /\ Len(e) \in Nat \ {0} /\ DOMAIN e = 1 .. Len(e)
        /\ \A i, j \in 1 .. Len(e) : e[i][1] = e[j][1] => i = j
    BY EntityIs
  <1>2. FieldsFrom(e, Len(e)) = NoFields
    <2>1. {e[i][1] : i \in Len(e) + 1 .. Len(e)} = {}
      BY <1>1
    <2>. QED
      BY <2>1 DEF FieldsFrom, NoFields
  <1>3. ASSUME NEW m \in 1 .. Len(e)
        PROVE  FieldsFrom(e, m - 1) = With(FieldsFrom(e, m), e[m][1], Meant(e[m][2]))
    <2>1. PICK D : D = {e[i][1] : i \in m + 1 .. Len(e)}
      OBVIOUS
    <2>2. {e[i][1] : i \in (m - 1) + 1 .. Len(e)} = D \union {e[m][1]}
      BY <1>1, <2>1
    <2>3. e[m][1] \notin D
      BY <1>1, <2>1
    <2>4. (CHOOSE i \in DOMAIN e : e[i][1] = e[m][1]) = m
      <3>1. \A i \in DOMAIN e : e[i][1] = e[m][1] => i = m
        BY <1>1
      <3>2. m \in DOMAIN e
        BY <1>1
      <3>. QED
        BY <3>1, <3>2
    <2>5. FieldsFrom(e, m) = [k \in D |-> Meant(e[CHOOSE i \in DOMAIN e : e[i][1] = k][2])]
      BY <2>1 DEF FieldsFrom
    <2>6. FieldsFrom(e, m - 1) =
            [k \in D \union {e[m][1]} |-> Meant(e[CHOOSE i \in DOMAIN e : e[i][1] = k][2])]
      BY <2>2, Zenon DEF FieldsFrom
    <2>7. With(FieldsFrom(e, m), e[m][1], Meant(e[m][2])) =
            [k \in D \union {e[m][1]} |-> Meant(e[CHOOSE i \in DOMAIN e : e[i][1] = k][2])]
      <3>1. DOMAIN FieldsFrom(e, m) = D
        BY <2>5
      <3>2. With(FieldsFrom(e, m), e[m][1], Meant(e[m][2])) =
              [k \in D \union {e[m][1]} |->
                 IF k \in D THEN FieldsFrom(e, m)[k] ELSE Meant(e[m][2])]
        BY <3>1, Zenon DEF With
      <3>3. ASSUME NEW k \in D \union {e[m][1]}
            PROVE  (IF k \in D THEN FieldsFrom(e, m)[k] ELSE Meant(e[m][2])) =
                     Meant(e[CHOOSE i \in DOMAIN e : e[i][1] = k][2])
        <4>1. CASE k \in D
          BY <2>5, <4>1
        <4>2. CASE k \notin D
          <5>1. k = e[m][1]
            BY <4>2
          <5>. QED
            BY <2>4, <4>2, <5>1
        <4>. QED
          BY <4>1, <4>2
      <3>. QED
        BY <3>2, <3>3
    <2>. QED
      BY <2>6, <2>7
  <1>4. Object(FieldsFrom(e, 0)) = MeantEntity(e)
    <2>1. {e[i][1] : i \in 0 + 1 .. Len(e)} = {e[i][1] : i \in DOMAIN e}
      BY <1>1
    <2>2. FieldsFrom(e, 0) =
            [k \in {e[i][1] : i \in DOMAIN e} |-> Meant(e[CHOOSE i \in DOMAIN e : e[i][1] = k][2])]
      BY <2>1, Zenon DEF FieldsFrom
    <2>. QED
      BY <2>2, Zenon DEF MeantEntity
  <1>. QED
    BY <1>2, <1>3, <1>4

\* The lines of the fields of an entity.
Spread(s, e) == [i \in DOMAIN e |-> FieldLines(s, e[i], i = 1)]

\* The lines of an entity, field by field.
LEMMA SpreadIs ==
  ASSUME NEW s, Supported(s), NEW e \in Entities
  PROVE  /\ Spread(s, e) \in Seq(Seq(Lines)) /\ Len(Spread(s, e)) = Len(e)
         /\ \A k \in 1 .. Len(e) : Spread(s, e)[k] = FieldLines(s, e[k], k = 1)
         /\ EntityLines(s, e) = Comment(s, "entities") \o FlattenSeq(Spread(s, e))
  <1>1. /\ Len(e) \in Nat \ {0} /\ DOMAIN e = 1 .. Len(e)
        /\ \A k \in 1 .. Len(e) : e[k] \in Fielded
    BY EntityIs
  <1>2. PICK g : g = Spread(s, e)
    OBVIOUS
  <1>3. g = [k \in 1 .. Len(e) |-> FieldLines(s, e[k], k = 1)]
    BY <1>1, <1>2 DEF Spread
  <1>4. ASSUME NEW k \in 1 .. Len(e) PROVE FieldLines(s, e[k], k = 1) \in Seq(Lines)
    <2>1. PICK f \in Fielded, first \in BOOLEAN : f = e[k] /\ first = (k = 1)
      BY <1>1
    <2>2. FieldLines(s, f, first) \in Seq(Lines)
      BY FieldLinesSeq
    <2>. QED
      BY <2>1, <2>2
  <1>5. g \in Seq(Seq(Lines)) /\ Len(g) = Len(e)
    <2>1. \A k \in 1 .. Len(e) : g[k] \in Seq(Lines)
      BY <1>3, <1>4
    <2>2. g = [k \in 1 .. Len(e) |-> g[k]]
      BY <1>3
    <2>. QED
      BY <1>1, <2>1, <2>2, IsSequence
  <1>6. EntityLines(s, e) = Comment(s, "entities") \o FlattenSeq(Spread(s, e))
    BY DEF EntityLines, Spread
  <1>. QED
    BY <1>2, <1>3, <1>5, <1>6

\* Where the fields of an entity begin, in lines q[1], q[2] and so on.
Placed(t, e, p, q, z) ==
  /\ q[1] = p[0] /\ Resume(t, p[Len(e)], z)
  /\ \A k \in 1 .. Len(e) :
       /\ Resume(t, p[k - 1], q[k]) /\ Stands(t, q[k], e[k], p[k])
       /\ t[q[k]].indent = (IF k = 1 THEN 2 ELSE 4) /\ t[q[k]].dash = (k = 1)

\* An entity is read, from its first line on.
LEMMA FieldsRead ==
  ASSUME NEW t \in Seq(Lines), NEW e \in Entities, NEW p, NEW q, NEW z, Placed(t, e, p, q, z),
         z = Len(t) + 1 \/ t[z].indent <= 2
  PROVE  FieldAnd(Parser(t), t, q[1], 2, 2) = At(FieldsFrom(e, 0), z)
  <1> DEFINE n == Len(e)
             after(m) == IF m = n THEN z ELSE q[m + 1]
             S == {m \in 0 .. n :
                     m = 0 \/ Parser(t)[<<"fields", after(m), 2>>] = At(FieldsFrom(e, m), z)}
  <1>1. n \in Nat \ {0} /\ \A k \in 1 .. n : e[k] \in Fielded
    BY EntityIs
  <1>2. /\ FieldsFrom(e, n) = NoFields
        /\ \A m \in 1 .. n : FieldsFrom(e, m - 1) = With(FieldsFrom(e, m), e[m][1], Meant(e[m][2]))
    BY FieldsFromStep
  <1>3. n \in S
    <2>1. z \in 1 .. Len(t) + 1 /\ (z = Len(t) + 1 \/ (~t[z].blank /\ t[z].indent <= 2))
      BY DEF Placed, Resume
    <2>2. Parser(t)[<<"fields", z, 2>>] = At(NoFields, z)
      <3>1. PICK base \in Nat : base = 2
        OBVIOUS
      <3>2. Parser(t)[<<"fields", z, base>>] = At(NoFields, z)
        BY <2>1, <3>1, FieldsStop
      <3>. QED
        BY <3>1, <3>2
    <2>. QED
      BY <1>1, <1>2, <2>2
  <1>4. ASSUME NEW m \in 1 .. n, NEW above \in 0 .. 5,
               Parser(t)[<<"fields", after(m), 2>>] = At(FieldsFrom(e, m), z)
        PROVE  FieldAnd(Parser(t), t, q[m], 2, above) = At(FieldsFrom(e, m - 1), z)
    <2>a. PICK f \in Fielded : f = e[m]
      BY <1>1
    <2>b. PICK i, j, g, a : i = q[m] /\ j = p[m] /\ a = after(m) /\ g = FieldsFrom(e, m)
      OBVIOUS
    <2>1. i = q[m] /\ j = p[m] /\ f = e[m] /\ a = after(m) /\ g = FieldsFrom(e, m)
      BY <2>a, <2>b
    <2>2. Stands(t, i, f, j)
      BY <2>1 DEF Placed
    <2>3. Resume(t, j, a)
      <3>1. CASE m = n
        BY <2>1, <3>1 DEF Placed
      <3>2. CASE m # n
        <4>1. m + 1 \in 1 .. n /\ (m + 1) - 1 = m
          BY <1>1, <3>2
        <4>2. Resume(t, p[(m + 1) - 1], q[m + 1])
          BY <4>1 DEF Placed
        <4>. QED
          BY <2>1, <3>2, <4>1, <4>2
      <3>. QED
        BY <3>1, <3>2
    <2>4. PICK base \in Nat : base = 2
      OBVIOUS
    <2>5. Parser(t)[<<"fields", a, base>>] = At(g, z)
      BY <1>4, <2>1, <2>4
    <2>6. FieldAnd(Parser(t), t, i, base, above) = At(With(g, f[1], Meant(f[2])), z)
      BY <2>2, <2>3, <2>5, FieldAndRead
    <2>. QED
      BY <1>2, <2>1, <2>4, <2>6
  <1>5. ASSUME NEW m \in 1 .. n, m \in S PROVE m - 1 \in S
    <2>1. CASE m = 1
      BY <1>1, <2>1
    <2>2. CASE m # 1
      <3>1. after(m - 1) = q[m] /\ m - 1 \in 0 .. n
        BY <1>1
      <3>2. PICK i : i = q[m]
        OBVIOUS
      <3>3. /\ i \in 1 .. Len(t) /\ ~t[i].blank /\ t[i].key # NoKey /\ t[i].indent = 4 /\ ~t[i].dash
            /\ Len(t) \in Nat
        <4>1. Stands(t, i, e[m], p[m]) /\ t[i].indent = 4 /\ ~t[i].dash
          BY <2>2, <3>2 DEF Placed
        <4>2. e[m][1] # NoKey
          BY <1>1 DEF Fielded
        <4>. QED
          BY <4>1, <4>2 DEF Stands
      <3>4. PICK P : P = Parser(t)
        OBVIOUS
      <3>5. P[<<"fields", i, 2>>] = Fields(P, t, i, 2)
        <4>1. i \in 1 .. Len(t) + 1
          BY <3>3
        <4>. QED
          BY <3>4, <4>1, ParserCalls
      <3>6. Fields(P, t, i, 2) = FieldAnd(P, t, i, 2, 4)
        <4>1. ~(i > Len(t)) /\ ~(t[i].indent <= 2)
          BY <3>3
        <4>. QED
          BY <3>3, <4>1, Zenon DEF Fields
      <3>7. FieldAnd(P, t, i, 2, 4) = At(FieldsFrom(e, m - 1), z)
        BY <1>4, <1>5, <2>2, <3>2, <3>4
      <3>. QED
        BY <3>1, <3>2, <3>4, <3>5, <3>6, <3>7
    <2>. QED
      BY <2>1, <2>2
  <1>6. \A m \in 0 .. n : m \in S
    <2> HIDE DEF S, n
    <2>. QED
      BY <1>1, <1>3, <1>5, ReachesDown
  <1>7. 1 \in 0 .. n /\ 1 \in 1 .. n /\ 1 - 1 = 0 /\ 2 \in 0 .. 5
    BY <1>1
  <1>8. Parser(t)[<<"fields", after(1), 2>>] = At(FieldsFrom(e, 1), z)
    <2>1. 1 \in S
      <3> HIDE DEF S
      <3>. QED
        BY <1>6, <1>7
    <2>. QED
      BY <2>1
  <1> HIDE DEF after
  <1>. QED
    BY <1>4, <1>7, <1>8

\* They are lines.
LEMMA EntityLinesSeq ==
  ASSUME NEW s, Supported(s), NEW e \in Entities
  PROVE  EntityLines(s, e) \in Seq(Lines) /\ FlattenSeq(Spread(s, e)) \in Seq(Lines)
  <1>1. PICK ss \in Seq(Seq(Lines)) : ss = Spread(s, e)
    <2>1. Spread(s, e) \in Seq(Seq(Lines))
      BY SpreadIs, Zenon
    <2>. QED
      BY <2>1
  <1>2. FlattenSeq(ss) \in Seq(Lines)
    <2>1. PICK f \in [0 .. Len(ss) -> Seq(Lines)] : f[Len(ss)] = FlattenSeq(ss)
      BY Flattened, Zenon
    <2>2. Len(ss) \in 0 .. Len(ss)
      OBVIOUS
    <2>3. f[Len(ss)] \in Seq(Lines)
      BY <2>2
    <2>. QED
      BY <2>1, <2>3
  <1>3. PICK u \in Seq(Lines) : u = FlattenSeq(ss)
    BY <1>2
  <1>4. <<Blank>> \in Seq(Lines) /\ <<>> \in Seq(Lines)
    BY LinesAre
  <1>5. PICK c \in Seq(Lines) : c = Comment(s, "entities")
    BY <1>4, CommentIs DEF Remarks
  <1>6. c \o u \in Seq(Lines)
    OBVIOUS
  <1>7. EntityLines(s, e) = Comment(s, "entities") \o FlattenSeq(Spread(s, e))
    BY SpreadIs, Zenon
  <1>8. EntityLines(s, e) = c \o u
    BY <1>1, <1>3, <1>5, <1>7
  <1>. QED
    BY <1>1, <1>3, <1>6, <1>8

\* The fields of an entity whose lines occur in a text are placed there.
LEMMA EntityPlaced ==
  ASSUME NEW t \in Seq(Lines), NEW s, Supported(s), NEW e \in Entities, NEW o \in Nat \ {0},
         Occurs(t, o, EntityLines(s, e)), NEW z, Resume(t, o + Len(EntityLines(s, e)), z)
  PROVE  \E p, q : Placed(t, e, p, q, z) /\ Resume(t, o, q[1])
  <1>1. /\ Len(e) \in Nat \ {0} /\ DOMAIN e = 1 .. Len(e)
        /\ \A k \in 1 .. Len(e) : e[k] \in Fielded
    BY EntityIs
  <1>2. PICK ss \in Seq(Seq(Lines)) :
          /\ ss = Spread(s, e) /\ Len(ss) = Len(e)
          /\ \A k \in 1 .. Len(e) : ss[k] = FieldLines(s, e[k], k = 1)
          /\ EntityLines(s, e) = Comment(s, "entities") \o FlattenSeq(ss)
    <2>1. /\ Spread(s, e) \in Seq(Seq(Lines)) /\ Len(Spread(s, e)) = Len(e)
          /\ \A k \in 1 .. Len(e) : Spread(s, e)[k] = FieldLines(s, e[k], k = 1)
          /\ EntityLines(s, e) = Comment(s, "entities") \o FlattenSeq(Spread(s, e))
      BY SpreadIs, Zenon
    <2>. QED
      BY <2>1
  <1>3. PICK u \in Seq(Lines) : u = FlattenSeq(ss)
    BY <1>2, EntityLinesSeq
  <1>4. PICK c \in Seq(Lines) : c = Comment(s, "entities") /\ c \in {<<>>, <<Blank>>}
    <2>1. <<Blank>> \in Seq(Lines) /\ <<>> \in Seq(Lines)
      BY LinesAre
    <2>. QED
      BY <2>1, CommentIs DEF Remarks
  <1>5. Occurs(t, o, c \o u)
    BY <1>2, <1>3, <1>4
  <1>6. /\ Occurs(t, o, c) /\ Occurs(t, o + Len(c), u)
        /\ o + Len(c) \in Nat \ {0} /\ (o + Len(c)) + Len(u) = o + Len(c \o u)
    BY <1>5, OccursConcat
  <1>7. PICK i \in Nat \ {0} : i = o + Len(c)
    BY <1>6
  <1>8. Occurs(t, i, FlattenSeq(ss))
    BY <1>3, <1>6, <1>7
  <1>a. PICK p \in [0 .. Len(ss) -> Nat \ {0}] : Laid(t, i, ss, p)
    BY <1>8, FlatPositions, Zenon
  <1>9. /\ p[0] = i /\ p[Len(ss)] = i + Len(FlattenSeq(ss))
          /\ \A k \in 1 .. Len(ss) : Occurs(t, p[k - 1], ss[k]) /\ p[k] = p[k - 1] + Len(ss[k])
    BY <1>a DEF Laid
  <1> DEFINE Field(k, j) == Begins(t, p[k - 1], e[k], k = 1, p[k], j)
             q == [k \in 1 .. Len(e) |-> CHOOSE j : Field(k, j)]
  <1>10. ASSUME NEW k \in 1 .. Len(e) PROVE \E j : Field(k, j)
    <2>1. PICK f \in Fielded, first \in BOOLEAN, b \in Nat \ {0} :
            f = e[k] /\ first = (k = 1) /\ b = p[k - 1]
      <3>1. p[k - 1] \in Nat \ {0}
        <4>1. k - 1 \in 0 .. Len(ss)
          BY <1>1, <1>2
        <4>. QED
          BY <4>1
      <3>. QED
        BY <1>1, <3>1
    <2>2. /\ Occurs(t, b, FieldLines(s, f, first))
          /\ p[k] = b + Len(FieldLines(s, f, first))
      <3>1. k \in 1 .. Len(ss)
        BY <1>2
      <3>2. Occurs(t, b, ss[k]) /\ p[k] = b + Len(ss[k])
        BY <1>9, <2>1, <3>1
      <3>. QED
        BY <1>2, <2>1, <3>2
    <2>3. PICK j : Begins(t, b, f, first, b + Len(FieldLines(s, f, first)), j)
      BY <2>2, FieldStands, Zenon
    <2>. QED
      BY <2>1, <2>2, <2>3
  <1>11. \A k \in 1 .. Len(e) : Field(k, q[k])
    <2> HIDE DEF Field
    <2>. QED
      BY <1>10
  <1>12. q[1] = p[0] /\ q[1] = i /\ 1 \in 1 .. Len(e)
    <2>1. 1 \in 1 .. Len(e) /\ 1 - 1 = 0
      BY <1>1
    <2> HIDE DEF q
    <2>2. Begins(t, p[1 - 1], e[1], 1 = 1, p[1], q[1])
      BY <1>11, <2>1
    <2>. QED
      BY <1>9, <2>1, <2>2 DEF Begins
  <1>13. p[Len(e)] = o + Len(EntityLines(s, e))
    BY <1>2, <1>3, <1>4, <1>6, <1>7, <1>9
  <1>14. Placed(t, e, p, q, z)
    <2> HIDE DEF q
    <2>. QED
      BY <1>11, <1>12, <1>13 DEF Placed, Begins
  <1>15. Resume(t, o, i)
    <2>1. /\ i \in 1 .. Len(t) /\ ~t[i].blank /\ t[i].indent < 6 /\ Len(t) \in Nat
      <3>1. Field(1, i)
        <4> HIDE DEF Field, q
        <4>. QED
          BY <1>11, <1>12
      <3>. QED
        BY <3>1 DEF Stands, Begins
    <2>2. CASE c = <<>>
      <3>1. Len(c) = 0
        BY <2>2
      <3>. QED
        BY <1>7, <2>1, <3>1 DEF Resume
    <2>3. CASE c = <<Blank>>
      <3>1. Len(c) = 1 /\ c[1] = Blank
        BY <2>3
      <3>2. o \in 1 .. Len(t) /\ t[o] = c[1]
        <4>1. 1 \in 1 .. Len(c) /\ o + 1 - 1 = o /\ i = o + 1
          BY <1>7, <3>1
        <4>2. t[o + 1 - 1] = c[1]
          BY <1>6, <4>1 DEF Occurs
        <4>. QED
          BY <2>1, <4>1, <4>2
      <3>3. t[o].blank
        BY <3>1, <3>2, LinesAre
      <3>. QED
        BY <1>7, <2>1, <3>1, <3>2, <3>3 DEF Resume
    <2>. QED
      BY <1>4, <2>2, <2>3
  <1>. QED
    <2> HIDE DEF q
    <2>. QED
      BY <1>12, <1>14, <1>15

\* The entity e is read from line i on, up to line z.
Opens(t, i, e, z) ==
  /\ i \in 1 .. Len(t) /\ ~t[i].blank /\ t[i].dash /\ t[i].indent = 2 /\ t[i].key # NoKey
  /\ FieldAnd(Parser(t), t, i, 2, 2) = At(FieldsFrom(e, 0), z)

\* It opens there, behind a comment.
LEMMA EntityOpens ==
  ASSUME NEW t \in Seq(Lines), NEW s, Supported(s), NEW e \in Entities, NEW o \in Nat \ {0},
         Occurs(t, o, EntityLines(s, e)), NEW z, Resume(t, o + Len(EntityLines(s, e)), z),
         z = Len(t) + 1 \/ t[z].indent <= 2
  PROVE  \E i : Resume(t, o, i) /\ Opens(t, i, e, z)
  <1>1. PICK p, q : Placed(t, e, p, q, z) /\ Resume(t, o, q[1])
    BY EntityPlaced, Zenon
  <1>2. FieldAnd(Parser(t), t, q[1], 2, 2) = At(FieldsFrom(e, 0), z)
    BY <1>1, FieldsRead
  <1>3. 1 \in 1 .. Len(e) /\ e[1] \in Fielded
    BY EntityIs
  <1>4. Stands(t, q[1], e[1], p[1]) /\ t[q[1]].indent = 2 /\ t[q[1]].dash
    BY <1>1, <1>3 DEF Placed
  <1>5. e[1][1] # NoKey
    BY <1>3 DEF Fielded
  <1>. QED
    BY <1>1, <1>2, <1>4, <1>5 DEF Opens, Stands

\* An element of the array is read as it is meant, and those below it are put
\* behind.
LEMMA EntityRead ==
  ASSUME NEW t \in Seq(Lines), NEW e \in Entities, NEW i, NEW z, Opens(t, i, e, z),
         NEW g, NEW y, Parser(t)[<<"array", z, 2>>] = At(g, y)
  PROVE  Parser(t)[<<"array", i, 2>>] = At(<<MeantEntity(e)>> \o g, y)
  <1>1. PICK P : P = Parser(t)
    OBVIOUS
  <1>2. P[<<"array", i, 2>>] = ParseArray(P, t, i, 2)
    <2>1. i \in 1 .. Len(t) + 1
      BY DEF Opens
    <2>. QED
      BY <1>1, <2>1, ParserCalls
  <1>3. ParseArray(P, t, i, 2) = ElementAnd(P, t, i, 2)
    <2>1. ~(i > Len(t)) /\ ~(t[i].indent < 2) /\ ~t[i].blank /\ t[i].dash
      BY DEF Opens
    <2>. QED
      BY <2>1, Zenon DEF ParseArray
  <1>4. PICK r : r = ElementObject(P, t, i, 2)
    OBVIOUS
  <1>5. r = At(MeantEntity(e), z)
    <2>1. FieldAnd(P, t, i, 2, 2) = At(FieldsFrom(e, 0), z)
      BY <1>1 DEF Opens
    <2>2. r = At(Object(FieldsFrom(e, 0)), z)
      BY <1>4, <2>1, AtIs DEF ElementObject
    <2>. QED
      BY <2>2, FieldsFromStep
  <1>6. r.value = MeantEntity(e) /\ r.next = z
    BY <1>5, AtIs
  <1>7. t[i].key # NoKey
    BY DEF Opens
  <1>8. ElementAnd(P, t, i, 2) =
          At(<<r.value>> \o P[<<"array", r.next, 2>>].value, P[<<"array", r.next, 2>>].next)
    BY <1>4, <1>7, Zenon DEF ElementAnd
  <1>9. P[<<"array", r.next, 2>>].value = g /\ P[<<"array", r.next, 2>>].next = y
    BY <1>1, <1>6, AtIs
  <1>. QED
    BY <1>1, <1>2, <1>3, <1>6, <1>8, <1>9

-----------------------------------------------------------------------------
(* The entities.                                                           *)

\* The lines of the entities, and what they are meant to be read as.
Written(s) == [i \in DOMAIN s.entities |-> EntityLines(s, s.entities[i])]
MeantEntities(s) == [i \in DOMAIN s.entities |-> MeantEntity(s.entities[i])]

\* The lines of the entities.
LEMMA WrittenIs ==
  ASSUME NEW s, Supported(s), s.entities \in Seq(Entities)
  PROVE  /\ Written(s) \in Seq(Seq(Lines)) /\ Len(Written(s)) = Len(s.entities)
         /\ \A k \in 1 .. Len(s.entities) : Written(s)[k] = EntityLines(s, s.entities[k])
  <1>1. PICK es \in Seq(Entities) : es = s.entities
    OBVIOUS
  <1>2. Len(es) \in Nat /\ DOMAIN es = 1 .. Len(es) /\ \A k \in 1 .. Len(es) : es[k] \in Entities
    OBVIOUS
  <1>3. PICK g : g = Written(s)
    OBVIOUS
  <1>4. g = [k \in 1 .. Len(es) |-> EntityLines(s, es[k])]
    BY <1>1, <1>2, <1>3, Zenon DEF Written
  <1>5. \A k \in 1 .. Len(es) : g[k] = EntityLines(s, es[k]) /\ g[k] \in Seq(Lines)
    BY <1>2, <1>4, EntityLinesSeq
  <1>6. g = [k \in 1 .. Len(es) |-> g[k]]
    BY <1>4
  <1>7. g \in Seq(Seq(Lines)) /\ Len(g) = Len(es)
    BY <1>2, <1>5, <1>6, IsSequence
  <1>. QED
    BY <1>1, <1>3, <1>5, <1>7

\* The entities that are meant.
LEMMA MeantEntitiesAre ==
  ASSUME NEW s, s.entities \in Seq(Entities)
  PROVE  /\ MeantEntities(s) \in Seq({MeantEntity(e) : e \in Entities})
         /\ Len(MeantEntities(s)) = Len(s.entities)
         /\ \A k \in 1 .. Len(s.entities) : MeantEntities(s)[k] = MeantEntity(s.entities[k])
  <1>1. PICK es \in Seq(Entities) : es = s.entities
    OBVIOUS
  <1>2. Len(es) \in Nat /\ DOMAIN es = 1 .. Len(es) /\ \A k \in 1 .. Len(es) : es[k] \in Entities
    OBVIOUS
  <1>3. PICK g, V : g = MeantEntities(s) /\ V = {MeantEntity(e) : e \in Entities}
    OBVIOUS
  <1>4. g = [k \in 1 .. Len(es) |-> MeantEntity(es[k])]
    BY <1>1, <1>2, <1>3, Zenon DEF MeantEntities
  <1>5. \A k \in 1 .. Len(es) : g[k] = MeantEntity(es[k]) /\ g[k] \in V
    BY <1>2, <1>3, <1>4
  <1>6. g = [k \in 1 .. Len(es) |-> g[k]]
    BY <1>4
  <1>7. g \in Seq(V) /\ Len(g) = Len(es)
    BY <1>2, <1>5, <1>6, IsSequence
  <1>. QED
    BY <1>1, <1>3, <1>5, <1>7

\* The line the parser comes to after a blank one or none is the first to count.
LEMMA ResumeIsFirst ==
  ASSUME NEW t \in Seq(Lines), NEW o, NEW z, Resume(t, o, z)
  PROVE  FirstLine(t, o) = z
  <1>1. /\ o \in 1 .. Len(t) + 1 /\ z \in 1 .. Len(t) + 1 /\ Len(t) \in Nat
        /\ o = z \/ (o \in 1 .. Len(t) /\ t[o].blank /\ z = o + 1)
        /\ z = Len(t) + 1 \/ ~t[z].blank
    BY DEF Resume
  <1>2. PICK f : f = FirstLine(t, o)
    OBVIOUS
  <1>3. /\ f \in o .. Len(t) + 1 /\ (f <= Len(t) => ~t[f].blank)
        /\ \A j \in o .. f - 1 : t[j].blank
    BY <1>1, <1>2, FirstLineIs
  <1>4. ~(f < z)
    BY <1>1, <1>3
  <1>5. ~(z < f)
    <2> SUFFICES ASSUME z < f PROVE FALSE
      OBVIOUS
    <2>1. z \in o .. f - 1 /\ z <= Len(t)
      BY <1>1, <1>3
    <2>. QED
      BY <1>1, <1>3, <2>1
  <1>. QED
    BY <1>1, <1>2, <1>3, <1>4, <1>5

\* An array read from the end of a part is read from the line that is not blank.
LEMMA ResumesArray ==
  ASSUME NEW t \in Seq(Lines), NEW o, NEW z, Resume(t, o, z), NEW r,
         Parser(t)[<<"array", z, 2>>] = r
  PROVE  Parser(t)[<<"array", o, 2>>] = r
  <1>1. PICK b \in Nat : b = 2
    OBVIOUS
  <1>2. Parser(t)[<<"array", o, b>>] = Parser(t)[<<"array", z, b>>]
    BY Resumes, Zenon
  <1>. QED
    BY <1>1, <1>2

\* What is read from line o on, after the first m entities.
ReadFrom(t, o, v, m, y) ==
  \E z : /\ Resume(t, o, z)
         /\ z = Len(t) + 1 \/ t[z].indent <= 2
         /\ Parser(t)[<<"array", z, 2>>] = At(Rest(v, m), y)
         /\ m < Len(v) => z \in 1 .. Len(t) /\ t[z].indent = 2 /\ t[z].dash

\* The entities are read to the last one.
LEMMA EntitiesRead ==
  ASSUME NEW t \in Seq(Lines), NEW s, Supported(s), s.entities \in Seq(Entities),
         NEW o \in Nat \ {0}, Occurs(t, o, FlattenSeq(Written(s))),
         NEW y \in 1 .. Len(t) + 1, y = o + Len(FlattenSeq(Written(s))),
         y = Len(t) + 1 \/ (~t[y].blank /\ t[y].indent = 0)
  PROVE  ReadFrom(t, o, MeantEntities(s), 0, y)
  <1>1. PICK es \in Seq(Entities), n \in Nat : es = s.entities /\ n = Len(es)
    OBVIOUS
  <1>2. PICK v \in Seq({MeantEntity(e) : e \in Entities}) :
          v = MeantEntities(s) /\ Len(v) = n /\ \A k \in 1 .. n : v[k] = MeantEntity(es[k])
    BY <1>1, MeantEntitiesAre
  <1>3. PICK ss \in Seq(Seq(Lines)) :
          ss = Written(s) /\ Len(ss) = n /\ \A k \in 1 .. n : ss[k] = EntityLines(s, es[k])
    BY <1>1, WrittenIs
  <1>4. PICK p \in [0 .. Len(ss) -> Nat \ {0}] : Laid(t, o, ss, p)
    <2>1. Occurs(t, o, FlattenSeq(ss))
      BY <1>3
    <2>. QED
      BY <2>1, FlatPositions, Zenon
  <1>5. /\ p[0] = o /\ p[n] = y
        /\ \A k \in 1 .. n : Occurs(t, p[k - 1], ss[k]) /\ p[k] = p[k - 1] + Len(ss[k])
    BY <1>3, <1>4 DEF Laid
  <1>6. \A m \in 1 .. Len(v) : Rest(v, m - 1) = <<v[m]>> \o Rest(v, m)
    BY RestStep
  <1> DEFINE S == {m \in 0 .. n : ReadFrom(t, p[m], v, m, y)}
  <1>7. n \in S
    <2>1. Resume(t, y, y)
      BY DEF Resume
    <2>2. PICK base \in Nat : base = 2
      OBVIOUS
    <2>3. y = Len(t) + 1 \/ (~t[y].blank /\ t[y].indent < base)
      BY <2>2
    <2>4. Parser(t)[<<"array", y, base>>] = At(<<>>, y)
      BY <2>3, ArrayStops
    <2>5. Rest(v, n) = <<>>
      BY <1>2, RestStep
    <2>6. y = Len(t) + 1 \/ t[y].indent <= 2
      OBVIOUS
    <2>7. Parser(t)[<<"array", y, 2>>] = At(Rest(v, n), y) /\ ~(n < Len(v))
      BY <1>2, <2>2, <2>4, <2>5
    <2>8. ReadFrom(t, y, v, n, y)
      BY <2>1, <2>6, <2>7 DEF ReadFrom
    <2>. QED
      BY <1>5, <2>8
  <1>8. ASSUME NEW m \in 1 .. n, m \in S PROVE m - 1 \in S
    <2>1. PICK z : /\ Resume(t, p[m], z)
                   /\ z = Len(t) + 1 \/ t[z].indent <= 2
                   /\ Parser(t)[<<"array", z, 2>>] = At(Rest(v, m), y)
      BY <1>8 DEF ReadFrom
    <2>2. PICK e \in Entities : e = es[m]
      BY <1>1
    <2>3. PICK b \in Nat \ {0} : b = p[m - 1] /\ m - 1 \in 0 .. n
      <3>1. m - 1 \in 0 .. n
        OBVIOUS
      <3>. QED
        BY <1>3, <3>1
    <2>4. Occurs(t, b, EntityLines(s, e)) /\ p[m] = b + Len(EntityLines(s, e))
      BY <1>3, <1>5, <2>2, <2>3
    <2>5. Resume(t, b + Len(EntityLines(s, e)), z)
      BY <2>1, <2>4
    <2>6. PICK i : Resume(t, b, i) /\ Opens(t, i, e, z)
      BY <2>1, <2>4, <2>5, EntityOpens, Zenon
    <2>7. PICK g : g = Rest(v, m)
      OBVIOUS
    <2>8. Parser(t)[<<"array", i, 2>>] = At(<<MeantEntity(e)>> \o g, y)
      BY <2>1, <2>6, <2>7, EntityRead
    <2>9. <<MeantEntity(e)>> \o g = Rest(v, m - 1)
      BY <1>1, <1>2, <1>6, <2>2, <2>7
    <2>10. i \in 1 .. Len(t) /\ t[i].indent = 2 /\ t[i].dash
      BY <2>6 DEF Opens
    <2>11. t[i].indent <= 2 /\ Parser(t)[<<"array", i, 2>>] = At(Rest(v, m - 1), y)
      <3>1. PICK h : h = <<MeantEntity(e)>> \o g
        OBVIOUS
      <3>2. Parser(t)[<<"array", i, 2>>] = At(h, y) /\ h = Rest(v, m - 1)
        BY <2>8, <2>9, <3>1
      <3>. QED
        BY <2>10, <3>2
    <2>12. ReadFrom(t, b, v, m - 1, y)
      BY <2>6, <2>10, <2>11 DEF ReadFrom
    <2>. QED
      BY <2>3, <2>12
  <1>9. \A m \in 0 .. n : m \in S
    <2> HIDE DEF S
    <2>. QED
      BY <1>7, <1>8, ReachesDown
  <1>10. 0 \in S
    BY <1>9
  <1>. QED
    BY <1>2, <1>5, <1>10

\* What the key entities has for its value, and where the reading goes on.
LEMMA EntitiesValue ==
  ASSUME NEW t \in Seq(Lines), NEW s, Supported(s), s.entities \in Seq(Entities),
         NEW o \in Nat \ {0}, Occurs(t, o, FlattenSeq(Written(s))),
         NEW y \in 1 .. Len(t) + 1, y = o + Len(FlattenSeq(Written(s))),
         y = Len(t) + 1 \/ (~t[y].blank /\ t[y].indent = 0)
  PROVE  NestedValue(Parser(t), t, o, 0) = At(Array(MeantEntities(s)), y)
  <1>1. PICK v : v = MeantEntities(s)
    OBVIOUS
  <1>2. /\ Len(v) = Len(s.entities) /\ Len(v) \in Nat /\ v \in Seq({MeantEntity(e) : e \in Entities})
    <2>1. PICK S : S = {MeantEntity(e) : e \in Entities}
      OBVIOUS
    <2>2. v \in Seq(S) /\ Len(v) = Len(s.entities)
      BY <1>1, <2>1, MeantEntitiesAre, Zenon
    <2>3. Len(v) \in Nat
      BY <2>2
    <2>. QED
      BY <2>1, <2>2, <2>3
  <1>3. PICK z : /\ Resume(t, o, z)
                 /\ Parser(t)[<<"array", z, 2>>] = At(Rest(v, 0), y)
                 /\ 0 < Len(v) => z \in 1 .. Len(t) /\ t[z].indent = 2 /\ t[z].dash
    <2>1. ReadFrom(t, o, v, 0, y)
      BY <1>1, EntitiesRead
    <2>. QED
      BY <2>1 DEF ReadFrom
  <1>4. PICK P : P = Parser(t)
    OBVIOUS
  <1>5. PICK f : f = FirstLine(t, o)
    OBVIOUS
  <1>6. CASE v = <<>>
    <2>1. s.entities = <<>>
      BY <1>2, <1>6
    <2>2. Len(FlattenSeq(Written(s))) = 0
      <3>1. Written(s) = <<>>
        BY <2>1 DEF Written
      <3>2. FlattenSeq(<<>>) = <<>>
        BY DEF FlattenSeq
      <3>. QED
        BY <3>1, <3>2
    <2>3. y = o
      BY <2>2
    <2>4. Resume(t, o, o)
      BY <2>3 DEF Resume
    <2>5. f = o
      BY <1>5, <2>4, ResumeIsFirst
    <2>6. NestedValue(P, t, o, 0) = At(Null, o)
      <3>1. CASE f > Len(t)
        BY <1>5, <2>5, <3>1, Zenon DEF NestedValue
      <3>2. CASE ~(f > Len(t))
        <4>1. t[f].indent <= 0
          BY <2>3, <2>5, <3>2
        <4>. QED
          BY <1>5, <3>2, <4>1, Zenon DEF NestedValue
      <3>. QED
        BY <3>1, <3>2
    <2>7. Array(v) = Null
      BY <1>6 DEF Array
    <2>. QED
      BY <1>1, <1>4, <2>3, <2>6, <2>7
  <1>7. CASE v # <<>>
    <2>1. z \in 1 .. Len(t) /\ t[z].indent = 2 /\ t[z].dash
      BY <1>2, <1>3, <1>7
    <2>2. f = z
      BY <1>3, <1>5, ResumeIsFirst
    <2>3. NestedValue(P, t, o, 0) = ArrayAt(P, o, t[f].indent)
      <3>1. ~(f > Len(t)) /\ ~(t[f].indent <= 0) /\ t[f].dash
        BY <2>1, <2>2
      <3>. QED
        BY <1>5, <3>1, Zenon DEF NestedValue
    <2>4. P[<<"array", o, 2>>] = At(v, y)
      <3>1. Resume(t, o, z) /\ Parser(t)[<<"array", z, 2>>] = At(Rest(v, 0), y)
        BY <1>3
      <3>2. Parser(t)[<<"array", o, 2>>] = At(Rest(v, 0), y)
        BY <3>1, ResumesArray
      <3>3. Rest(v, 0) = v
        BY <1>2, RestStep
      <3>. QED
        BY <1>4, <3>2, <3>3
    <2>5. ArrayAt(P, o, 2) = At(Array(v), y)
      BY <2>4, AtIs DEF ArrayAt
    <2>. QED
      BY <1>1, <1>4, <2>1, <2>2, <2>3, <2>5
  <1>. QED
    BY <1>6, <1>7

-----------------------------------------------------------------------------
(* The keys at the left, and the whole text.                               *)

\* Few parts of a text in a row.
LEMMA FlattenFew ==
  ASSUME NEW L, NEW u \in Seq(L), NEW v \in Seq(L)
  PROVE  FlattenSeq(<<>>) = <<>> /\ FlattenSeq(<<u>>) = u /\ FlattenSeq(<<u, v>>) = u \o v
  <1>1. FlattenSeq(<<>>) = <<>>
    BY DEF FlattenSeq
  <1>2. FlattenSeq(<<u>>) = u
    <2>1. PICK ss \in Seq(Seq(L)) : ss = <<u>> /\ Len(ss) = 1 /\ ss[1] = u
      <3>1. PICK A : A = Seq(L)
        OBVIOUS
      <3>2. <<u>> \in Seq(A)
        BY <3>1
      <3>. QED
        BY <3>1, <3>2
    <2>2. PICK f \in [0 .. Len(ss) -> Seq(L)] :
             /\ f[0] = <<>> /\ f[Len(ss)] = FlattenSeq(ss)
             /\ \A k \in 1 .. Len(ss) : f[k] = f[k - 1] \o ss[k]
      BY Flattened, Zenon
    <2>3. 1 \in 1 .. Len(ss) /\ 1 - 1 = 0
      BY <2>1
    <2>4. f[1] = <<>> \o u
      BY <2>1, <2>2, <2>3
    <2>5. <<>> \o u = u
      OBVIOUS
    <2>. QED
      BY <2>1, <2>2, <2>4, <2>5
  <1>3. FlattenSeq(<<u, v>>) = u \o v
    <2>1. PICK ss \in Seq(Seq(L)) : ss = <<u, v>> /\ Len(ss) = 2 /\ ss[1] = u /\ ss[2] = v
      <3>1. PICK A : A = Seq(L)
        OBVIOUS
      <3>2. <<u, v>> \in Seq(A)
        BY <3>1
      <3>. QED
        BY <3>1, <3>2
    <2>2. PICK f \in [0 .. Len(ss) -> Seq(L)] :
             /\ f[0] = <<>> /\ f[Len(ss)] = FlattenSeq(ss)
             /\ \A k \in 1 .. Len(ss) : f[k] = f[k - 1] \o ss[k]
      BY Flattened, Zenon
    <2>3. 1 \in 1 .. Len(ss) /\ 1 - 1 = 0 /\ 2 \in 1 .. Len(ss) /\ 2 - 1 = 1
      BY <2>1
    <2>4. f[1] = <<>> \o u /\ f[2] = f[1] \o v
      BY <2>1, <2>2, <2>3
    <2>5. <<>> \o u = u
      OBVIOUS
    <2>. QED
      BY <2>1, <2>2, <2>4, <2>5
  <1>. QED
    BY <1>1, <1>2, <1>3

\* A text ends where no more is read.
LEMMA ObjectEnds ==
  ASSUME NEW t \in Seq(Lines), NEW i, i = Len(t) + 1, NEW base \in Nat
  PROVE  Parser(t)[<<"object", i, base>>] = At(NoFields, i)
  <1>1. i \in 1 .. Len(t) + 1 /\ i > Len(t)
    OBVIOUS
  <1>2. PICK P : P = Parser(t)
    OBVIOUS
  <1>3. P[<<"object", i, base>>] = ParseObject(P, t, i, base)
    BY <1>1, <1>2, ParserCalls
  <1>4. ParseObject(P, t, i, base) = At(NoFields, i)
    BY <1>1, Zenon DEF ParseObject
  <1>. QED
    BY <1>2, <1>3, <1>4

\* What follows the key in line i is read as v, and the reading goes on in line j.
ReadsAs(t, i, base, v, j) ==
  \/ t[i].rest = Nothing /\ NestedValue(Parser(t), t, i + 1, base) = At(v, j)
  \/ t[i].rest # Nothing /\ v = Meant(t[i].rest) /\ j = i + 1 /\ t[i].rest[1] \in {"word", "list"}

\* A key of an object, given what is read for its value and what is read from below.
LEMMA KeyRead ==
  ASSUME NEW t \in Seq(Lines), NEW i \in 1 .. Len(t), NEW base \in Nat,
         ~t[i].blank, t[i].indent = base, ~t[i].dash, t[i].key # NoKey, NEW v, NEW j,
         ReadsAs(t, i, base, v, j), NEW g, NEW z, Parser(t)[<<"object", j, base>>] = At(g, z)
  PROVE  Parser(t)[<<"object", i, base>>] = At(With(g, t[i].key, v), z)
  <1>1. PICK P : P = Parser(t)
    OBVIOUS
  <1>2. P[<<"object", i, base>>] = ParseObject(P, t, i, base)
    <2>1. i \in 1 .. Len(t) + 1
      OBVIOUS
    <2>. QED
      BY <1>1, <2>1, ParserCalls
  <1>3. PICK r : r = IF t[i].rest = Nothing THEN NestedValue(P, t, i + 1, t[i].indent)
                     ELSE IF t[i].rest[1] = "list"
                     THEN At(Array([k \in DOMAIN t[i].rest[2] |-> Scalar(t[i].rest[2][k])]), i + 1)
                     ELSE At(ScalarOf(t[i].rest), i + 1)
    OBVIOUS
  <1>4. r = At(v, j)
    <2>1. CASE t[i].rest = Nothing
      BY <1>1, <1>3, <2>1 DEF ReadsAs
    <2>2. CASE t[i].rest # Nothing /\ t[i].rest[1] = "list"
      <3>1. Meant(t[i].rest) = Array([k \in DOMAIN t[i].rest[2] |-> Scalar(t[i].rest[2][k])])
        BY <2>2 DEF Meant
      <3>2. r = At(Array([k \in DOMAIN t[i].rest[2] |-> Scalar(t[i].rest[2][k])]), i + 1)
        BY <1>3, <2>2, Zenon
      <3>. QED
        BY <2>2, <3>1, <3>2 DEF ReadsAs
    <2>3. CASE t[i].rest # Nothing /\ t[i].rest[1] = "word"
      <3>1. Meant(t[i].rest) = ScalarOf(t[i].rest)
        BY <2>3 DEF Meant, ScalarOf
      <3>2. t[i].rest[1] # "list"
        BY <2>3
      <3>3. r = At(ScalarOf(t[i].rest), i + 1)
        BY <1>3, <2>3, <3>2, Zenon
      <3>. QED
        BY <2>3, <3>1, <3>3 DEF ReadsAs
    <2>. QED
      BY <2>1, <2>2, <2>3 DEF ReadsAs
  <1>5. r.value = v /\ r.next = j
    BY <1>4, AtIs
  <1>6. ~(i > Len(t)) /\ ~(t[i].indent < base)
    OBVIOUS
  <1>7. PICK k : k = IF t[i].dash THEN "- " \o t[i].key ELSE t[i].key
    OBVIOUS
  <1>8. k = t[i].key
    BY <1>7
  <1>9. ParseObject(P, t, i, base) =
          At(With(P[<<"object", r.next, base>>].value, k, r.value), P[<<"object", r.next, base>>].next)
    BY <1>3, <1>6, <1>7, Zenon DEF ParseObject
  <1>10. P[<<"object", r.next, base>>].value = g /\ P[<<"object", r.next, base>>].next = z
    BY <1>1, <1>5, AtIs
  <1>. QED
    BY <1>1, <1>2, <1>5, <1>8, <1>9, <1>10

HeadLine == Line(0, FALSE, "entities", Nothing)
TagsLine == Line(0, FALSE, "tags", List(Tags))
AboutLine == Line(0, FALSE, "about", Nothing)
NameLine == Line(2, FALSE, "name", Word(Declare))

\* The parts of the lines at the left.
LEMMA TopLinesAre ==
  /\ HeadLine \in Lines /\ ~HeadLine.blank /\ HeadLine.indent = 0 /\ ~HeadLine.dash
  /\ HeadLine.key = "entities" /\ HeadLine.rest = Nothing
  /\ TagsLine \in Lines /\ ~TagsLine.blank /\ TagsLine.indent = 0 /\ ~TagsLine.dash
  /\ TagsLine.key = "tags" /\ TagsLine.rest = List(Tags)
  /\ TagsLine.rest[1] = "list" /\ TagsLine.rest # Nothing
  /\ AboutLine \in Lines /\ ~AboutLine.blank /\ AboutLine.indent = 0 /\ ~AboutLine.dash
  /\ AboutLine.key = "about" /\ AboutLine.rest = Nothing
  /\ NameLine \in Lines /\ ~NameLine.blank /\ NameLine.indent = 2 /\ ~NameLine.dash
  /\ NameLine.key = "name" /\ NameLine.rest = Word(Declare)
  /\ NameLine.rest[1] = "word" /\ NameLine.rest # Nothing /\ Meant(NameLine.rest) = Scalar(Declare)
  <1>1. "entities" \in Names /\ "tags" \in Names /\ "about" \in Names /\ "name" \in Names
    BY LaunchFileAssumption
  <1>2. Process \in Words /\ Declare \in Words
    BY LaunchFileAssumption, YamlParserAssumption
  <1>3. List(Tags) \in Rests /\ List(Tags)[1] = "list" /\ List(Tags) # Nothing
    <2>1. Tags \in Seq(Words) \ {<<>>}
      BY <1>2 DEF Tags
    <2>. QED
      BY <2>1, RestsAre DEF Rests, List
  <1>4. /\ Word(Declare) \in Rests /\ Word(Declare)[1] = "word" /\ Word(Declare)[2] = Declare
        /\ Word(Declare) # Nothing
    BY <1>2, WordIsRest, RestsAre
  <1>5. Meant(Word(Declare)) = Scalar(Declare)
    BY <1>4 DEF Meant
  <1>6. PICK tags \in Rests, word \in Rests : tags = List(Tags) /\ word = Word(Declare)
    BY <1>3, <1>4
  <1>7. /\ HeadLine \in Lines /\ ~HeadLine.blank /\ HeadLine.indent = 0 /\ ~HeadLine.dash
        /\ HeadLine.key = "entities" /\ HeadLine.rest = Nothing
    BY <1>1 DEF HeadLine, Line, Lines
  <1>8. /\ TagsLine \in Lines /\ ~TagsLine.blank /\ TagsLine.indent = 0 /\ ~TagsLine.dash
        /\ TagsLine.key = "tags" /\ TagsLine.rest = tags
    BY <1>1, <1>6 DEF TagsLine, Line, Lines
  <1>9. /\ AboutLine \in Lines /\ ~AboutLine.blank /\ AboutLine.indent = 0 /\ ~AboutLine.dash
        /\ AboutLine.key = "about" /\ AboutLine.rest = Nothing
    BY <1>1 DEF AboutLine, Line, Lines
  <1>10. /\ NameLine \in Lines /\ ~NameLine.blank /\ NameLine.indent = 2 /\ ~NameLine.dash
         /\ NameLine.key = "name" /\ NameLine.rest = word
    BY <1>1, <1>6 DEF NameLine, Line, Lines
  <1>. QED
    BY <1>3, <1>4, <1>5, <1>6, <1>7, <1>8, <1>9, <1>10

\* The lines below the entities.
BelowLines(s) == FlattenSeq([i \in DOMAIN s.layout.below |-> KeyLines(s.layout.below[i])])

\* The lines below the entities.
LEMMA BelowLinesAre ==
  ASSUME NEW s
  PROVE  /\ s.layout.below = <<>> => BelowLines(s) = <<>>
         /\ s.layout.below = <<"tags">> => BelowLines(s) = <<TagsLine>>
         /\ s.layout.below = <<"about">> => BelowLines(s) = <<AboutLine, NameLine>>
         /\ s.layout.below = <<"tags", "about">> => BelowLines(s) = <<TagsLine, AboutLine, NameLine>>
  <1>1. KeyLines("tags") = <<TagsLine>> /\ KeyLines("about") = <<AboutLine, NameLine>>
    BY DEF KeyLines, TagsLine, AboutLine, NameLine
  <1>2. PICK a \in Lines, b \in Lines, c \in Lines : a = TagsLine /\ b = AboutLine /\ c = NameLine
    BY TopLinesAre
  <1>3. PICK u \in Seq(Lines), v \in Seq(Lines) :
          u = KeyLines("tags") /\ v = KeyLines("about") /\ u = <<a>> /\ v = <<b, c>>
    <2>1. <<a>> \in Seq(Lines) /\ <<b, c>> \in Seq(Lines)
      OBVIOUS
    <2>. QED
      BY <1>1, <1>2, <2>1
  <1>4. /\ FlattenSeq(<<>>) = <<>> /\ FlattenSeq(<<u>>) = u /\ FlattenSeq(<<v>>) = v
        /\ FlattenSeq(<<u, v>>) = u \o v
    <2>1. FlattenSeq(<<>>) = <<>> /\ FlattenSeq(<<u>>) = u /\ FlattenSeq(<<u, v>>) = u \o v
      BY FlattenFew, Zenon
    <2>2. FlattenSeq(<<>>) = <<>> /\ FlattenSeq(<<v>>) = v /\ FlattenSeq(<<v, u>>) = v \o u
      BY FlattenFew, Zenon
    <2>. QED
      BY <2>1, <2>2
  <1>5. u \o v = <<a, b, c>>
    <2>a. <<a, b, c>> \in Seq(Lines)
      OBVIOUS
    <2>b. PICK d \in Seq(Lines) : d = <<a, b, c>>
      BY <2>a
    <2>c. PICK w \in Seq(Lines) : w = u \o v
      <3>1. u \o v \in Seq(Lines)
        OBVIOUS
      <3>. QED
        BY <3>1
    <2>1. w = u \o v /\ d = <<a, b, c>>
      BY <2>b, <2>c
    <2>2. /\ Len(w) = 3 /\ w[1] = a /\ w[2] = b /\ w[3] = c
          /\ Len(d) = 3 /\ d[1] = a /\ d[2] = b /\ d[3] = c
      BY <1>3, <2>1
    <2>3. \A k \in 1 .. 3 : w[k] = d[k]
      BY <2>2
    <2>4. w = d
      BY <2>2, <2>3
    <2>. QED
      BY <2>1, <2>4
  <1>6. ASSUME s.layout.below = <<>> PROVE BelowLines(s) = <<>>
    <2>1. [i \in DOMAIN s.layout.below |-> KeyLines(s.layout.below[i])] = <<>>
      BY <1>6
    <2>. QED
      BY <1>4, <2>1 DEF BelowLines
  <1>7. ASSUME s.layout.below = <<"tags">> PROVE BelowLines(s) = <<a>>
    <2>1. [i \in DOMAIN s.layout.below |-> KeyLines(s.layout.below[i])] = <<u>>
      BY <1>3, <1>7
    <2>. QED
      BY <1>3, <1>4, <2>1 DEF BelowLines
  <1>8. ASSUME s.layout.below = <<"about">> PROVE BelowLines(s) = <<b, c>>
    <2>1. [i \in DOMAIN s.layout.below |-> KeyLines(s.layout.below[i])] = <<v>>
      BY <1>3, <1>8
    <2>. QED
      BY <1>3, <1>4, <2>1 DEF BelowLines
  <1>9. ASSUME s.layout.below = <<"tags", "about">> PROVE BelowLines(s) = <<a, b, c>>
    <2>1. [i \in DOMAIN s.layout.below |-> KeyLines(s.layout.below[i])] = <<u, v>>
      BY <1>3, <1>9
    <2>. QED
      BY <1>4, <1>5, <2>1 DEF BelowLines
  <1>. QED
    BY <1>2, <1>6, <1>7, <1>8, <1>9

\* What the keys below the entities are read as.
Below(s) == [k \in ToSet(s.layout.below) |-> MeantKey(s, k)]

\* An object at the end of a text is read with its one field,
LEMMA AboutRead ==
  ASSUME NEW t \in Seq(Lines), NEW i \in 1 .. Len(t), i + 1 = Len(t),
         t[i] = AboutLine, t[i + 1] = NameLine
  PROVE  Parser(t)[<<"object", i, 0>>] =
           At(With(NoFields, "about", Object([x \in {"name"} |-> Scalar(Declare)])), Len(t) + 1)
  <1>1. /\ Len(t) \in Nat /\ i + 1 \in 1 .. Len(t) /\ i + 1 \in 1 .. Len(t) + 1
    OBVIOUS
  <1>2. PICK j, e, l : j = i + 1 /\ e = Len(t) + 1 /\ e = j + 1 /\ l = t[j]
    BY <1>1
  <1>3. Parser(t)[<<"object", e, 2>>] = At(NoFields, e)
    <2>1. PICK base \in Nat : base = 2
      OBVIOUS
    <2>. QED
      BY <1>2, <2>1, ObjectEnds
  <1>4. /\ ~t[j].blank /\ t[j].indent = 2 /\ ~t[j].dash /\ t[j].key = "name" /\ t[j].rest # Nothing
        /\ Meant(t[j].rest) = Scalar(Declare) /\ t[j].rest[1] \in {"word", "list"}
        /\ t[j].key # NoKey /\ j \in 1 .. Len(t)
    BY <1>1, <1>2, TopLinesAre DEF NoKey
  <1>5. Parser(t)[<<"object", j, 2>>] = At(With(NoFields, "name", Scalar(Declare)), e)
    <2>1. PICK base \in Nat : base = 2
      OBVIOUS
    <2>2. PICK w : w = Scalar(Declare)
      OBVIOUS
    <2>3. Parser(t)[<<"object", j, base>>] = At(With(NoFields, t[j].key, w), e)
      <3>1. ReadsAs(t, j, base, w, e)
        BY <1>2, <1>4, <2>2 DEF ReadsAs
      <3>2. Parser(t)[<<"object", e, base>>] = At(NoFields, e) /\ t[j].indent = base
        BY <1>3, <1>4, <2>1
      <3>. QED
        BY <1>4, <3>1, <3>2, KeyRead
    <2>. QED
      BY <1>4, <2>1, <2>2, <2>3
  <1>6. With(NoFields, "name", Scalar(Declare)) = [x \in {"name"} |-> Scalar(Declare)]
    BY DEF With, NoFields
  <1>7. NestedValue(Parser(t), t, j, 0) = At(Object([x \in {"name"} |-> Scalar(Declare)]), e)
    <2>1. PICK P : P = Parser(t)
      OBVIOUS
    <2>2. Resume(t, j, j) \/ t[j].indent = 2
      BY <1>4
    <2>3. FirstLine(t, j) = j
      <3>1. Resume(t, j, j)
        BY <1>1, <1>2, <1>4 DEF Resume
      <3>. QED
        BY <3>1, ResumeIsFirst
    <2>4. NestedValue(P, t, j, 0) = ObjectAt(P, j, t[j].indent)
      <3>1. ~(j > Len(t)) /\ ~(t[j].indent <= 0)
        BY <1>4
      <3>. QED
        BY <1>4, <2>3, <3>1, Zenon DEF NestedValue
    <2>5. ObjectAt(P, j, 2) = At(Object([x \in {"name"} |-> Scalar(Declare)]), e)
      BY <1>5, <1>6, <2>1, AtIs DEF ObjectAt
    <2>. QED
      BY <1>4, <2>1, <2>4, <2>5
  <1>8. PICK v : v = Object([x \in {"name"} |-> Scalar(Declare)])
    OBVIOUS
  <1>9. Parser(t)[<<"object", e, 0>>] = At(NoFields, e)
    <2>1. PICK base \in Nat : base = 0
      OBVIOUS
    <2>. QED
      BY <1>2, <2>1, ObjectEnds
  <1>10. /\ ~t[i].blank /\ t[i].indent = 0 /\ ~t[i].dash /\ t[i].key = "about" /\ t[i].rest = Nothing
         /\ t[i].key # NoKey
    BY TopLinesAre DEF NoKey
  <1>11. Parser(t)[<<"object", i, 0>>] = At(With(NoFields, t[i].key, v), e)
    <2>1. PICK base \in Nat : base = 0
      OBVIOUS
    <2>2. NestedValue(Parser(t), t, i + 1, base) = At(v, e)
      BY <1>2, <1>7, <1>8, <2>1
    <2>3. Parser(t)[<<"object", e, base>>] = At(NoFields, e)
      BY <1>9, <2>1
    <2>4. Parser(t)[<<"object", i, base>>] = At(With(NoFields, t[i].key, v), e)
      <3>1. ReadsAs(t, i, base, v, e)
        BY <1>10, <2>2 DEF ReadsAs
      <3>2. t[i].indent = base
        BY <1>10, <2>1
      <3>. QED
        BY <1>10, <2>3, <3>1, <3>2, KeyRead
    <2>. QED
      BY <2>1, <2>4
  <1>. QED
    BY <1>2, <1>8, <1>10, <1>11

\* and a list in brackets as one value.
LEMMA TagsRead ==
  ASSUME NEW t \in Seq(Lines), NEW i \in 1 .. Len(t), t[i] = TagsLine,
         NEW g, NEW z, Parser(t)[<<"object", i + 1, 0>>] = At(g, z)
  PROVE  Parser(t)[<<"object", i, 0>>] = At(With(g, "tags", Meant(List(Tags))), z)
  <1>1. /\ ~t[i].blank /\ t[i].indent = 0 /\ ~t[i].dash /\ t[i].key = "tags" /\ t[i].rest # Nothing
        /\ t[i].rest = List(Tags) /\ t[i].rest[1] \in {"word", "list"} /\ t[i].key # NoKey
    BY TopLinesAre DEF NoKey
  <1>2. PICK base \in Nat : base = 0
    OBVIOUS
  <1>3. PICK v, j : v = Meant(t[i].rest) /\ j = i + 1
    OBVIOUS
  <1>4. Parser(t)[<<"object", j, base>>] = At(g, z)
    BY <1>2, <1>3
  <1>5. Parser(t)[<<"object", i, base>>] = At(With(g, t[i].key, v), z)
    <2>1. ReadsAs(t, i, base, v, j)
      BY <1>1, <1>3 DEF ReadsAs
    <2>2. t[i].indent = base
      BY <1>1, <1>2
    <2>. QED
      BY <1>1, <1>4, <2>1, <2>2, KeyRead
  <1>. QED
    BY <1>1, <1>2, <1>3, <1>5

\* The text below the entities is read as it is meant, from line y on.
BelowReadFrom(t, s, y) ==
  /\ y \in 1 .. Len(t) + 1
  /\ y = Len(t) + 1 \/ (~t[y].blank /\ t[y].indent = 0)
  /\ \E z : Parser(t)[<<"object", y, 0>>] = At(Below(s), z)

\* The object alone.
LEMMA AboutBelow ==
  With(NoFields, "about", Object([x \in {"name"} |-> Scalar(Declare)])) =
    [k \in {"about"} |-> Object([x \in {"name"} |-> Scalar(Declare)])]
  <1>1. PICK v : v = Object([x \in {"name"} |-> Scalar(Declare)])
    OBVIOUS
  <1>2. With(NoFields, "about", v) = [k \in {"about"} |-> v]
    BY DEF With, NoFields
  <1>. QED
    BY <1>1, <1>2

\* The keys below the entities are read as they are meant.
LEMMA BelowRead ==
  ASSUME NEW t \in Seq(Lines), NEW s, Supported(s), s.layout \in Layouts, NEW y \in Nat \ {0},
         Occurs(t, y, BelowLines(s)), y + Len(BelowLines(s)) = Len(t) + 1
  PROVE  BelowReadFrom(t, s, y)
  <1>1. PICK a \in Lines, b \in Lines, c \in Lines : a = TagsLine /\ b = AboutLine /\ c = NameLine
    BY TopLinesAre
  <1>2. /\ ~a.blank /\ a.indent = 0 /\ ~b.blank /\ b.indent = 0
    BY <1>1, TopLinesAre
  <1>3. PICK v : v = Object([x \in {"name"} |-> Scalar(Declare)])
    OBVIOUS
  <1>4. With(NoFields, "about", v) = [k \in {"about"} |-> v]
    BY <1>3, AboutBelow
  <1>5. MeantKey(s, "tags") = Meant(List(Tags)) /\ MeantKey(s, "about") = v
    BY <1>3, Zenon DEF MeantKey
  <1>6. Len(t) \in Nat
    OBVIOUS
  <1>7. PICK u : u = BelowLines(s)
    OBVIOUS
  <1>8. y + Len(u) = Len(t) + 1 /\ \A k \in 1 .. Len(u) : t[y + k - 1] = u[k]
    BY <1>7 DEF Occurs
  <1>9. CASE s.layout.below = <<>>
    <2>1. u = <<>> /\ Len(u) = 0
      BY <1>7, <1>9, BelowLinesAre
    <2>2. y = Len(t) + 1 /\ y \in 1 .. Len(t) + 1
      BY <1>6, <1>8, <2>1
    <2>3. Parser(t)[<<"object", y, 0>>] = At(NoFields, y)
      <3>1. PICK base \in Nat : base = 0
        OBVIOUS
      <3>. QED
        BY <2>2, <3>1, ObjectEnds
    <2>4. Below(s) = NoFields
      BY <1>9 DEF Below, NoFields, ToSet
    <2>. QED
      BY <2>2, <2>3, <2>4 DEF BelowReadFrom
  <1>10. CASE s.layout.below = <<"tags">>
    <2>1. u = <<a>> /\ Len(u) = 1 /\ u[1] = a
      BY <1>1, <1>7, <1>10, BelowLinesAre
    <2>2. y = Len(t) /\ y \in 1 .. Len(t) /\ y \in 1 .. Len(t) + 1 /\ t[y] = a
      <3>1. 1 \in 1 .. Len(u) /\ y + 1 - 1 = y
        BY <2>1
      <3>. QED
        BY <1>6, <1>8, <2>1, <3>1
    <2>3. PICK z : z = y + 1
      OBVIOUS
    <2>4. Parser(t)[<<"object", z, 0>>] = At(NoFields, z)
      <3>1. PICK base \in Nat : base = 0
        OBVIOUS
      <3>. QED
        BY <2>2, <2>3, <3>1, ObjectEnds
    <2>5. Parser(t)[<<"object", y, 0>>] = At(With(NoFields, "tags", Meant(List(Tags))), z)
      BY <1>1, <2>2, <2>3, <2>4, TagsRead
    <2>6. With(NoFields, "tags", Meant(List(Tags))) = Below(s)
      <3>1. PICK m : m = Meant(List(Tags))
        OBVIOUS
      <3>2. With(NoFields, "tags", m) = [k \in {"tags"} |-> m]
        BY DEF With, NoFields
      <3>3. ToSet(s.layout.below) = {"tags"}
        BY <1>10 DEF ToSet
      <3>. QED
        BY <1>5, <3>1, <3>2, <3>3 DEF Below
    <2>. QED
      BY <1>2, <2>2, <2>5, <2>6 DEF BelowReadFrom
  <1>11. CASE s.layout.below = <<"about">>
    <2>1. u = <<b, c>> /\ Len(u) = 2 /\ u[1] = b /\ u[2] = c
      BY <1>1, <1>7, <1>11, BelowLinesAre
    <2>2. /\ y + 1 = Len(t) /\ y \in 1 .. Len(t) /\ y \in 1 .. Len(t) + 1
          /\ t[y] = b /\ t[y + 1] = c
      <3>1. 1 \in 1 .. Len(u) /\ y + 1 - 1 = y /\ 2 \in 1 .. Len(u) /\ y + 2 - 1 = y + 1
        BY <2>1
      <3>. QED
        BY <1>6, <1>8, <2>1, <3>1
    <2>3. Parser(t)[<<"object", y, 0>>] = At(With(NoFields, "about", v), Len(t) + 1)
      BY <1>1, <1>3, <2>2, AboutRead
    <2>4. With(NoFields, "about", v) = Below(s)
      <3>1. ToSet(s.layout.below) = {"about"}
        BY <1>11 DEF ToSet
      <3>. QED
        BY <1>4, <1>5, <3>1 DEF Below
    <2>. QED
      BY <1>2, <2>2, <2>3, <2>4 DEF BelowReadFrom
  <1>12. CASE s.layout.below = <<"tags", "about">>
    <2>1. u = <<a, b, c>> /\ Len(u) = 3 /\ u[1] = a /\ u[2] = b /\ u[3] = c
      BY <1>1, <1>7, <1>12, BelowLinesAre
    <2>2. PICK j : j = y + 1
      OBVIOUS
    <2>3. /\ j + 1 = Len(t) /\ y \in 1 .. Len(t) /\ y \in 1 .. Len(t) + 1 /\ j \in 1 .. Len(t)
          /\ t[y] = a /\ t[j] = b /\ t[j + 1] = c
      <3>1. /\ 1 \in 1 .. Len(u) /\ y + 1 - 1 = y /\ 2 \in 1 .. Len(u) /\ y + 2 - 1 = j
            /\ 3 \in 1 .. Len(u) /\ y + 3 - 1 = j + 1
        BY <2>1, <2>2
      <3>. QED
        BY <1>6, <1>8, <2>1, <2>2, <3>1
    <2>4. Parser(t)[<<"object", j, 0>>] = At(With(NoFields, "about", v), Len(t) + 1)
      BY <1>1, <1>3, <2>3, AboutRead
    <2>5. PICK g : g = With(NoFields, "about", v)
      OBVIOUS
    <2>6. Parser(t)[<<"object", y, 0>>] = At(With(g, "tags", Meant(List(Tags))), Len(t) + 1)
      BY <1>1, <2>2, <2>3, <2>4, <2>5, TagsRead
    <2>7. With(g, "tags", Meant(List(Tags))) = Below(s)
      <3>1. PICK m : m = Meant(List(Tags))
        OBVIOUS
      <3>2. With(g, "tags", m) = [k \in {"about", "tags"} |-> IF k = "about" THEN v ELSE m]
        BY <1>4, <2>5 DEF With
      <3>3. ToSet(s.layout.below) = {"about", "tags"}
        BY <1>12 DEF ToSet
      <3>4. Below(s) = [k \in {"about", "tags"} |-> MeantKey(s, k)]
        BY <3>3 DEF Below
      <3>5. \A k \in {"about", "tags"} : MeantKey(s, k) = IF k = "about" THEN v ELSE m
        BY <1>5, <3>1
      <3>. QED
        BY <3>1, <3>2, <3>4, <3>5
    <2>. QED
      BY <1>2, <2>3, <2>6, <2>7 DEF BelowReadFrom
  <1>. QED
    BY <1>9, <1>10, <1>11, <1>12 DEF Layouts, Supported

\* They have lines.
LEMMA BelowLinesSeq ==
  ASSUME NEW s, Supported(s), s.layout \in Layouts
  PROVE  BelowLines(s) \in Seq(Lines)
  <1>1. PICK a \in Lines, b \in Lines, c \in Lines : a = TagsLine /\ b = AboutLine /\ c = NameLine
    BY TopLinesAre
  <1>2. <<>> \in Seq(Lines) /\ <<a>> \in Seq(Lines) /\ <<b, c>> \in Seq(Lines) /\ <<a, b, c>> \in Seq(Lines)
    OBVIOUS
  <1>3. BelowLines(s) \in {<<>>, <<a>>, <<b, c>>, <<a, b, c>>}
    <2>1. \/ s.layout.below = <<>> \/ s.layout.below = <<"tags">> \/ s.layout.below = <<"about">>
          \/ s.layout.below = <<"tags", "about">>
      BY DEF Layouts, Supported
    <2>. QED
      BY <1>1, <2>1, BelowLinesAre
  <1>. QED
    BY <1>2, <1>3

\* A text is the line of the entities, what is written of them, and the keys
\* below, which are read as meant.
LEMMA TextIs ==
  ASSUME NEW s \in Sources, Supported(s)
  PROVE  /\ Text(s) \in Seq(Lines) /\ 1 \in 1 .. Len(Text(s)) /\ Text(s)[1] = HeadLine
         /\ Occurs(Text(s), 2, FlattenSeq(Written(s)))
         /\ BelowReadFrom(Text(s), s, 2 + Len(FlattenSeq(Written(s))))
  <1>1. s.entities \in Seq(Entities) /\ s.layout \in Layouts
    BY LaunchFileAssumption
  <1>2. PICK h \in Seq(Lines) : h = <<HeadLine>> /\ Len(h) = 1 /\ h[1] = HeadLine
    <2>1. PICK l \in Lines : l = HeadLine
      BY TopLinesAre
    <2>2. <<l>> \in Seq(Lines) /\ Len(<<l>>) = 1 /\ <<l>>[1] = l
      OBVIOUS
    <2>. QED
      BY <2>1, <2>2
  <1>3. PICK u \in Seq(Lines) : u = FlattenSeq(Written(s))
    <2>1. PICK ss \in Seq(Seq(Lines)) : ss = Written(s)
      BY <1>1, WrittenIs
    <2>2. PICK f \in [0 .. Len(ss) -> Seq(Lines)] : f[Len(ss)] = FlattenSeq(ss)
      BY Flattened, Zenon
    <2>3. Len(ss) \in 0 .. Len(ss)
      OBVIOUS
    <2>4. f[Len(ss)] \in Seq(Lines)
      BY <2>3
    <2>. QED
      BY <2>1, <2>2, <2>4
  <1>4. PICK b \in Seq(Lines) : b = BelowLines(s)
    BY <1>1, BelowLinesSeq
  <1>5. Text(s) = (h \o u) \o b
    BY <1>2, <1>3, <1>4, Zenon DEF Text, HeadLine, Written, BelowLines
  <1>6. PICK a \in Seq(Lines) : a = h \o u /\ Len(a) = 1 + Len(u) /\ a[1] = h[1]
    <2>1. h \o u \in Seq(Lines) /\ Len(h \o u) = 1 + Len(u) /\ (h \o u)[1] = h[1]
      BY <1>2
    <2>. QED
      BY <2>1
  <1>7. PICK t \in Seq(Lines) : /\ t = a \o b /\ Len(t) = (1 + Len(u)) + Len(b) /\ t[1] = a[1]
                                /\ \A k \in 1 .. Len(t) : t[k] = (a \o b)[k]
    <2>1. a \o b \in Seq(Lines) /\ Len(a \o b) = (1 + Len(u)) + Len(b) /\ (a \o b)[1] = a[1]
      <3>1. Len(a) \in Nat /\ Len(b) \in Nat /\ 1 \in 1 .. Len(a)
        BY <1>6
      <3>2. a \o b \in Seq(Lines) /\ Len(a \o b) = Len(a) + Len(b) /\ (a \o b)[1] = a[1]
        BY <3>1
      <3>. QED
        BY <1>6, <3>2
    <2>. QED
      BY <2>1
  <1>8. Len(u) \in Nat /\ Len(b) \in Nat /\ Len(t) \in Nat
    OBVIOUS
  <1>9. Occurs(t, 1, a \o b)
    <2>1. Len(a \o b) = Len(t)
      BY <1>7
    <2>. QED
      BY <1>7, <1>8, <2>1 DEF Occurs
  <1>10. /\ Occurs(t, 1, a) /\ Occurs(t, 1 + Len(a), b)
    <2>1. PICK o \in Nat \ {0} : o = 1
      OBVIOUS
    <2>2. Occurs(t, o, a \o b)
      BY <1>9, <2>1
    <2>3. Occurs(t, o, a) /\ Occurs(t, o + Len(a), b)
      BY <2>2, OccursConcat
    <2>. QED
      BY <2>1, <2>3
  <1>11. Occurs(t, 2, u)
    <2>1. PICK o \in Nat \ {0} : o = 1
      OBVIOUS
    <2>2. Occurs(t, o, h \o u)
      BY <1>6, <1>10, <2>1
    <2>3. Occurs(t, o + Len(h), u)
      BY <2>2, OccursConcat
    <2>4. o + Len(h) = 2
      BY <1>2, <2>1
    <2>. QED
      BY <2>3, <2>4
  <1>12. BelowReadFrom(t, s, 2 + Len(u))
    <2>1. PICK y \in Nat \ {0} : y = 2 + Len(u)
      BY <1>8
    <2>2. y = 1 + Len(a) /\ y + Len(b) = Len(t) + 1
      BY <1>6, <1>7, <1>8, <2>1
    <2>3. Occurs(t, y, BelowLines(s)) /\ y + Len(BelowLines(s)) = Len(t) + 1
      BY <1>4, <1>10, <2>2
    <2>. QED
      BY <1>1, <2>1, <2>3, BelowRead
  <1>13. t = Text(s)
    BY <1>5, <1>6, <1>7
  <1>14. 1 \in 1 .. Len(t) /\ t[1] = HeadLine
    BY <1>2, <1>6, <1>7, <1>8
  <1>. QED
    BY <1>3, <1>11, <1>12, <1>13, <1>14

\* A supported file is parsed to what is meant.
LEMMA ParsesAsMeant ==
  ASSUME NEW s \in Sources, Supported(s)
  PROVE  Parse(Text(s)) = MeantValue(s)
  <1>1. s.entities \in Seq(Entities) /\ s.layout \in Layouts
    BY LaunchFileAssumption
  <1>2. PICK t \in Seq(Lines) : t = Text(s)
    BY TextIs
  <1>3. PICK y : y = 2 + Len(FlattenSeq(Written(s)))
    OBVIOUS
  <1>4. /\ 1 \in 1 .. Len(t) /\ t[1] = HeadLine
        /\ Occurs(t, 2, FlattenSeq(Written(s))) /\ BelowReadFrom(t, s, y)
    BY <1>2, <1>3, TextIs
  <1>5. PICK z : Parser(t)[<<"object", y, 0>>] = At(Below(s), z)
    BY <1>4 DEF BelowReadFrom
  <1>6. PICK v : v = Array(MeantEntities(s))
    OBVIOUS
  <1>7. NestedValue(Parser(t), t, 2, 0) = At(v, y)
    <2>1. PICK o \in Nat \ {0} : o = 2
      OBVIOUS
    <2>2. /\ Occurs(t, o, FlattenSeq(Written(s))) /\ y = o + Len(FlattenSeq(Written(s)))
          /\ y \in 1 .. Len(t) + 1 /\ (y = Len(t) + 1 \/ (~t[y].blank /\ t[y].indent = 0))
      BY <1>3, <1>4, <2>1 DEF BelowReadFrom
    <2>3. NestedValue(Parser(t), t, o, 0) = At(Array(MeantEntities(s)), y)
      BY <1>1, <2>2, EntitiesValue
    <2>. QED
      BY <1>6, <2>1, <2>3
  <1>8. Parser(t)[<<"object", 1, 0>>] = At(With(Below(s), "entities", v), z)
    <2> DEFINE g == Below(s)
    <2>1. PICK i \in 1 .. Len(t), base \in Nat : i = 1 /\ base = 0
      BY <1>4
    <2> HIDE DEF g
    <2>2. /\ ~t[i].blank /\ t[i].indent = base /\ ~t[i].dash /\ t[i].key = "entities"
          /\ t[i].rest = Nothing /\ t[i].key # NoKey
      BY <1>4, <2>1, TopLinesAre DEF NoKey
    <2>3. ReadsAs(t, i, base, v, y)
      <3>1. i + 1 = 2
        BY <2>1
      <3>. QED
        BY <1>7, <2>1, <2>2, <3>1 DEF ReadsAs
    <2>4. Parser(t)[<<"object", y, base>>] = At(g, z)
      BY <1>5, <2>1 DEF g
    <2>5. Parser(t)[<<"object", i, base>>] = At(With(g, t[i].key, v), z)
      BY <2>2, <2>3, <2>4, KeyRead
    <2>. QED
      BY <2>1, <2>2, <2>5 DEF g
  <1>9. Parse(t) = Object(With(Below(s), "entities", v))
    <2>1. PICK g : g = With(Below(s), "entities", v)
      OBVIOUS
    <2>2. Parser(t)[<<"object", 1, 0>>].value = g
      BY <1>8, <2>1, AtIs
    <2>. QED
      BY <2>1, <2>2, Zenon DEF Parse
  <1>10. With(Below(s), "entities", v) =
           [k \in {"entities"} \union ToSet(s.layout.below) |-> MeantKey(s, k)]
    <2>1. PICK D : D = ToSet(s.layout.below)
      OBVIOUS
    <2>2. "entities" \notin D
      BY <1>1, <2>1 DEF ToSet, Layouts
    <2>3. MeantKey(s, "entities") = v
      BY <1>6, Zenon DEF MeantKey, MeantEntities
    <2>4. Below(s) = [k \in D |-> MeantKey(s, k)]
      BY <2>1 DEF Below
    <2>5. With(Below(s), "entities", v) =
            [k \in D \union {"entities"} |-> IF k \in D THEN MeantKey(s, k) ELSE v]
      BY <2>4 DEF With
    <2>. QED
      BY <2>1, <2>2, <2>3, <2>5
  <1>. QED
    BY <1>2, <1>9, <1>10, Zenon DEF MeantValue

-----------------------------------------------------------------------------
(* The builder.                                                            *)

\* The numbers of a set in their order are numbers of that set.
LEMMA InOrderIs ==
  ASSUME NEW I, NEW n \in Nat
  PROVE  InOrder(I, n) \in Seq(I)
  <1> DEFINE D == [k \in 1 .. n |-> [u \in Seq(I) |-> IF k \in I THEN Append(u, k) ELSE u]]
             Eqn(g) == g = [k \in 0 .. n |-> IF k = 0 THEN <<>>
                                             ELSE IF k \in I THEN Append(g[k - 1], k) ELSE g[k - 1]]
  <1>1. PICK f \in [0 .. n -> Seq(I)] : Steps(f, D, n, <<>>)
    <2>1. PICK E, s : E = Seq(I) /\ s = <<>>
      OBVIOUS
    <2>2. s \in E
      BY <2>1
    <2>3. ASSUME NEW k \in 1 .. n, NEW u \in Seq(I) PROVE D[k][u] \in Seq(I)
      <3>1. D[k][u] = IF k \in I THEN Append(u, k) ELSE u
        OBVIOUS
      <3>. QED
        BY <3>1
    <2> HIDE DEF D
    <2>4. StayIn(E, D, n)
      BY <2>1, <2>3 DEF StayIn
    <2>. QED
      BY <2>1, <2>2, <2>4, StepsExist
  <1>2. \A k \in 1 .. n : f[k] = IF k \in I THEN Append(f[k - 1], k) ELSE f[k - 1]
    <2> SUFFICES ASSUME NEW k \in 1 .. n
                 PROVE  f[k] = IF k \in I THEN Append(f[k - 1], k) ELSE f[k - 1]
      OBVIOUS
    <2>1. k - 1 \in 0 .. n
      OBVIOUS
    <2>2. f[k - 1] \in Seq(I)
      BY <2>1
    <2>3. D[k][f[k - 1]] = IF k \in I THEN Append(f[k - 1], k) ELSE f[k - 1]
      BY <2>2
    <2>. QED
      BY <1>1, <2>3 DEF Steps
  <1>3. f[0] = <<>>
    BY <1>1 DEF Steps
  <1> HIDE DEF D
  <1>4. Eqn(f)
    <2>1. ASSUME NEW k \in 0 .. n
          PROVE  f[k] = IF k = 0 THEN <<>>
                        ELSE IF k \in I THEN Append(f[k - 1], k) ELSE f[k - 1]
      <3>1. CASE k = 0
        BY <1>3, <3>1
      <3>2. CASE k # 0
        <4>1. k \in 1 .. n
          BY <3>2
        <4>. QED
          BY <1>2, <3>2, <4>1
      <3>. QED
        BY <3>1, <3>2
    <2>. QED
      BY <2>1
  <1> DEFINE g == CHOOSE h : Eqn(h)
  <1>5. Eqn(g)
    <2> HIDE DEF Eqn
    <2>. QED
      BY <1>4
  <1>6. InOrder(I, n) = g[n]
    BY Zenon DEF InOrder
  <1> HIDE DEF g
  <1>7. \A k \in 0 .. n : g[k] = IF k = 0 THEN <<>>
                                 ELSE IF k \in I THEN Append(g[k - 1], k) ELSE g[k - 1]
    BY <1>5
  <1> DEFINE T == {k \in 0 .. n : g[k] = f[k]}
  <1>8. 0 \in T
    BY <1>3, <1>7
  <1>9. ASSUME NEW k \in 0 .. n - 1, k \in T PROVE k + 1 \in T
    <2>1. k + 1 \in 0 .. n /\ k + 1 \in 1 .. n /\ (k + 1) - 1 = k /\ k + 1 # 0
      OBVIOUS
    <2>2. g[k] = f[k]
      BY <1>9
    <2>3. g[k + 1] = IF k + 1 \in I THEN Append(g[k], k + 1) ELSE g[k]
      BY <1>7, <2>1
    <2>4. f[k + 1] = IF k + 1 \in I THEN Append(f[k], k + 1) ELSE f[k]
      BY <1>2, <2>1
    <2>. QED
      BY <2>1, <2>2, <2>3, <2>4
  <1>10. \A k \in 0 .. n : k \in T
    <2> HIDE DEF T
    <2>. QED
      BY <1>8, <1>9, Reaches
  <1>11. n \in 0 .. n
    OBVIOUS
  <1>12. g[n] = f[n] /\ f[n] \in Seq(I)
    BY <1>10, <1>11
  <1>. QED
    BY <1>6, <1>12

\* The index of the field of an entity with a key.
LEMMA FieldOf ==
  ASSUME NEW e \in Entities, NEW k
  PROVE  LET g == FieldsFrom(e, 0) IN
         /\ (k \in DOMAIN g) <=> (\E i \in DOMAIN e : e[i][1] = k)
         /\ \A i \in DOMAIN e : e[i][1] = k => g[k] = Meant(e[i][2])
  <1> DEFINE g == FieldsFrom(e, 0)
  <1>1. /\ Len(e) \in Nat \ {0} /\ DOMAIN e = 1 .. Len(e)
        /\ \A i, j \in 1 .. Len(e) : e[i][1] = e[j][1] => i = j
    BY EntityIs
  <1>2. {e[i][1] : i \in 0 + 1 .. Len(e)} = {e[i][1] : i \in DOMAIN e}
    BY <1>1
  <1>3. g = [x \in {e[i][1] : i \in DOMAIN e} |-> Meant(e[CHOOSE i \in DOMAIN e : e[i][1] = x][2])]
    BY <1>2, Zenon DEF FieldsFrom
  <1> HIDE DEF g
  <1>4. (k \in DOMAIN g) <=> (\E i \in DOMAIN e : e[i][1] = k)
    BY <1>3
  <1>5. ASSUME NEW i \in DOMAIN e, e[i][1] = k PROVE g[k] = Meant(e[i][2])
    <2>1. (CHOOSE j \in DOMAIN e : e[j][1] = k) = i
      <3>1. \A j \in DOMAIN e : e[j][1] = k => j = i
        BY <1>1, <1>5
      <3>. QED
        BY <1>5, <3>1
    <2>2. k \in {e[j][1] : j \in DOMAIN e}
      BY <1>5
    <2>. QED
      BY <1>3, <2>1, <2>2
  <1>. QED
    BY <1>4, <1>5 DEF g

\* What the value of a field is to the builder.
LEMMA MeantIs ==
  ASSUME NEW r \in Rests
  PROVE  /\ r[1] = "word" => /\ ~IsArray(Meant(r)) /\ r[2] \in Words
                             /\ IsString(Meant(r)) <=> r[2] \in Strings
                             /\ IsString(Meant(r)) => Meant(r)[2] = r[2]
         /\ r[1] = "list" => /\ ~IsString(Meant(r)) /\ IsArray(Meant(r))
                             /\ Meant(r)[2] = [i \in DOMAIN r[2] |-> Scalar(r[2][i])]
  <1>1. CASE r[1] = "word"
    <2>1. r[2] \in Words /\ r[2] # Odd
      BY <1>1, RestsAre, YamlParserAssumption
    <2>2. Meant(r) = IF r[2] \in Strings THEN <<"string", r[2]>> ELSE <<"other", r[2]>>
      BY <1>1, <2>1 DEF Meant, Scalar
    <2>. QED
      BY <1>1, <2>1, <2>2 DEF IsString, IsArray
  <1>2. CASE r[1] = "list"
    <2>1. PICK ws \in Seq(Words) : ws = r[2] /\ ws # <<>>
      BY <1>2, RestsAre
    <2>2. PICK a : a = [i \in DOMAIN ws |-> Scalar(ws[i])]
      OBVIOUS
    <2>3. a # <<>>
      <3>1. DOMAIN a = 1 .. Len(ws) /\ Len(ws) > 0
        BY <2>1, <2>2
      <3>2. 1 \in DOMAIN a /\ 1 \notin DOMAIN <<>>
        BY <3>1
      <3>. QED
        BY <3>2
    <2>4. Meant(r) = <<"array", a>>
      BY <1>2, <2>1, <2>2, <2>3 DEF Meant, Array
    <2>. QED
      BY <1>2, <2>1, <2>2, <2>4 DEF IsString, IsArray
  <1>. QED
    BY <1>1, <1>2, RestsAre

\* The string of a key that the builder finds is the word that is meant,
LEMMA StringIsWord ==
  ASSUME NEW e \in Entities, NEW k
  PROVE  StringAt(FieldsFrom(e, 0), k) = WordOf(e, k)
  <1>1. PICK g : g = FieldsFrom(e, 0)
    OBVIOUS
  <1>2. /\ (k \in DOMAIN g) <=> (\E i \in DOMAIN e : e[i][1] = k)
        /\ \A i \in DOMAIN e : e[i][1] = k => g[k] = Meant(e[i][2])
    BY <1>1, FieldOf
  <1>3. /\ DOMAIN e = 1 .. Len(e) /\ \A i \in DOMAIN e : e[i][2] \in Rests
        /\ \A i, j \in DOMAIN e : e[i][1] = e[j][1] => i = j
    <2>1. /\ DOMAIN e = 1 .. Len(e) /\ \A i \in 1 .. Len(e) : e[i] \in Fielded
          /\ \A i, j \in 1 .. Len(e) : e[i][1] = e[j][1] => i = j
      BY EntityIs
    <2>. QED
      BY <2>1 DEF Fielded
  <1>4. StringAt(g, k) = IF k \in DOMAIN g /\ IsString(g[k]) THEN g[k][2] ELSE NoKey
    BY DEF StringAt, Has
  <1>5. PICK at : at = {i \in DOMAIN e : e[i][1] = k /\ e[i][2][1] = "word" /\ e[i][2][2] \in Strings}
    OBVIOUS
  <1>6. WordOf(e, k) = IF at = {} THEN NoKey ELSE e[CHOOSE i \in at : TRUE][2][2]
    BY <1>5 DEF WordOf
  <1>7. CASE k \notin DOMAIN g
    <2>1. at = {}
      BY <1>2, <1>5, <1>7
    <2>. QED
      BY <1>1, <1>4, <1>6, <1>7, <2>1
  <1>8. CASE k \in DOMAIN g
    <2>1. PICK i \in DOMAIN e : e[i][1] = k
      BY <1>2, <1>8
    <2>2. PICK r \in Rests : r = e[i][2] /\ g[k] = Meant(r)
      BY <1>2, <1>3, <2>1
    <2>3. \A j \in DOMAIN e : e[j][1] = k => j = i
      BY <1>3, <2>1
    <2>4. CASE r[1] = "word" /\ r[2] \in Strings
      <3>1. at = {i}
        BY <1>5, <2>1, <2>2, <2>3, <2>4
      <3>2. (CHOOSE j \in at : TRUE) = i
        BY <3>1
      <3>3. WordOf(e, k) = r[2]
        BY <1>6, <2>2, <3>1, <3>2
      <3>4. IsString(g[k]) /\ g[k][2] = r[2]
        BY <2>2, <2>4, MeantIs
      <3>. QED
        BY <1>1, <1>4, <1>8, <3>3, <3>4
    <2>5. CASE ~(r[1] = "word" /\ r[2] \in Strings)
      <3>1. at = {}
        BY <1>5, <2>2, <2>3, <2>5
      <3>2. ~IsString(g[k])
        BY <2>2, <2>5, MeantIs, RestsAre
      <3>. QED
        BY <1>1, <1>4, <1>6, <3>1, <3>2
    <2>. QED
      BY <2>4, <2>5
  <1>. QED
    BY <1>7, <1>8

\* and the strings of an array are the words.
LEMMA StringsAreWords ==
  ASSUME NEW e \in Entities, NEW k
  PROVE  StringsAt(FieldsFrom(e, 0), k) = WordsOf(e, k)
  <1>1. PICK g : g = FieldsFrom(e, 0)
    OBVIOUS
  <1>2. /\ (k \in DOMAIN g) <=> (\E i \in DOMAIN e : e[i][1] = k)
        /\ \A i \in DOMAIN e : e[i][1] = k => g[k] = Meant(e[i][2])
    BY <1>1, FieldOf
  <1>3. /\ DOMAIN e = 1 .. Len(e) /\ \A i \in DOMAIN e : e[i][2] \in Rests
        /\ \A i, j \in DOMAIN e : e[i][1] = e[j][1] => i = j
    <2>1. /\ DOMAIN e = 1 .. Len(e) /\ \A i \in 1 .. Len(e) : e[i] \in Fielded
          /\ \A i, j \in 1 .. Len(e) : e[i][1] = e[j][1] => i = j
      BY EntityIs
    <2>. QED
      BY <2>1 DEF Fielded
  <1>4. PICK at : at = {i \in DOMAIN e : e[i][1] = k /\ e[i][2][1] = "list"}
    OBVIOUS
  <1>5. CASE ~(k \in DOMAIN g /\ IsArray(g[k]))
    <2>1. at = {}
      <3> SUFFICES ASSUME NEW i \in at PROVE FALSE
        OBVIOUS
      <3>1. PICK r \in Rests : r = e[i][2] /\ g[k] = Meant(r) /\ k \in DOMAIN g /\ r[1] = "list"
        BY <1>2, <1>3, <1>4
      <3>. QED
        BY <1>5, <3>1, MeantIs
    <2>2. WordsOf(e, k) = <<>>
      BY <1>4, <2>1, Zenon DEF WordsOf
    <2>3. StringsAt(g, k) = <<>>
      BY <1>5, Zenon DEF StringsAt, Has
    <2>. QED
      BY <1>1, <2>2, <2>3
  <1>6. CASE k \in DOMAIN g /\ IsArray(g[k])
    <2>1. PICK i \in DOMAIN e : e[i][1] = k
      BY <1>2, <1>6
    <2>2. PICK r \in Rests : r = e[i][2] /\ g[k] = Meant(r)
      BY <1>2, <1>3, <2>1
    <2>3. r[1] = "list"
      BY <1>6, <2>2, MeantIs, RestsAre
    <2>4. PICK ws \in Seq(Words) : ws = r[2]
      BY <2>3, RestsAre
    <2>5. PICK a : a = g[k][2] /\ a = [j \in DOMAIN ws |-> Scalar(ws[j])]
      BY <2>2, <2>3, <2>4, MeantIs
    <2>6. at = {i}
      <3>1. \A j \in DOMAIN e : e[j][1] = k => j = i
        BY <1>3, <2>1
      <3>. QED
        BY <1>4, <2>1, <2>2, <2>3, <3>1
    <2>7. e[CHOOSE j \in at : TRUE][2][2] = ws
      <3>1. (CHOOSE j \in at : TRUE) = i
        BY <2>6
      <3>. QED
        BY <2>2, <2>4, <3>1
    <2>8. PICK I : I = {j \in DOMAIN ws : ws[j] \in Strings}
      OBVIOUS
    <2>9. \A j \in DOMAIN ws : /\ IsString(a[j]) <=> ws[j] \in Strings
                               /\ IsString(a[j]) => a[j][2] = ws[j]
      <3> SUFFICES ASSUME NEW j \in DOMAIN ws
                   PROVE  /\ IsString(a[j]) <=> ws[j] \in Strings
                          /\ IsString(a[j]) => a[j][2] = ws[j]
        OBVIOUS
      <3>1. ws[j] \in Words /\ ws[j] # Odd
        BY YamlParserAssumption
      <3>2. a[j] = IF ws[j] \in Strings THEN <<"string", ws[j]>> ELSE <<"other", ws[j]>>
        BY <2>5, <3>1 DEF Scalar
      <3>. QED
        BY <3>2 DEF IsString
    <2>10. {j \in DOMAIN a : IsString(a[j])} = I /\ Len(a) = Len(ws) /\ Len(ws) \in Nat
      <3>1. DOMAIN a = DOMAIN ws /\ DOMAIN ws = 1 .. Len(ws) /\ Len(ws) \in Nat
        BY <2>5
      <3>2. {j \in DOMAIN a : IsString(a[j])} = I
        BY <2>8, <2>9, <3>1
      <3>. QED
        BY <3>1, <3>2
    <2>11. PICK o \in Seq(I) : o = InOrder(I, Len(ws))
      BY <2>10, InOrderIs
    <2>12. StringsAt(g, k) = [j \in DOMAIN o |-> a[o[j]][2]]
      <3>1. Has(g, k, IsArray)
        BY <1>6 DEF Has
      <3>2. o = InOrder({j \in DOMAIN a : IsString(a[j])}, Len(a))
        BY <2>10, <2>11
      <3>. QED
        BY <2>5, <3>1, <3>2, Zenon DEF StringsAt
    <2>13. WordsOf(e, k) = [j \in DOMAIN o |-> ws[o[j]]]
      <3>1. at # {}
        BY <2>6
      <3>. QED
        BY <1>4, <2>7, <2>8, <2>11, <3>1, Zenon DEF WordsOf
    <2>14. \A j \in DOMAIN o : a[o[j]][2] = ws[o[j]]
      BY <2>8, <2>9
    <2>. QED
      BY <1>1, <2>12, <2>13, <2>14
  <1>. QED
    BY <1>5, <1>6

\* An element of a file is built as it is meant.
LEMMA EntityBuilt ==
  ASSUME NEW e \in Entities
  PROVE  /\ Buildable(MeantEntity(e)) <=> WordOf(e, "type") \in {Process, Declare}
         /\ BuildAction(MeantEntity(e)[2]) = MeantAction(e)
  <1>1. PICK g : g = FieldsFrom(e, 0)
    OBVIOUS
  <1>2. MeantEntity(e) = <<"object", g>>
    <2>1. 1 \in DOMAIN e
      BY EntityIs
    <2>2. DOMAIN g # {}
      BY <1>1, <2>1, FieldOf
    <2>3. MeantEntity(e) = Object(g)
      BY <1>1, FieldsFromStep
    <2>. QED
      BY <2>2, <2>3 DEF Object
  <1>3. /\ StringAt(g, "type") = WordOf(e, "type") /\ StringAt(g, "name") = WordOf(e, "name")
        /\ StringAt(g, "default_value") = WordOf(e, "default_value")
        /\ StringAt(g, "output") = WordOf(e, "output")
        /\ StringsAt(g, "cmd") = WordsOf(e, "cmd")
        /\ StringsAt(g, "depends_on") = WordsOf(e, "depends_on")
    BY <1>1, StringIsWord, StringsAreWords
  <1>4. Buildable(MeantEntity(e)) <=> WordOf(e, "type") \in {Process, Declare}
    <2>1. IsObject(MeantEntity(e)) /\ MeantEntity(e)[2] = g
      BY <1>2 DEF IsObject
    <2>. QED
      BY <1>3, <2>1 DEF Buildable
  <1>5. BuildAction(g) = MeantAction(e)
    <2>1. PICK p, q, r, x, y, z :
            /\ p = StringAt(g, "type") /\ q = StringAt(g, "name")
            /\ r = StringAt(g, "default_value") /\ x = StringsAt(g, "cmd")
            /\ y = StringsAt(g, "depends_on") /\ z = StringAt(g, "output")
      OBVIOUS
    <2>. QED
      BY <1>3, <2>1, Zenon DEF BuildAction, MeantAction
  <1>. QED
    BY <1>2, <1>4, <1>5

\* What is meant by a file is built to the description that is meant.
LEMMA BuildsAsMeant ==
  ASSUME NEW s \in Sources
  PROVE  Build(MeantValue(s)) = MeantDescription(s)
  <1>1. s.entities \in Seq(Entities)
    BY LaunchFileAssumption
  <1>2. PICK es \in Seq(Entities) : es = s.entities
    BY <1>1
  <1>3. PICK all : all = MeantEntities(s)
    OBVIOUS
  <1>4. /\ DOMAIN all = DOMAIN es /\ DOMAIN es = 1 .. Len(es) /\ Len(all) = Len(es) /\ Len(es) \in Nat
        /\ \A i \in DOMAIN es : all[i] = MeantEntity(es[i]) /\ es[i] \in Entities
    <2>1. DOMAIN all = DOMAIN es /\ \A i \in DOMAIN es : all[i] = MeantEntity(es[i])
      BY <1>2, <1>3 DEF MeantEntities
    <2>2. Len(all) = Len(es)
      BY <1>2, <1>3, MeantEntitiesAre
    <2>. QED
      BY <2>1, <2>2
  <1>5. PICK f : f = [k \in {"entities"} \union ToSet(s.layout.below) |-> MeantKey(s, k)]
    OBVIOUS
  <1>6. "entities" \in DOMAIN f /\ f["entities"] = Array(all)
    <2>1. MeantKey(s, "entities") = Array(all)
      BY <1>3, Zenon DEF MeantKey, MeantEntities
    <2>. QED
      BY <1>5, <2>1
  <1>7. MeantValue(s) = <<"object", f>>
    <2>1. MeantValue(s) = Object(f)
      BY <1>5, Zenon DEF MeantValue
    <2>2. DOMAIN f # {}
      BY <1>6
    <2>. QED
      BY <2>1, <2>2 DEF Object
  <1>8. PICK v : v = MeantValue(s)
    OBVIOUS
  <1>9. IsObject(v) /\ v[2] = f
    BY <1>7, <1>8 DEF IsObject
  <1>10. CASE es = <<>>
    <2>1. all = <<>>
      BY <1>4, <1>10
    <2>2. ~Has(v[2], "entities", IsArray)
      BY <1>6, <1>9, <2>1 DEF Array, Null, Has, IsArray
    <2>3. Build(v) = Error
      BY <1>9, <2>2, Zenon DEF Build
    <2>4. MeantDescription(s) = Error
      BY <1>2, <1>10, Zenon DEF MeantDescription
    <2>. QED
      BY <1>8, <2>3, <2>4
  <1>11. CASE es # <<>>
    <2>1. f["entities"] = <<"array", all>>
      <3>1. Len(es) # 0
        BY <1>11
      <3>2. 1 \in DOMAIN all /\ 1 \notin DOMAIN <<>>
        BY <1>4, <3>1
      <3>3. all # <<>>
        BY <3>2
      <3>. QED
        BY <1>6, <3>3 DEF Array
    <2>2. Has(v[2], "entities", IsArray) /\ v[2]["entities"][2] = all
      BY <1>6, <1>9, <2>1 DEF Has, IsArray
    <2>3. PICK I : I = {i \in DOMAIN es : WordOf(es[i], "type") \in {Process, Declare}}
      OBVIOUS
    <2>4. {i \in DOMAIN all : Buildable(all[i])} = I
      BY <1>4, <2>3, EntityBuilt
    <2>5. PICK o \in Seq(I) : o = InOrder(I, Len(es))
      BY <1>4, InOrderIs
    <2>6. Build(v) = Description([i \in DOMAIN o |-> BuildAction(all[o[i]][2])])
      <3>1. o = InOrder({i \in DOMAIN all : Buildable(all[i])}, Len(all))
        BY <1>4, <2>4, <2>5
      <3>. QED
        BY <1>9, <2>2, <3>1, Zenon DEF Build
    <2>7. MeantDescription(s) = Description([i \in DOMAIN o |-> MeantAction(es[o[i]])])
      BY <1>2, <1>11, <2>3, <2>5, Zenon DEF MeantDescription
    <2>8. \A i \in DOMAIN o : BuildAction(all[o[i]][2]) = MeantAction(es[o[i]])
      <3> SUFFICES ASSUME NEW i \in DOMAIN o
                   PROVE  BuildAction(all[o[i]][2]) = MeantAction(es[o[i]])
        OBVIOUS
      <3>1. o[i] \in I
        OBVIOUS
      <3>2. PICK e \in Entities : e = es[o[i]] /\ all[o[i]] = MeantEntity(e)
        BY <1>4, <2>3, <3>1
      <3>3. BuildAction(MeantEntity(e)[2]) = MeantAction(e)
        BY EntityBuilt
      <3>. QED
        BY <3>2, <3>3
    <2>9. [i \in DOMAIN o |-> BuildAction(all[o[i]][2])] = [i \in DOMAIN o |-> MeantAction(es[o[i]])]
      BY <2>8
    <2>. QED
      BY <1>8, <2>6, <2>7, <2>9
  <1>. QED
    BY <1>10, <1>11

-----------------------------------------------------------------------------
(* The words of a command.                                                 *)

\* What is read from position i on, when from is what is read further on.
ReadOn(s, from, i) ==
  IF i > Len(s) THEN <<>>
  ELSE IF s[i] = "quote" THEN <<>>
  ELSE IF s[i] = "backslash" /\ i < Len(s) THEN <<s[i + 1]>> \o from[i + 2]
  ELSE <<s[i]>> \o from[i + 1]

\* What Unescaped() defines for each position: one character, or two, is read, and
\* then what is behind.
LEMMA UnescapedIs ==
  ASSUME NEW s \in Seq(Chars)
  PROVE  \E from : /\ \A i \in 1 .. Len(s) + 1 : from[i] = ReadOn(s, from, i)
                   /\ Unescaped(s) = from[2]
  <1> DEFINE n == Len(s)
             E == Seq(Chars) \X Seq(Chars)
             D == [m \in 1 .. n |-> [u \in E |->
                     << IF s[n + 1 - m] = "quote" THEN <<>>
                        ELSE IF s[n + 1 - m] = "backslash" /\ n + 1 - m < n
                        THEN <<s[(n + 1 - m) + 1]>> \o u[2]
                        ELSE <<s[n + 1 - m]>> \o u[1], u[1] >>]]
             Eqn(g) == g = [i \in 1 .. n + 1 |-> ReadOn(s, g, i)]
  <1>1. n \in Nat /\ \A i \in 1 .. n : s[i] \in Chars
    OBVIOUS
  <1>2. PICK f \in [0 .. n -> E] : Steps(f, D, n, <<<<>>, <<>>>>)
    <2>1. PICK B, b : B = E /\ b = <<<<>>, <<>>>>
      OBVIOUS
    <2>2. b \in B
      <3>1. <<>> \in Seq(Chars)
        OBVIOUS
      <3>. QED
        BY <2>1, <3>1
    <2>3. ASSUME NEW m \in 1 .. n, NEW u \in E PROVE D[m][u] \in E
      <3>1. PICK i : i = n + 1 - m /\ i \in 1 .. n
        BY <1>1
      <3>2. u[1] \in Seq(Chars) /\ u[2] \in Seq(Chars)
        OBVIOUS
      <3>3. <<s[i]>> \o u[1] \in Seq(Chars)
        <4>1. <<s[i]>> \in Seq(Chars)
          BY <1>1, <3>1
        <4>. QED
          BY <3>2, <4>1
      <3>4. i < n => <<s[i + 1]>> \o u[2] \in Seq(Chars)
        <4> SUFFICES ASSUME i < n PROVE <<s[i + 1]>> \o u[2] \in Seq(Chars)
          OBVIOUS
        <4>1. i + 1 \in 1 .. n
          BY <1>1, <3>1
        <4>2. <<s[i + 1]>> \in Seq(Chars)
          BY <1>1, <4>1
        <4>. QED
          BY <3>2, <4>2
      <3>5. D[m][u] = << IF s[i] = "quote" THEN <<>>
                         ELSE IF s[i] = "backslash" /\ i < n THEN <<s[i + 1]>> \o u[2]
                         ELSE <<s[i]>> \o u[1], u[1] >>
        BY <3>1
      <3>6. (IF s[i] = "quote" THEN <<>>
             ELSE IF s[i] = "backslash" /\ i < n THEN <<s[i + 1]>> \o u[2]
             ELSE <<s[i]>> \o u[1]) \in Seq(Chars)
        BY <3>3, <3>4
      <3>. QED
        BY <3>2, <3>5, <3>6
    <2> HIDE DEF D
    <2>4. StayIn(B, D, n)
      BY <2>1, <2>3 DEF StayIn
    <2>. QED
      BY <1>1, <2>1, <2>2, <2>4, StepsExist
  <1>3. \A m \in 0 .. n : f[m] \in E
    OBVIOUS
  <1>4. ASSUME NEW m \in 1 .. n, NEW i, i = n + 1 - m
        PROVE  /\ f[m][1] = IF s[i] = "quote" THEN <<>>
                            ELSE IF s[i] = "backslash" /\ i < n THEN <<s[i + 1]>> \o f[m - 1][2]
                            ELSE <<s[i]>> \o f[m - 1][1]
               /\ f[m][2] = f[m - 1][1]
    <2>1. m - 1 \in 0 .. n
      BY <1>1
    <2>2. PICK u \in E : u = f[m - 1]
      BY <1>3, <2>1
    <2>3. f[m] = D[m][u]
      BY <1>2, <2>2 DEF Steps
    <2>4. D[m][u] = << IF s[i] = "quote" THEN <<>>
                       ELSE IF s[i] = "backslash" /\ i < n THEN <<s[i + 1]>> \o u[2]
                       ELSE <<s[i]>> \o u[1], u[1] >>
      BY <1>4
    <2>5. PICK w : w = IF s[i] = "quote" THEN <<>>
                       ELSE IF s[i] = "backslash" /\ i < n THEN <<s[i + 1]>> \o u[2]
                       ELSE <<s[i]>> \o u[1]
      OBVIOUS
    <2>6. f[m] = <<w, u[1]>>
      BY <2>3, <2>4, <2>5
    <2>7. f[m][1] = w /\ f[m][2] = u[1]
      BY <2>6
    <2>. QED
      BY <2>2, <2>5, <2>7
  <1>5. f[0] = <<<<>>, <<>>>>
    BY <1>2 DEF Steps
  <1> HIDE DEF D
  <1> DEFINE h == [i \in 1 .. n + 1 |-> f[n + 1 - i][1]]
  <1>6. \A i \in 1 .. n + 1 : h[i] = ReadOn(s, h, i)
    <2> SUFFICES ASSUME NEW i \in 1 .. n + 1 PROVE h[i] = ReadOn(s, h, i)
      OBVIOUS
    <2>1. h[i] = f[n + 1 - i][1]
      OBVIOUS
    <2>2. CASE i = n + 1
      <3>1. n + 1 - i = 0 /\ i > n
        BY <1>1, <2>2
      <3>2. h[i] = <<>>
        BY <1>5, <2>1, <3>1
      <3> HIDE DEF h
      <3>. QED
        BY <3>1, <3>2, Zenon DEF ReadOn
    <2>3. CASE i # n + 1
      <3>1. PICK m \in 1 .. n : m = n + 1 - i /\ i = n + 1 - m /\ m - 1 = n + 1 - (i + 1)
        BY <1>1, <2>3
      <3>2. i + 1 \in 1 .. n + 1 /\ ~(i > n)
        BY <1>1, <2>3
      <3>3. h[i + 1] = f[m - 1][1]
        BY <3>1, <3>2
      <3>4. i < n => h[i + 2] = f[m - 1][2]
        <4> SUFFICES ASSUME i < n PROVE h[i + 2] = f[m - 1][2]
          OBVIOUS
        <4>0. m - 1 \in 1 .. n
          BY <1>1, <3>1
        <4>1. PICK k \in 1 .. n : k = m - 1
          BY <4>0
        <4>2. f[k][2] = f[k - 1][1]
          <5>1. PICK l : l = n + 1 - k
            OBVIOUS
          <5>. QED
            BY <1>4, <5>1
        <4>3. i + 2 \in 1 .. n + 1 /\ n + 1 - (i + 2) = k - 1
          BY <1>1, <3>1, <4>1
        <4>4. h[i + 2] = f[k - 1][1]
          BY <4>3
        <4>. QED
          BY <4>1, <4>2, <4>4
      <3>5. f[m][1] = IF s[i] = "quote" THEN <<>>
                      ELSE IF s[i] = "backslash" /\ i < n THEN <<s[i + 1]>> \o f[m - 1][2]
                      ELSE <<s[i]>> \o f[m - 1][1]
        BY <1>4, <3>1
      <3>6. h[i] = f[m][1]
        BY <2>1, <3>1
      <3> HIDE DEF h
      <3>7. CASE s[i] = "quote"
        BY <3>2, <3>5, <3>6, <3>7 DEF ReadOn
      <3>8. CASE s[i] # "quote" /\ (s[i] = "backslash" /\ i < n)
        BY <3>2, <3>4, <3>5, <3>6, <3>8 DEF ReadOn
      <3>9. CASE s[i] # "quote" /\ ~(s[i] = "backslash" /\ i < n)
        BY <3>2, <3>3, <3>5, <3>6, <3>9 DEF ReadOn
      <3>. QED
        BY <3>7, <3>8, <3>9
    <2>. QED
      BY <2>2, <2>3
  <1>7. Eqn(h)
    <2>1. PICK g : g = h
      OBVIOUS
    <2>2. g = [i \in 1 .. n + 1 |-> g[i]] /\ \A i \in 1 .. n + 1 : g[i] = ReadOn(s, g, i)
      BY <1>6, <2>1
    <2>3. Eqn(g)
      BY <2>2
    <2> HIDE DEF Eqn
    <2>. QED
      BY <2>1, <2>3
  <1> DEFINE from == CHOOSE g : Eqn(g)
  <1>8. Eqn(from)
    <2> HIDE DEF Eqn
    <2>. QED
      BY <1>7
  <1>9. Unescaped(s) = from[2]
    BY Zenon DEF Unescaped, ReadOn
  <1> HIDE DEF from
  <1>10. \A i \in 1 .. Len(s) + 1 : from[i] = ReadOn(s, from, i)
    BY <1>8
  <1>. QED
    BY <1>9, <1>10

\* A word within quotes.
Quoted(F) == (<<"quote">> \o F) \o <<"quote">>

\* One character of it.
Escape(c) == IF c \in {"quote", "backslash"} THEN <<"backslash", c>> ELSE <<c>>

\* The parts of a word within quotes.
LEMMA QuotedIs ==
  ASSUME NEW F \in Seq(Chars)
  PROVE  /\ Quoted(F) \in Seq(Chars) /\ Len(Quoted(F)) = Len(F) + 2 /\ Len(F) \in Nat
         /\ Quoted(F)[1] = "quote" /\ Quoted(F)[Len(F) + 2] = "quote"
         /\ Occurs(Quoted(F), 2, F)
  <1>1. PICK q \in Seq(Chars) : q = <<"quote">> /\ Len(q) = 1 /\ q[1] = "quote"
    <2>1. PICK c \in Chars : c = "quote"
      BY DEF Chars
    <2>2. <<c>> \in Seq(Chars) /\ Len(<<c>>) = 1 /\ <<c>>[1] = c
      OBVIOUS
    <2>. QED
      BY <2>1, <2>2
  <1>2. PICK a \in Seq(Chars) : /\ a = q \o F /\ Len(a) = Len(F) + 1 /\ a[1] = q[1]
                                /\ \A k \in 1 .. Len(F) : a[k + 1] = F[k]
    <2>1. /\ q \o F \in Seq(Chars) /\ Len(q \o F) = Len(F) + 1 /\ (q \o F)[1] = q[1]
          /\ \A k \in 1 .. Len(F) : (q \o F)[k + 1] = F[k]
      BY <1>1
    <2>. QED
      BY <2>1
  <1>3. PICK n \in Nat : n = Len(F) /\ Len(a) = n + 1
    BY <1>2
  <1>4. PICK r \in Seq(Chars) : /\ r = a \o q /\ Len(r) = n + 2 /\ r[n + 2] = q[1]
                                /\ \A k \in 1 .. n + 1 : r[k] = a[k]
    <2>1. /\ a \o q \in Seq(Chars) /\ Len(a \o q) = n + 2 /\ (a \o q)[n + 2] = q[1]
          /\ \A k \in 1 .. n + 1 : (a \o q)[k] = a[k]
      BY <1>1, <1>3
    <2>. QED
      BY <2>1
  <1>5. Quoted(F) = r
    BY <1>1, <1>2, <1>4 DEF Quoted
  <1>6. Occurs(r, 2, F)
    <2>1. ASSUME NEW k \in 1 .. n PROVE r[2 + k - 1] = F[k]
      <3>1. 2 + k - 1 = k + 1 /\ k + 1 \in 1 .. n + 1
        OBVIOUS
      <3>. QED
        BY <1>2, <1>3, <1>4, <3>1
    <2>. QED
      BY <1>3, <1>4, <2>1 DEF Occurs
  <1>7. r[1] = "quote"
    <2>1. 1 \in 1 .. n + 1
      OBVIOUS
    <2>. QED
      BY <1>1, <1>2, <1>4, <2>1
  <1>. QED
    BY <1>1, <1>3, <1>4, <1>5, <1>6, <1>7

\* escape_argument() puts the escapes of the characters, one after the other,
\* within quotes.
LEMMA EscapesAre ==
  ASSUME NEW a \in Seq(Chars)
  PROVE  \E ss \in Seq(Seq(Chars)) :
           /\ Len(ss) = Len(a) /\ \A k \in 1 .. Len(a) : ss[k] = Escape(a[k])
           /\ needs_quoting(a) => escape_argument(a) = Quoted(FlattenSeq(ss))
  <1>1. Len(a) \in Nat /\ DOMAIN a = 1 .. Len(a) /\ \A k \in 1 .. Len(a) : a[k] \in Chars
    OBVIOUS
  <1>2. PICK ss : ss = [i \in DOMAIN a |-> IF a[i] \in {"quote", "backslash"}
                                           THEN <<"backslash", a[i]>> ELSE <<a[i]>>]
    OBVIOUS
  <1>3. ASSUME NEW k \in 1 .. Len(a) PROVE ss[k] = Escape(a[k]) /\ ss[k] \in Seq(Chars)
    <2>1. ss[k] = Escape(a[k])
      BY <1>1, <1>2 DEF Escape
    <2>2. PICK c \in Chars, b \in Chars : c = a[k] /\ b = "backslash"
      BY <1>1 DEF Chars
    <2>3. <<b, c>> \in Seq(Chars) /\ <<c>> \in Seq(Chars)
      OBVIOUS
    <2>. QED
      BY <2>1, <2>2, <2>3 DEF Escape
  <1>4. ss \in Seq(Seq(Chars)) /\ Len(ss) = Len(a)
    <2>1. ss = [k \in 1 .. Len(a) |-> ss[k]]
      BY <1>1, <1>2
    <2>. QED
      BY <1>1, <1>3, <2>1, IsSequence
  <1>5. needs_quoting(a) => escape_argument(a) = Quoted(FlattenSeq(ss))
    BY <1>2, Zenon DEF escape_argument, Quoted
  <1>. QED
    BY <1>3, <1>4, <1>5

\* Taking the quotes off undoes escape_argument().
LEMMA EscapeUndone ==
  ASSUME NEW a \in Seq(Chars), a # <<>>
  PROVE  Unquoted(escape_argument(a)) = a
  <1>1. Len(a) \in Nat /\ 1 \in DOMAIN a /\ \A k \in 1 .. Len(a) : a[k] \in Chars
    OBVIOUS
  <1>2. CASE ~needs_quoting(a)
    <2>1. escape_argument(a) = a
      BY <1>2 DEF escape_argument
    <2>2. a[1] = "plain"
      BY <1>1, <1>2 DEF needs_quoting
    <2>. QED
      BY <2>1, <2>2 DEF Unquoted
  <1>3. CASE needs_quoting(a)
    <2>1. PICK ss \in Seq(Seq(Chars)) :
            /\ Len(ss) = Len(a) /\ \A k \in 1 .. Len(a) : ss[k] = Escape(a[k])
            /\ escape_argument(a) = Quoted(FlattenSeq(ss))
      BY <1>3, EscapesAre
    <2>2. PICK F \in Seq(Chars) : F = FlattenSeq(ss)
      <3>1. PICK f \in [0 .. Len(ss) -> Seq(Chars)] : f[Len(ss)] = FlattenSeq(ss)
        BY Flattened, Zenon
      <3>2. Len(ss) \in 0 .. Len(ss)
        OBVIOUS
      <3>3. f[Len(ss)] \in Seq(Chars)
        BY <3>2
      <3>. QED
        BY <3>1, <3>3
    <2>3. PICK r \in Seq(Chars) :
            /\ r = Quoted(F) /\ Len(r) = Len(F) + 2 /\ Len(F) \in Nat
            /\ r[1] = "quote" /\ r[Len(F) + 2] = "quote" /\ Occurs(r, 2, F)
      BY QuotedIs
    <2>4. PICK n \in Nat : n = Len(a) /\ n = Len(ss)
      BY <1>1, <2>1
    <2>5. PICK p \in [0 .. Len(ss) -> Nat \ {0}] : Laid(r, 2, ss, p)
      <3>1. PICK i \in Nat \ {0} : i = 2
        OBVIOUS
      <3>2. Occurs(r, i, FlattenSeq(ss))
        BY <2>2, <2>3, <3>1
      <3>3. \E q \in [0 .. Len(ss) -> Nat \ {0}] : Laid(r, i, ss, q)
        BY <3>2, FlatPositions, Zenon
      <3>. QED
        BY <3>1, <3>3
    <2>6. /\ p[0] = 2 /\ p[n] = 2 + Len(F)
          /\ \A k \in 1 .. n : Occurs(r, p[k - 1], Escape(a[k])) /\ p[k] = p[k - 1] + Len(Escape(a[k]))
          /\ \A k \in 0 .. n : p[k] \in Nat \ {0}
      BY <2>1, <2>2, <2>4, <2>5 DEF Laid
    <2>7. PICK from : /\ \A i \in 1 .. Len(r) + 1 : from[i] = ReadOn(r, from, i)
                      /\ Unescaped(r) = from[2]
      BY UnescapedIs
    <2> DEFINE S == {k \in 0 .. n : from[p[k]] = Rest(a, k)}
    <2>8. n \in S
      <3>1. PICK i : i = p[n]
        OBVIOUS
      <3>2. i \in 1 .. Len(r) + 1 /\ ~(i > Len(r)) /\ r[i] = "quote"
        BY <2>3, <2>6, <3>1
      <3>3. from[i] = <<>>
        BY <2>7, <3>2 DEF ReadOn
      <3>4. Rest(a, n) = <<>>
        BY <2>4, RestStep
      <3>. QED
        BY <3>1, <3>3, <3>4
    <2>9. ASSUME NEW k \in 1 .. n, k \in S PROVE k - 1 \in S
      <3>1. PICK i \in Nat \ {0}, c \in Chars : i = p[k - 1] /\ c = a[k] /\ k - 1 \in 0 .. n
        <4>1. k - 1 \in 0 .. n
          OBVIOUS
        <4>. QED
          BY <1>1, <2>4, <2>6, <4>1
      <3>2. PICK u : u = Escape(c)
        OBVIOUS
      <3>3. Occurs(r, i, u) /\ p[k] = i + Len(u)
        BY <2>6, <3>1, <3>2
      <3>4. Rest(a, k - 1) = <<c>> \o Rest(a, k)
        BY <2>4, <3>1, RestStep
      <3>5. from[p[k]] = Rest(a, k)
        BY <2>9
      <3>6. CASE c \in {"quote", "backslash"}
        <4>1. u = <<"backslash", c>> /\ Len(u) = 2 /\ u[1] = "backslash" /\ u[2] = c
          BY <3>2, <3>6 DEF Escape
        <4>2. /\ i \in 1 .. Len(r) + 1 /\ i < Len(r) /\ ~(i > Len(r)) /\ p[k] = i + 2
              /\ r[i] = "backslash" /\ r[i + 1] = c
          <5>1. 1 \in 1 .. Len(u) /\ i + 1 - 1 = i /\ 2 \in 1 .. Len(u) /\ i + 2 - 1 = i + 1
            BY <4>1
          <5>2. i + Len(u) <= Len(r) + 1 /\ r[i + 1 - 1] = u[1] /\ r[i + 2 - 1] = u[2]
            BY <3>3, <5>1 DEF Occurs
          <5>. QED
            BY <2>3, <3>3, <4>1, <5>1, <5>2
        <4>3. from[i] = <<c>> \o from[i + 2]
          BY <2>7, <4>2 DEF ReadOn
        <4>. QED
          BY <3>1, <3>4, <3>5, <4>2, <4>3
      <3>7. CASE c \notin {"quote", "backslash"}
        <4>1. u = <<c>> /\ Len(u) = 1 /\ u[1] = c
          BY <3>2, <3>7 DEF Escape
        <4>2. /\ i \in 1 .. Len(r) + 1 /\ ~(i > Len(r)) /\ p[k] = i + 1 /\ r[i] = c
          <5>1. 1 \in 1 .. Len(u) /\ i + 1 - 1 = i
            BY <4>1
          <5>2. i + Len(u) <= Len(r) + 1 /\ r[i + 1 - 1] = u[1]
            BY <3>3, <5>1 DEF Occurs
          <5>. QED
            BY <2>3, <3>3, <4>1, <5>1, <5>2
        <4>3. from[i] = <<c>> \o from[i + 1]
          BY <2>7, <3>7, <4>2 DEF ReadOn
        <4>. QED
          BY <3>1, <3>4, <3>5, <4>2, <4>3
      <3>. QED
        BY <3>6, <3>7
    <2>10. \A k \in 0 .. n : k \in S
      <3> HIDE DEF S
      <3>. QED
        BY <2>8, <2>9, ReachesDown
    <2>11. from[p[0]] = Rest(a, 0) /\ Rest(a, 0) = a
      <3>1. 0 \in S
        BY <2>10
      <3>. QED
        BY <3>1, RestStep
    <2>12. Unescaped(r) = a
      BY <2>6, <2>7, <2>11
    <2>13. escape_argument(a) = r
      BY <2>1, <2>2, <2>3
    <2>. QED
      BY <2>3, <2>12, <2>13 DEF Unquoted
  <1>. QED
    BY <1>2, <1>3

-----------------------------------------------------------------------------
(* The effect of the actions.                                              *)

\* What a file can have in it once it is built.
FileExprs ==
  ({"text"} \X Strings) \union ({"var"} \X Keys) \union ({"env"} \X (DOMAIN Environment) \X {Empty})
FileActions ==
  [kind : {"process"}, name : Keys, cmd : Seq(FileExprs), output : Keys,
   depends : Seq(Strings)]
  \union [kind : {"declare"}, name : Keys, default : Keys]

Configs == [Keys -> Values \union {Unset}]
Commands == Seq(Seq(Seq(Chars)))
Effects == [config : Configs, commands : Commands, stuck : BOOLEAN]

\* A word that the environment has no part in unless it says so.
OwnWord(c, x) == x[1] = "var" /\ InEnvironment(x[2]) => c[x[2]] # Unset

\* Such a word of a command is what PerformIn() gives for it.
LEMMA WordIsMeant ==
  ASSUME NEW c \in Configs, NEW x \in FileExprs
  PROVE  /\ OwnWord(c, x) => Spelling[PerformIn(c, x)] = MeantWord(c, x)
         /\ MeantWord(c, x) \in Seq(Chars)
  <1>1. /\ Unset \notin Values /\ Empty \in Values /\ Spelling[Empty] = <<>>
        /\ \A v \in Values : Spelling[v] \in Seq(Chars)
        /\ Strings \subseteq Values
    BY SubstitutionsAssumption, CommandLineAssumption
  <1>2. <<>> \in Seq(Chars)
    OBVIOUS
  <1>3. CASE x \in {"text"} \X Strings
    <2>1. x[1] = "text" /\ x[2] \in Values /\ x[2] # Unset
      BY <1>1, <1>3
    <2>2. PerformIn(c, x) = x[2]
      BY <2>1 DEF PerformIn, PerformSimple
    <2>3. MeantWord(c, x) = Spelling[x[2]]
      BY <2>1 DEF MeantWord
    <2>. QED
      BY <1>1, <2>1, <2>2, <2>3
  <1>4. CASE x \in {"var"} \X Keys
    <2>1. x[1] = "var" /\ x[2] \in Keys /\ c[x[2]] \in Values \union {Unset}
      BY <1>4 DEF Configs
    <2>2. PerformIn(c, x) = IF c[x[2]] = Unset THEN Empty ELSE c[x[2]]
      BY <2>1 DEF PerformIn, PerformSimple, Lookup
    <2>3. PICK v : v = LookedUp(c, x[2])
      OBVIOUS
    <2>4. MeantWord(c, x) = IF v = Unset THEN <<>> ELSE Spelling[v]
      BY <2>1, <2>3 DEF MeantWord
    <2>5. v \in Values \union {Unset}
      BY <2>1, <2>3, SubstitutionsAssumption DEF LookedUp, InEnvironment
    <2>6. MeantWord(c, x) \in Seq(Chars)
      BY <1>1, <1>2, <2>4, <2>5
    <2>7. OwnWord(c, x) => v = c[x[2]]
      BY <2>1, <2>3 DEF OwnWord, LookedUp
    <2>. QED
      BY <1>1, <2>1, <2>2, <2>4, <2>6, <2>7
  <1>5. CASE x \in {"env"} \X (DOMAIN Environment) \X {Empty}
    <2>1. x[1] = "env" /\ x[3] = Empty /\ Environment[x[2]] \in Values \union {Unset}
      BY <1>5, SubstitutionsAssumption
    <2>2. PerformIn(c, x) = IF Environment[x[2]] = Unset THEN Empty ELSE Environment[x[2]]
      <3>1. PerformIn(c, x) = GetEnv(x[2], Empty)
        BY <2>1 DEF PerformIn, PerformSimple
      <3>. QED
        BY <3>1 DEF GetEnv, get_environment_variable
    <2>3. MeantWord(c, x) = IF Environment[x[2]] = Unset THEN <<>> ELSE Spelling[Environment[x[2]]]
      BY <2>1 DEF MeantWord
    <2>. QED
      BY <1>1, <1>2, <2>1, <2>2, <2>3
  <1>. QED
    BY <1>3, <1>4, <1>5 DEF FileExprs

\* The words of a process.
WordsIn(c, cmd) == [i \in DOMAIN cmd |-> MeantWord(c, cmd[i])]

\* They are the words that PerformIn() gives.
LEMMA WordsInAre ==
  ASSUME NEW c \in Configs, NEW cmd \in Seq(FileExprs)
  PROVE  /\ WordsIn(c, cmd) \in Seq(Seq(Chars)) /\ DOMAIN WordsIn(c, cmd) = DOMAIN cmd
         /\ (\A x \in ToSet(cmd) : OwnWord(c, x)) =>
              WordsIn(c, cmd) = [i \in DOMAIN cmd |-> Spelling[PerformIn(c, cmd[i])]]
  <1>1. DOMAIN cmd = 1 .. Len(cmd) /\ Len(cmd) \in Nat /\ \A i \in 1 .. Len(cmd) : cmd[i] \in FileExprs
    OBVIOUS
  <1>2. PICK w : w = WordsIn(c, cmd)
    OBVIOUS
  <1>3. w = [i \in 1 .. Len(cmd) |-> MeantWord(c, cmd[i])]
    BY <1>1, <1>2 DEF WordsIn
  <1>4. \A i \in 1 .. Len(cmd) :
          w[i] \in Seq(Chars) /\ (OwnWord(c, cmd[i]) => w[i] = Spelling[PerformIn(c, cmd[i])])
    BY <1>1, <1>3, WordIsMeant
  <1>5. w \in Seq(Seq(Chars))
    <2>1. w = [i \in 1 .. Len(cmd) |-> w[i]]
      BY <1>3
    <2>. QED
      BY <1>1, <1>4, <2>1, IsSequence
  <1>6. ASSUME \A x \in ToSet(cmd) : OwnWord(c, x)
        PROVE  w = [i \in DOMAIN cmd |-> Spelling[PerformIn(c, cmd[i])]]
    <2>1. \A i \in 1 .. Len(cmd) : OwnWord(c, cmd[i])
      BY <1>1, <1>6 DEF ToSet
    <2>. QED
      BY <1>1, <1>3, <1>4, <2>1
  <1>. QED
    BY <1>1, <1>2, <1>3, <1>5, <1>6

\* A command cannot be run.
Unfit(w) == w = <<>> \/ <<>> \in ToSet(w)

\* The effect of an action, by its kind.
LEMMA EffectIs ==
  ASSUME NEW m \in Effects, ~m.stuck, NEW a \in FileActions
  PROVE  /\ a.kind = "declare" =>
              MeantEffect(m, a) =
                IF m.config[a.name] = Unset /\ a.default # NoKey
                THEN Effect([m.config EXCEPT ![a.name] = a.default], m.commands, FALSE) ELSE m
         /\ a.kind = "process" =>
              MeantEffect(m, a) =
                IF Unfit(WordsIn(m.config, a.cmd)) THEN Effect(m.config, m.commands, TRUE)
                ELSE Effect(m.config, Append(m.commands, WordsIn(m.config, a.cmd)), FALSE)
  <1>1. ASSUME a.kind = "declare"
        PROVE  MeantEffect(m, a) =
                 IF m.config[a.name] = Unset /\ a.default # NoKey
                 THEN Effect([m.config EXCEPT ![a.name] = a.default], m.commands, FALSE) ELSE m
    BY <1>1, Zenon DEF MeantEffect
  <1>2. ASSUME a.kind = "process"
        PROVE  MeantEffect(m, a) =
                 IF Unfit(WordsIn(m.config, a.cmd)) THEN Effect(m.config, m.commands, TRUE)
                 ELSE Effect(m.config, Append(m.commands, WordsIn(m.config, a.cmd)), FALSE)
    <2>1. a.kind # "declare"
      BY <1>2
    <2>. QED
      BY <2>1, Zenon DEF MeantEffect, Unfit, WordsIn
  <1>. QED
    BY <1>1, <1>2

\* Commands are only added.
Extends(ws, us) == Len(us) <= Len(ws) /\ \A i \in 1 .. Len(us) : ws[i] = us[i]

\* The effect of an action is an effect; commands are only added, and nothing
\* helps a launch that is stuck.
LEMMA EffectTyped ==
  ASSUME NEW m \in Effects, NEW a \in FileActions
  PROVE  /\ MeantEffect(m, a) \in Effects /\ Extends(MeantEffect(m, a).commands, m.commands)
         /\ MeantEffect(m, a).stuck = FALSE => ~m.stuck
  <1>1. /\ m.config \in Configs /\ m.commands \in Commands /\ m.stuck \in BOOLEAN
        /\ Len(m.commands) \in Nat
    BY DEF Effects, Commands
  <1>2. Extends(m.commands, m.commands)
    BY <1>1 DEF Extends
  <1>3. CASE m.stuck
    <2>1. MeantEffect(m, a) = m
      BY <1>3 DEF MeantEffect
    <2>. QED
      BY <1>2, <1>3, <2>1
  <1>4. CASE ~m.stuck /\ a.kind = "declare"
    <2>1. a.name \in Keys /\ a.default \in Keys
      BY <1>4 DEF FileActions
    <2>2. CASE m.config[a.name] = Unset /\ a.default # NoKey
      <3>1. a.default \in Values
        BY <2>1, <2>2, CommandLineAssumption
      <3>2. PICK c \in Configs : c = [m.config EXCEPT ![a.name] = a.default]
        BY <1>1, <2>1, <3>1 DEF Configs
      <3>3. MeantEffect(m, a) = Effect(c, m.commands, FALSE)
        BY <1>4, <2>2, <3>2, EffectIs
      <3>. QED
        BY <1>1, <1>2, <1>4, <3>3 DEF Effect, Effects
    <2>3. CASE ~(m.config[a.name] = Unset /\ a.default # NoKey)
      <3>1. MeantEffect(m, a) = m
        BY <1>4, <2>3, EffectIs
      <3>. QED
        BY <1>2, <1>4, <3>1
    <2>. QED
      BY <2>2, <2>3
  <1>5. CASE ~m.stuck /\ a.kind = "process"
    <2>1. PICK w \in Seq(Seq(Chars)) : w = WordsIn(m.config, a.cmd)
      <3>1. a.cmd \in Seq(FileExprs)
        BY <1>5 DEF FileActions
      <3>. QED
        BY <1>1, <3>1, WordsInAre
    <2>2. PICK ws \in Commands : ws = Append(m.commands, w) /\ Extends(ws, m.commands)
      <3>1. PICK A : A = Seq(Seq(Chars)) /\ Commands = Seq(A) /\ w \in A
        BY <2>1 DEF Commands
      <3>2. PICK us \in Seq(A) : us = m.commands
        BY <1>1, <3>1
      <3>3. PICK v \in A : v = w
        BY <3>1
      <3>4. Append(us, v) \in Seq(A)
        OBVIOUS
      <3>5. Len(Append(us, v)) = Len(us) + 1 /\ Len(us) \in Nat
            /\ \A i \in 1 .. Len(us) : Append(us, v)[i] = us[i]
        OBVIOUS
      <3>6. PICK x \in Seq(A) : x = Append(us, v)
        BY <3>4
      <3>7. Extends(x, us)
        BY <3>5, <3>6 DEF Extends
      <3>. QED
        BY <3>1, <3>2, <3>3, <3>6, <3>7, Zenon
    <2>4. MeantEffect(m, a) = IF Unfit(w) THEN Effect(m.config, m.commands, TRUE)
                              ELSE Effect(m.config, ws, FALSE)
      BY <1>5, <2>1, <2>2, EffectIs
    <2>. QED
      BY <1>1, <1>2, <1>5, <2>2, <2>4 DEF Effect, Effects
  <1>6. a.kind \in {"declare", "process"}
    BY DEF FileActions
  <1>. QED
    BY <1>3, <1>4, <1>5, <1>6

\* A word and the strings of an entity are of their types.
LEMMA WordsTyped ==
  ASSUME NEW e \in Entities, NEW k
  PROVE  WordOf(e, k) \in Keys /\ WordsOf(e, k) \in Seq(Strings)
  <1>1. /\ DOMAIN e = 1 .. Len(e) /\ \A i \in DOMAIN e : e[i][2] \in Rests
    <2>1. /\ DOMAIN e = 1 .. Len(e) /\ \A i \in 1 .. Len(e) : e[i] \in Fielded
      BY EntityIs
    <2>. QED
      BY <2>1 DEF Fielded
  <1>2. WordOf(e, k) \in Keys
    <2>1. PICK at : at = {i \in DOMAIN e : e[i][1] = k /\ e[i][2][1] = "word" /\ e[i][2][2] \in Strings}
      OBVIOUS
    <2>2. WordOf(e, k) = IF at = {} THEN NoKey ELSE e[CHOOSE i \in at : TRUE][2][2]
      BY <2>1 DEF WordOf
    <2>3. ASSUME at # {} PROVE e[CHOOSE i \in at : TRUE][2][2] \in Strings
      <3>1. (CHOOSE i \in at : TRUE) \in at
        BY <2>3
      <3>. QED
        BY <2>1, <3>1
    <2>. QED
      BY <2>2, <2>3, CommandLineAssumption
  <1>3. WordsOf(e, k) \in Seq(Strings)
    <2>1. PICK at : at = {i \in DOMAIN e : e[i][1] = k /\ e[i][2][1] = "list"}
      OBVIOUS
    <2>2. CASE at = {}
      <3>1. WordsOf(e, k) = <<>>
        BY <2>1, <2>2, Zenon DEF WordsOf
      <3>. QED
        BY <3>1
    <2>3. CASE at # {}
      <3>1. PICK i : i = (CHOOSE j \in at : TRUE)
        OBVIOUS
      <3>2. i \in at
        BY <2>3, <3>1
      <3>3. PICK r \in Rests : r = e[i][2] /\ r[1] = "list"
        BY <1>1, <2>1, <3>2
      <3>4. PICK ws \in Seq(Words) : ws = r[2]
        BY <3>3, RestsAre
      <3>5. PICK I : I = {j \in DOMAIN ws : ws[j] \in Strings}
        OBVIOUS
      <3>6. PICK o \in Seq(I) : o = InOrder(I, Len(ws))
        <4>1. Len(ws) \in Nat
          OBVIOUS
        <4>. QED
          BY <4>1, InOrderIs
      <3>7. PICK us : us = WordsOf(e, k)
        OBVIOUS
      <3>8. us = [j \in DOMAIN o |-> ws[o[j]]]
        <4>1. e[CHOOSE j \in at : TRUE][2][2] = ws
          BY <3>1, <3>3, <3>4
        <4>. QED
          BY <2>1, <2>3, <3>5, <3>6, <3>7, <4>1, Zenon DEF WordsOf
      <3>9. us = [j \in 1 .. Len(o) |-> us[j]] /\ Len(o) \in Nat /\ \A j \in 1 .. Len(o) : us[j] \in Strings
        BY <3>5, <3>8
      <3>. QED
        BY <3>7, <3>9, IsSequence
    <2>. QED
      BY <2>2, <2>3
  <1>. QED
    BY <1>2, <1>3

\* The substitutions of a command.
LEMMA SubstitutionsTyped ==
  ASSUME NEW ws \in Seq(Strings)
  PROVE  [i \in DOMAIN ws |-> Substitution(ws[i])] \in Seq(FileExprs)
  <1>1. \A w \in Strings : Substitution(w) \in FileExprs
    BY CommandLineAssumption DEF Substitution, FileExprs
  <1>2. PICK g : g = [i \in DOMAIN ws |-> Substitution(ws[i])]
    OBVIOUS
  <1>3. g = [i \in 1 .. Len(ws) |-> g[i]] /\ Len(ws) \in Nat /\ \A i \in 1 .. Len(ws) : g[i] \in FileExprs
    BY <1>1, <1>2
  <1>. QED
    BY <1>2, <1>3, IsSequence

\* The action that is meant by an entity.
LEMMA MeantActionTyped ==
  ASSUME NEW e \in Entities
  PROVE  MeantAction(e) \in FileActions
  <1>1. \A k : WordOf(e, k) \in Keys /\ WordsOf(e, k) \in Seq(Strings)
    BY WordsTyped
  <1>2. CASE WordOf(e, "type") = Process
    <2>1. PICK n \in Keys, o \in Keys, ds \in Seq(Strings), ws \in Seq(Strings) :
            n = WordOf(e, "name") /\ o = WordOf(e, "output") /\ ds = WordsOf(e, "depends_on") /\ ws = WordsOf(e, "cmd")
      BY <1>1
    <2>2. PICK cmd \in Seq(FileExprs) : cmd = [i \in DOMAIN ws |-> Substitution(ws[i])]
      BY SubstitutionsTyped
    <2>3. MeantAction(e) = [kind |-> "process", name |-> n, cmd |-> cmd, output |-> o, depends |-> ds]
      BY <1>2, <2>1, <2>2 DEF MeantAction
    <2>. QED
      BY <2>3 DEF FileActions
  <1>3. CASE WordOf(e, "type") # Process
    <2>1. MeantAction(e) = [kind |-> "declare", name |-> WordOf(e, "name"),
                            default |-> WordOf(e, "default_value")]
      BY <1>3, Zenon DEF MeantAction
    <2>. QED
      BY <1>1, <2>1 DEF FileActions
  <1>. QED
    BY <1>2, <1>3

\* The description that is meant by a file.
LEMMA MeantDescriptionTyped ==
  ASSUME NEW s \in Sources
  PROVE  MeantDescription(s).actions \in Seq(FileActions)
  <1>1. PICK es \in Seq(Entities) : es = s.entities
    BY LaunchFileAssumption
  <1>2. CASE es = <<>>
    <2>1. MeantDescription(s) = Error
      BY <1>1, <1>2, Zenon DEF MeantDescription
    <2>. QED
      BY <2>1 DEF Error
  <1>3. CASE es # <<>>
    <2>1. PICK I : I = {i \in DOMAIN es : WordOf(es[i], "type") \in {Process, Declare}}
      OBVIOUS
    <2>2. PICK o \in Seq(I) : o = InOrder(I, Len(es))
      <3>1. Len(es) \in Nat
        OBVIOUS
      <3>. QED
        BY <3>1, InOrderIs
    <2>3. PICK acts : acts = [i \in DOMAIN o |-> MeantAction(es[o[i]])]
      OBVIOUS
    <2>4. MeantDescription(s) = Description(acts)
      BY <1>1, <1>3, <2>1, <2>2, <2>3, Zenon DEF MeantDescription
    <2>5. /\ acts = [i \in 1 .. Len(o) |-> acts[i]] /\ Len(o) \in Nat
          /\ \A i \in 1 .. Len(o) : acts[i] \in FileActions
      <3>1. \A i \in 1 .. Len(o) : es[o[i]] \in Entities
        BY <2>1
      <3>2. \A i \in 1 .. Len(o) : MeantAction(es[o[i]]) \in FileActions
        BY <3>1, MeantActionTyped
      <3>. QED
        BY <2>3, <3>2
    <2>6. acts \in Seq(FileActions)
      BY <2>5, IsSequence
    <2>. QED
      BY <2>4, <2>6 DEF Description
  <1>. QED
    BY <1>2, <1>3

\* A is the effect of the first actions, one after the other.
Course(A, acts) ==
  /\ A \in [0 .. Len(acts) -> Effects]
  /\ A[0] = NoEffect
  /\ \A i \in 1 .. Len(acts) : A[i] = MeantEffect(A[i - 1], acts[i])

\* The recursive definition of the effects has a function, the course of them.
LEMMA MeantAfterIs ==
  ASSUME NEW acts \in Seq(FileActions)
  PROVE  Course(MeantAfter(acts), acts)
  <1> DEFINE D == [i \in 1 .. Len(acts) |-> [m \in Effects |-> MeantEffect(m, acts[i])]]
             Eqn(g) == g = [n \in 0 .. Len(acts) |->
                              IF n = 0 THEN NoEffect ELSE MeantEffect(g[n - 1], acts[n])]
  <1>1. Len(acts) \in Nat /\ \A i \in 1 .. Len(acts) : acts[i] \in FileActions
    OBVIOUS
  <1>2. NoEffect \in Effects
    <2>1. PICK c : c = [k \in Keys |-> Unset]
      OBVIOUS
    <2>2. c \in Configs
      BY <2>1 DEF Configs
    <2>3. <<>> \in Commands
      BY DEF Commands
    <2>4. NoEffect = Effect(c, <<>>, FALSE)
      BY <2>1 DEF NoEffect
    <2>. QED
      BY <2>2, <2>3, <2>4 DEF Effect, Effects
  <1>3. PICK f \in [0 .. Len(acts) -> Effects] : Steps(f, D, Len(acts), NoEffect)
    <2>1. ASSUME NEW i \in 1 .. Len(acts), NEW m \in Effects PROVE D[i][m] \in Effects
      <3>1. MeantEffect(m, acts[i]) \in Effects
        BY <1>1, EffectTyped
      <3>. QED
        BY <3>1
    <2> HIDE DEF D
    <2>2. StayIn(Effects, D, Len(acts))
      BY <2>1 DEF StayIn
    <2>. QED
      BY <1>1, <1>2, <2>2, StepsExist
  <1>4. f[0] = NoEffect /\ \A i \in 1 .. Len(acts) : f[i] = MeantEffect(f[i - 1], acts[i])
    <2>1. ASSUME NEW i \in 1 .. Len(acts) PROVE f[i] = MeantEffect(f[i - 1], acts[i])
      <3>1. i - 1 \in 0 .. Len(acts)
        BY <1>1
      <3>2. PICK m \in Effects : m = f[i - 1]
        BY <3>1
      <3>3. f[i] = D[i][m]
        BY <1>3, <3>2 DEF Steps
      <3>. QED
        BY <3>2, <3>3
    <2>2. f[0] = NoEffect
      BY <1>3 DEF Steps
    <2>. QED
      BY <2>1, <2>2
  <1> HIDE DEF D
  <1>5. Eqn(f)
    <2>1. \A n \in 0 .. Len(acts) :
            f[n] = IF n = 0 THEN NoEffect ELSE MeantEffect(f[n - 1], acts[n])
      BY <1>1, <1>4
    <2>. QED
      BY <2>1
  <1> DEFINE A == CHOOSE g : Eqn(g)
  <1>6. Eqn(A)
    <2> HIDE DEF Eqn
    <2>. QED
      BY <1>5
  <1>7. MeantAfter(acts) = A
    BY Zenon DEF MeantAfter
  <1> HIDE DEF A
  <1> DEFINE S == {n \in 0 .. Len(acts) : A[n] = f[n]}
  <1>8. \A n \in 0 .. Len(acts) : n \in S
    <2>1. 0 \in S
      BY <1>1, <1>4, <1>6
    <2>2. ASSUME NEW n \in 0 .. Len(acts) - 1, n \in S PROVE n + 1 \in S
      <3>1. n + 1 \in 1 .. Len(acts) /\ (n + 1) - 1 = n
        BY <1>1
      <3>2. PICK j \in 1 .. Len(acts) : j = n + 1 /\ j - 1 = n /\ j # 0 /\ j \in 0 .. Len(acts)
        BY <1>1, <3>1
      <3>3. A[j] = MeantEffect(A[n], acts[j])
        BY <1>6, <3>2
      <3>4. f[j] = MeantEffect(f[n], acts[j])
        BY <1>4, <3>2
      <3>. QED
        BY <2>2, <3>2, <3>3, <3>4
    <2> HIDE DEF S
    <2>. QED
      BY <1>1, <2>1, <2>2, Reaches
  <1>9. A = f
    <2>1. PICK h : h = A
      OBVIOUS
    <2>2. h = [n \in 0 .. Len(acts) |-> h[n]]
      BY <1>6, <2>1
    <2>3. \A n \in 0 .. Len(acts) : h[n] = f[n]
      BY <1>8, <2>1
    <2>. QED
      BY <2>1, <2>2, <2>3
  <1>. QED
    BY <1>4, <1>7, <1>9 DEF Course

\* The commands before an action are the first of those in the end, and nothing
\* after one that must not be run counts.
LEMMA CourseGrows ==
  ASSUME NEW acts \in Seq(FileActions), NEW A, Course(A, acts), NEW k \in 0 .. Len(acts)
  PROVE  /\ Extends(A[Len(acts)].commands, A[k].commands)
         /\ A[Len(acts)].stuck = FALSE => A[k].stuck = FALSE
  <1> DEFINE n == Len(acts)
             S == {i \in 0 .. n : Extends(A[n].commands, A[i].commands)
                                  /\ (A[n].stuck = FALSE => A[i].stuck = FALSE)}
  <1>1. n \in Nat /\ \A i \in 1 .. n : acts[i] \in FileActions
    OBVIOUS
  <1>2. /\ \A i \in 0 .. n : A[i] \in Effects
        /\ \A i \in 1 .. n : A[i] = MeantEffect(A[i - 1], acts[i])
    BY DEF Course
  <1>3. ASSUME NEW i \in 0 .. n PROVE Len(A[i].commands) \in Nat
    <2>1. A[i].commands \in Commands
      BY <1>2 DEF Effects
    <2>. QED
      BY <2>1 DEF Commands
  <1>4. n \in S
    <2>1. n \in 0 .. n
      BY <1>1
    <2>2. Len(A[n].commands) \in Nat
      BY <1>3, <2>1
    <2>. QED
      BY <2>1, <2>2 DEF Extends
  <1>5. ASSUME NEW i \in 1 .. n, i \in S PROVE i - 1 \in S
    <2>1. i - 1 \in 0 .. n /\ i \in 0 .. n /\ n \in 0 .. n
      BY <1>1
    <2>2. PICK m \in Effects, a \in FileActions : m = A[i - 1] /\ a = acts[i] /\ A[i] = MeantEffect(m, a)
      BY <1>1, <1>2, <2>1
    <2>3. Extends(A[i].commands, m.commands) /\ (A[i].stuck = FALSE => ~m.stuck)
      BY <2>2, EffectTyped
    <2>4. Extends(A[n].commands, A[i].commands) /\ (A[n].stuck = FALSE => A[i].stuck = FALSE)
      BY <1>5
    <2>5. Extends(A[n].commands, A[i - 1].commands)
      <3>1. PICK u, v, w : u = A[n].commands /\ v = A[i].commands /\ w = A[i - 1].commands
        OBVIOUS
      <3>2. Len(u) \in Nat /\ Len(v) \in Nat /\ Len(w) \in Nat
        BY <1>3, <2>1, <3>1
      <3>3. Extends(u, v) /\ Extends(v, w)
        BY <2>2, <2>3, <2>4, <3>1
      <3>4. Extends(u, w)
        BY <3>2, <3>3 DEF Extends
      <3>. QED
        BY <3>1, <3>4
    <2>6. m.stuck \in BOOLEAN
      BY DEF Effects
    <2>. QED
      BY <2>1, <2>2, <2>3, <2>4, <2>5, <2>6
  <1>6. \A i \in 0 .. n : i \in S
    <2> HIDE DEF S
    <2>. QED
      BY <1>1, <1>4, <1>5, ReachesDown
  <1>. QED
    BY <1>6

\* What escape_argument() gives is a string.
LEMMA EscapeTyped ==
  ASSUME NEW a \in Seq(Chars)
  PROVE  escape_argument(a) \in Seq(Chars)
  <1>1. CASE ~needs_quoting(a)
    BY <1>1 DEF escape_argument
  <1>2. CASE needs_quoting(a)
    <2>1. PICK ss \in Seq(Seq(Chars)) : escape_argument(a) = Quoted(FlattenSeq(ss))
      BY <1>2, EscapesAre
    <2>2. PICK f \in [0 .. Len(ss) -> Seq(Chars)] : f[Len(ss)] = FlattenSeq(ss)
      BY Flattened, Zenon
    <2>3. Len(ss) \in 0 .. Len(ss)
      OBVIOUS
    <2>4. PICK F \in Seq(Chars) : F = FlattenSeq(ss)
      BY <2>2, <2>3
    <2>. QED
      BY <2>1, <2>4, QuotedIs
  <1>. QED
    BY <1>1, <1>2

\* The arguments that execvp() is given.
Given(w) == [i \in DOMAIN w |-> escape_argument(w[i])]

\* The arguments of a command that validates arrive as they are meant.
LEMMA ArgumentsArrive ==
  ASSUME NEW w \in Seq(Seq(Chars)), Valid(w)
  PROVE  Given(w) \in Seq(Seq(Chars)) /\ Arrives(Given(w), w)
  <1>1. PICK g : g = Given(w)
    OBVIOUS
  <1>2. /\ DOMAIN w = 1 .. Len(w) /\ Len(w) \in Nat
        /\ \A i \in 1 .. Len(w) : w[i] \in Seq(Chars) /\ w[i] # <<>>
    BY DEF Valid
  <1>3. g = [i \in 1 .. Len(w) |-> g[i]] /\ \A i \in 1 .. Len(w) : g[i] = escape_argument(w[i])
    BY <1>1, <1>2 DEF Given
  <1>4. g \in Seq(Seq(Chars))
    <2>1. \A i \in 1 .. Len(w) : g[i] \in Seq(Chars)
      BY <1>2, <1>3, EscapeTyped
    <2>. QED
      BY <1>2, <1>3, <2>1, IsSequence
  <1>5. \A i \in 1 .. Len(w) : Unquoted(g[i]) = w[i]
    BY <1>2, <1>3, EscapeUndone
  <1>6. ASSUME NEW i \in 1 .. Len(w), ToSet(w[i]) = {"plain"} PROVE g[i] = w[i]
    <2>1. \A j \in DOMAIN w[i] : w[i][j] = "plain"
      BY <1>6 DEF ToSet
    <2>2. ~needs_quoting(w[i])
      BY <2>1 DEF needs_quoting
    <2>. QED
      BY <1>3, <2>2 DEF escape_argument
  <1>7. DOMAIN g = DOMAIN w
    BY <1>1 DEF Given
  <1>. QED
    BY <1>1, <1>2, <1>4, <1>5, <1>6, <1>7 DEF Arrives

-----------------------------------------------------------------------------
(* The inductive invariant.                                                *)

\* What the file means to be run, and the effect meant of its actions so far.
Acts == MeantDescription(source).actions
Reached == MeantAfter(Acts)[next - 1]

\* The launch follows it.
AsMeant ==
  /\ next \in 1 .. Len(Acts) + 1 /\ launched \in Commands
  /\ ~Reached.stuck /\ config = Reached.config
  /\ Len(launched) = Len(Reached.commands)
  /\ \A i \in 1 .. Len(launched) : Arrives(launched[i], Reached.commands[i])
  /\ exit = 0 => next = Len(Acts) + 1

Untouched == next = 1 /\ launched = <<>> /\ config = [k \in Keys |-> Unset]

FileInv ==
  /\ source \in Sources /\ phase \in {"written", "parsed", "built"}
  /\ ParsedAsWritten /\ BuiltAsWritten
LaunchInv ==
  /\ phase # "built" => Untouched
  /\ phase = "built" /\ Supported(source) /\ NoneFromEnvironment(Acts) => AsMeant

\* What is read and built is what is meant.
LEMMA FileInvHolds == LaunchSpec => []FileInv
  <1>1. LaunchInit => FileInv
    BY DEF LaunchInit, Init, FileInv, ParsedAsWritten, BuiltAsWritten
  <1>2. FileInv /\ [LaunchNext]_launchVars => FileInv'
    <2> SUFFICES ASSUME FileInv, [LaunchNext]_launchVars
                 PROVE  FileInv'
      OBVIOUS
    <2>1. CASE ParseFile
      <3>1. Supported(source) => Parse(Text(source)) = MeantValue(source)
        BY ParsesAsMeant DEF FileInv
      <3>. QED
        BY <2>1, <3>1 DEF ParseFile, FileInv, ParsedAsWritten, BuiltAsWritten
    <2>2. CASE BuildDescription
      <3>1. Build(MeantValue(source)) = MeantDescription(source)
        BY BuildsAsMeant DEF FileInv
      <3>. QED
        BY <2>2, <3>1 DEF BuildDescription, FileInv, ParsedAsWritten, BuiltAsWritten
    <2>3. CASE UNCHANGED vars
      BY <2>3 DEF vars, FileInv, ParsedAsWritten, BuiltAsWritten
    <2>4. ParseFile \/ BuildDescription \/ UNCHANGED vars
      BY Zenon DEF launchVars, LaunchNext, PrintUsage, Load, DeclareArgument, StartProcess,
                   ProcessFails, Finish
    <2>. QED
      BY <2>1, <2>2, <2>3, <2>4
  <1>. QED
    BY <1>1, <1>2, PTL DEF LaunchSpec

\* Where the launch is in what is meant.
LEMMA ReachedIs ==
  ASSUME FileInv, AsMeant
  PROVE  /\ Acts \in Seq(FileActions) /\ Course(MeantAfter(Acts), Acts)
         /\ next - 1 \in 0 .. Len(Acts) /\ Reached \in Effects
  <1>1. Acts \in Seq(FileActions)
    BY MeantDescriptionTyped DEF FileInv, Acts
  <1>2. Course(MeantAfter(Acts), Acts)
    BY <1>1, MeantAfterIs
  <1>3. next - 1 \in 0 .. Len(Acts)
    <2>1. Len(Acts) \in Nat
      BY <1>1
    <2>. QED
      BY <2>1 DEF AsMeant
  <1>. QED
    BY <1>1, <1>2, <1>3 DEF Course, Reached

\* The description is there: nothing has been done of it.
LEMMA AsMeantAtFirst ==
  ASSUME FileInv, Untouched', UNCHANGED source, exit' # 0
  PROVE  AsMeant'
  <1>1. PICK acts \in Seq(FileActions) : acts = Acts /\ acts = Acts'
    BY MeantDescriptionTyped DEF FileInv, Acts
  <1>2. MeantAfter(acts)[0] = NoEffect
    BY MeantAfterIs DEF Course
  <1>3. Reached' = NoEffect
    <2>1. Reached' = MeantAfter(acts)[next' - 1]
      BY <1>1 DEF Reached
    <2>2. next' - 1 = 0
      BY DEF Untouched
    <2>. QED
      BY <1>2, <2>1, <2>2
  <1>4. /\ NoEffect.config = [k \in Keys |-> Unset]
        /\ NoEffect.commands = <<>> /\ NoEffect.stuck = FALSE
    BY DEF NoEffect, Effect
  <1>5. next' \in 1 .. Len(acts) + 1
    <2>1. Len(acts) \in Nat
      OBVIOUS
    <2>. QED
      BY <2>1 DEF Untouched
  <1>6. launched' = <<>> /\ launched' \in Commands /\ Len(launched') = 0
    BY DEF Untouched, Commands
  <1>. QED
    BY <1>1, <1>3, <1>4, <1>5, <1>6 DEF AsMeant, Untouched

\* The next action has the effect that is meant.
LEMMA AsMeantNext ==
  ASSUME FileInv, AsMeant, description.actions = Acts,
         next \in DOMAIN description.actions, UNCHANGED <<source, exit>>, exit = Unset,
         next' = next + 1
  PROVE  /\ description.actions[next] \in FileActions
         /\ Reached' = MeantEffect(Reached, description.actions[next])
         /\ next' \in 1 .. Len(Acts') + 1 /\ exit' # 0
  <1>1. /\ Acts \in Seq(FileActions) /\ Course(MeantAfter(Acts), Acts) /\ Acts' = Acts
    BY ReachedIs DEF Acts
  <1>2. PICK acts \in Seq(FileActions) : acts = Acts /\ acts = description.actions /\ Course(MeantAfter(acts), acts)
    BY <1>1 DEF Description
  <1>3. next \in 1 .. Len(acts) /\ Len(acts) \in Nat /\ acts[next] \in FileActions
    BY <1>2
  <1>4. MeantAfter(acts)[next] = MeantEffect(MeantAfter(acts)[next - 1], acts[next])
    BY <1>2, <1>3 DEF Course
  <1>5. Reached' = MeantAfter(acts)[next]
    <2>1. next' - 1 = next
      BY <1>3
    <2>. QED
      BY <1>1, <1>2, <2>1 DEF Reached
  <1>6. Reached = MeantAfter(acts)[next - 1]
    BY <1>2 DEF Reached
  <1>7. next' \in 1 .. Len(acts) + 1
    BY <1>3
  <1>8. exit' # 0
    BY CommandLineAssumption
  <1>. QED
    BY <1>1, <1>2, <1>3, <1>4, <1>5, <1>6, <1>7, <1>8

\* An argument is declared as it is meant,
LEMMA DeclareAsMeant ==
  ASSUME FileInv, AsMeant, description.actions = Acts, DeclareArgument
  PROVE  AsMeant'
  <1>1. /\ next \in DOMAIN description.actions /\ exit = Unset /\ UNCHANGED <<source, exit>>
        /\ Current.kind = "declare" /\ UNCHANGED launched /\ next' = next + 1
    BY DEF DeclareArgument, Visiting, Current, vars
  <1>2. PICK a \in FileActions : /\ a = Current /\ Reached' = MeantEffect(Reached, a)
                                 /\ next' \in 1 .. Len(Acts') + 1 /\ exit' # 0
    BY <1>1, AsMeantNext DEF Current
  <1>3. PICK m \in Effects : m = Reached /\ ~m.stuck /\ config = m.config
    BY ReachedIs DEF AsMeant
  <1>4. /\ a.kind = "declare"
        /\ MeantEffect(m, a) = IF config[a.name] = Unset /\ a.default # NoKey
                               THEN Effect([config EXCEPT ![a.name] = a.default], m.commands, FALSE)
                               ELSE m
    <2>1. a.kind = "declare"
      BY <1>1, <1>2
    <2>. QED
      BY <1>3, <2>1, EffectIs
  <1>5. config' = IF config[a.name] = Unset /\ a.default # NoKey
                  THEN [config EXCEPT ![a.name] = a.default] ELSE config
    BY <1>2 DEF DeclareArgument
  <1>6. /\ Reached'.config = config' /\ ~Reached'.stuck /\ Reached'.commands = Reached.commands
    <2>1. CASE config[a.name] = Unset /\ a.default # NoKey
      <3>1. Reached' = Effect(config', m.commands, FALSE)
        BY <1>2, <1>3, <1>4, <1>5, <2>1
      <3>. QED
        BY <1>3, <3>1 DEF Effect
    <2>2. CASE ~(config[a.name] = Unset /\ a.default # NoKey)
      BY <1>2, <1>3, <1>4, <1>5, <2>2
    <2>. QED
      BY <2>1, <2>2
  <1>. QED
    BY <1>1, <1>2, <1>6 DEF AsMeant

\* and a process started, where the environment has no part in its words.
LEMMA StartAsMeant ==
  ASSUME FileInv, AsMeant, description.actions = Acts, NoneFromEnvironment(Acts), StartProcess
  PROVE  AsMeant'
  <1>1. /\ next \in DOMAIN description.actions /\ exit = Unset /\ UNCHANGED <<source, exit>>
        /\ Current.kind = "process" /\ UNCHANGED config /\ next' = next + 1 /\ Valid(Resolved)
        /\ launched' = Append(launched, Given(Resolved))
    BY DEF StartProcess, Visiting, Current, vars, Given
  <1>2. PICK a \in FileActions : /\ a = Current /\ Reached' = MeantEffect(Reached, a)
                                 /\ next' \in 1 .. Len(Acts') + 1 /\ exit' # 0
    BY <1>1, AsMeantNext DEF Current
  <1>3. PICK m \in Effects : m = Reached /\ ~m.stuck /\ config = m.config
    BY ReachedIs DEF AsMeant
  <1>4. a.kind = "process" /\ a.cmd \in Seq(FileExprs)
    <2>1. a.kind = "process"
      BY <1>1, <1>2
    <2>. QED
      BY <2>1 DEF FileActions
  <1>5. config \in Configs
    BY <1>3 DEF Effects
  <1>6. PICK w \in Seq(Seq(Chars)) : w = WordsIn(config, a.cmd) /\ w = Resolved
    <2>1. Resolved = [i \in DOMAIN a.cmd |-> Spelling[PerformIn(config, a.cmd[i])]]
      BY <1>2 DEF Resolved
    <2>2. \A x \in ToSet(a.cmd) : OwnWord(config, x)
      <3>1. next \in DOMAIN Acts /\ Acts[next] = a
        BY <1>1, <1>2 DEF Current
      <3>2. \A x \in ToSet(a.cmd) : x[1] = "var" /\ InEnvironment(x[2]) => Reached.config[x[2]] # Unset
        BY <1>4, <3>1 DEF NoneFromEnvironment, Reached
      <3>. QED
        BY <1>3, <3>2 DEF OwnWord
    <2>. QED
      BY <1>4, <1>5, <2>1, <2>2, WordsInAre
  <1>7. ~Unfit(w)
    <2>1. w # <<>> /\ \A i \in DOMAIN w : w[i] # <<>>
      BY <1>1, <1>6 DEF Valid
    <2>. QED
      BY <2>1 DEF Unfit, ToSet
  <1>8. Reached' = Effect(config, Append(m.commands, w), FALSE)
    <2>1. MeantEffect(m, a) =
            IF Unfit(WordsIn(m.config, a.cmd)) THEN Effect(m.config, m.commands, TRUE)
            ELSE Effect(m.config, Append(m.commands, WordsIn(m.config, a.cmd)), FALSE)
      BY <1>3, <1>4, EffectIs
    <2>2. m.config = config /\ WordsIn(m.config, a.cmd) = w
      BY <1>3, <1>6
    <2>3. MeantEffect(m, a) = Effect(config, Append(m.commands, w), FALSE)
      BY <1>7, <2>1, <2>2, Zenon
    <2>. QED
      BY <1>2, <1>3, <2>3
  <1>9. Given(w) \in Seq(Seq(Chars)) /\ Arrives(Given(w), w)
    BY <1>1, <1>6, ArgumentsArrive
  <1>10. PICK C : C = Seq(Seq(Chars)) /\ Commands = Seq(C)
    BY DEF Commands
  <1>11. PICK ls \in Seq(C), ms \in Seq(C) : ls = launched /\ ms = m.commands /\ Len(ls) = Len(ms)
    BY <1>3, <1>10 DEF AsMeant, Effects
  <1>12. PICK g \in C : g = Given(w)
    BY <1>9, <1>10
  <1>13. PICK v \in C : v = w
    BY <1>10
  <1>14. PICK n \in Nat : n = Len(ls) /\ n = Len(ms)
    BY <1>11
  <1>15. PICK us \in Seq(C) : /\ us = Append(ls, g) /\ Len(us) = n + 1 /\ us[n + 1] = g
                              /\ \A i \in 1 .. n : us[i] = ls[i]
    <2>1. Append(ls, g) \in Seq(C) /\ Len(Append(ls, g)) = Len(ls) + 1 /\ Append(ls, g)[Len(ls) + 1] = g
          /\ \A i \in 1 .. Len(ls) : Append(ls, g)[i] = ls[i]
      BY AppendFacts
    <2>. QED
      BY <1>14, <2>1
  <1>16. PICK vs \in Seq(C) : /\ vs = Append(ms, v) /\ Len(vs) = n + 1 /\ vs[n + 1] = v
                              /\ \A i \in 1 .. n : vs[i] = ms[i]
    <2>1. Append(ms, v) \in Seq(C) /\ Len(Append(ms, v)) = Len(ms) + 1 /\ Append(ms, v)[Len(ms) + 1] = v
          /\ \A i \in 1 .. Len(ms) : Append(ms, v)[i] = ms[i]
      BY AppendFacts
    <2>. QED
      BY <1>14, <2>1
  <1>17. launched' = us /\ Reached' = Effect(config, vs, FALSE)
    BY <1>1, <1>6, <1>8, <1>11, <1>12, <1>13, <1>15, <1>16
  <1>18. \A i \in 1 .. n + 1 : Arrives(us[i], vs[i])
    <2>1. \A i \in 1 .. n : Arrives(us[i], vs[i])
      BY <1>3, <1>11, <1>14, <1>15, <1>16 DEF AsMeant
    <2>2. Arrives(us[n + 1], vs[n + 1])
      BY <1>9, <1>12, <1>13, <1>15, <1>16
    <2>3. \A i \in 1 .. n + 1 : i \in 1 .. n \/ i = n + 1
      OBVIOUS
    <2>. QED
      BY <2>1, <2>2, <2>3
  <1>19. Reached'.commands = vs /\ Reached'.config = config /\ ~Reached'.stuck
    BY <1>17 DEF Effect
  <1>20. launched' \in Commands
    BY <1>10, <1>15, <1>17
  <1>. QED
    BY <1>1, <1>2, <1>15, <1>16, <1>17, <1>18, <1>19, <1>20 DEF AsMeant

\* What a file means does not change while it is launched.
LEMMA SameActs ==
  ASSUME UNCHANGED source
  PROVE  UNCHANGED NoneFromEnvironment(Acts)
  <1>1. Acts' = Acts
    BY DEF Acts
  <1>. QED
    BY <1>1 DEF NoneFromEnvironment

\* The launch does what is meant, as far as it is.
LEMMA LaunchInvHolds == LaunchSpec => []LaunchInv
  <1>1. LaunchInit => LaunchInv
    BY DEF LaunchInit, Init, LaunchInv, Untouched
  <1>2. FileInv /\ FileInv' /\ LaunchInv /\ [LaunchNext]_launchVars => LaunchInv'
    <2> SUFFICES ASSUME FileInv, FileInv', LaunchInv, [LaunchNext]_launchVars
                 PROVE  LaunchInv'
      OBVIOUS
    <2>1. phase = "built" /\ Supported(source) => description.actions = Acts
      BY DEF FileInv, BuiltAsWritten, Acts
    <2>2. CASE ParseFile /\ UNCHANGED lineVars
      BY <2>2 DEF ParseFile, lineVars, LaunchInv, Untouched
    <2>3. CASE BuildDescription /\ exit = Unset /\ UNCHANGED <<next, launched, config>> /\ exit' \in {Unset, 1}
      <3>1. phase # "built" /\ phase' = "built" /\ UNCHANGED source
        BY <2>3 DEF BuildDescription
      <3>2. Untouched'
        BY <2>3, <3>1 DEF LaunchInv, Untouched
      <3>3. exit' # 0
        BY <2>3, CommandLineAssumption
      <3>4. AsMeant'
        BY <3>1, <3>2, <3>3, AsMeantAtFirst
      <3>. QED
        BY <3>1, <3>4 DEF LaunchInv
    <2>4. CASE DeclareArgument
      <3>1. phase = "built" /\ UNCHANGED <<phase, source>>
        BY <2>4 DEF DeclareArgument, Visiting, vars
      <3>2. Supported(source) /\ NoneFromEnvironment(Acts) => AsMeant'
        BY <2>1, <2>4, <3>1, DeclareAsMeant DEF LaunchInv
      <3>3. UNCHANGED NoneFromEnvironment(Acts)
        BY <3>1, SameActs
      <3>. QED
        BY <3>1, <3>2, <3>3 DEF LaunchInv
    <2>5. CASE StartProcess
      <3>1. phase = "built" /\ UNCHANGED <<phase, source>>
        BY <2>5 DEF StartProcess, Visiting, vars
      <3>2. Supported(source) /\ NoneFromEnvironment(Acts) => AsMeant'
        BY <2>1, <2>5, <3>1, StartAsMeant DEF LaunchInv
      <3>3. UNCHANGED NoneFromEnvironment(Acts)
        BY <3>1, SameActs
      <3>. QED
        BY <3>1, <3>2, <3>3 DEF LaunchInv
    <2>6. CASE UNCHANGED vars /\ UNCHANGED <<next, launched, config>>
               /\ (exit' = 0 /\ phase = "built" => exit = 0 \/ next > Len(description.actions))
      <3>1. UNCHANGED <<source, phase, next, launched, config, Acts, Reached>>
        BY <2>6 DEF vars, Acts, Reached
      <3>2. phase # "built" => Untouched'
        BY <3>1 DEF LaunchInv, Untouched
      <3>3. ASSUME phase = "built", Supported(source), NoneFromEnvironment(Acts) PROVE AsMeant'
        <4>1. AsMeant /\ description.actions = Acts
          BY <2>1, <3>3 DEF LaunchInv
        <4>2. Len(Acts) \in Nat
          <5>1. Acts \in Seq(FileActions)
            BY <4>1, ReachedIs
          <5>. QED
            BY <5>1
        <4>3. exit' = 0 => next' = Len(Acts) + 1
          BY <2>6, <3>1, <3>3, <4>1, <4>2 DEF AsMeant
        <4>. QED
          BY <3>1, <4>1, <4>3 DEF AsMeant
      <3>4. UNCHANGED NoneFromEnvironment(Acts)
        BY <3>1, SameActs
      <3>. QED
        BY <3>1, <3>2, <3>3, <3>4 DEF LaunchInv
    <2>7. CASE PrintUsage
      <3>1. UNCHANGED vars /\ UNCHANGED <<next, launched, config>> /\ phase # "built"
        BY <2>7 DEF PrintUsage, Exit
      <3>. QED
        BY <2>6, <3>1
    <2>8. CASE Load
      <3>1. \/ ParseFile /\ UNCHANGED lineVars
            \/ UNCHANGED vars /\ Exit(1)
            \/ BuildDescription /\ exit = Unset /\ (UNCHANGED lineVars \/ Exit(1))
        BY <2>8 DEF Load
      <3>2. Exit(1) => UNCHANGED <<next, launched, config>> /\ exit' = 1
        BY DEF Exit
      <3>3. UNCHANGED lineVars => UNCHANGED <<next, launched, config, exit>>
        BY DEF lineVars
      <3>. QED
        BY <2>2, <2>3, <2>6, <3>1, <3>2, <3>3
    <2>9. CASE ProcessFails
      <3>1. UNCHANGED vars /\ UNCHANGED <<next, launched, config>> /\ exit' = 1
        BY <2>9 DEF ProcessFails, Exit
      <3>. QED
        BY <2>6, <3>1
    <2>10. CASE Finish
      <3>1. UNCHANGED vars /\ UNCHANGED <<next, launched, config>> /\ next > Len(description.actions)
        BY <2>10 DEF Finish, Exit
      <3>. QED
        BY <2>6, <3>1
    <2>11. CASE UNCHANGED launchVars
      <3>1. UNCHANGED vars /\ UNCHANGED <<next, launched, config, exit>>
        BY <2>11 DEF launchVars, lineVars
      <3>. QED
        BY <2>6, <3>1
    <2>. QED
      BY <2>4, <2>5, <2>7, <2>8, <2>9, <2>10, <2>11 DEF LaunchNext
  <1>. QED
    BY <1>1, <1>2, FileInvHolds, PTL DEF LaunchSpec

-----------------------------------------------------------------------------
\* The parser makes of a file in block style what its author means: for every
\* file, of whatever length and words.  From FileInv, by ParsesAsMeant.
THEOREM ReadAsWritten == LaunchSpec => []ParsedAsWritten
  <1>1. FileInv => ParsedAsWritten
    BY DEF FileInv
  <1>. QED
    BY <1>1, FileInvHolds, PTL

\* YamlLaunchBuilder makes of it the description that is meant.  From FileInv, by
\* BuildsAsMeant.
THEOREM BuildAsWritten == LaunchSpec => []BuiltAsWritten
  <1>1. FileInv => BuiltAsWritten
    BY DEF FileInv
  <1>. QED
    BY <1>1, FileInvHolds, PTL

\* The processes started are the first of those meant, each argument is one word
\* that reads as meant when its quotes are off, and an exit with 0 leaves none out.
\* From LaunchInv.
THEOREM LaunchAsWritten == LaunchSpec => []LaunchedAsWritten
  <1>1. FileInv /\ LaunchInv => LaunchedAsWritten
    <2> SUFFICES ASSUME FileInv, LaunchInv, phase = "built", Supported(source),
                        NoneFromEnvironment(Acts)
                 PROVE  LET meant == MeantRun(MeantDescription(source).actions)
                        IN  /\ Len(launched) <= Len(meant.commands)
                            /\ \A i \in DOMAIN launched : Arrives(launched[i], meant.commands[i])
                            /\ exit = 0 => ~meant.stuck /\ Len(launched) = Len(meant.commands)
      BY DEF LaunchedAsWritten, Acts
    <2>1. AsMeant
      BY DEF LaunchInv
    <2> DEFINE A == MeantAfter(Acts)
    <2>2. PICK acts \in Seq(FileActions) : /\ acts = Acts /\ A = MeantAfter(acts) /\ Course(A, acts)
                                           /\ next - 1 \in 0 .. Len(acts)
      BY <2>1, ReachedIs
    <2>3. PICK k \in 0 .. Len(acts) : k = next - 1 /\ Reached = A[k]
      BY <2>2 DEF Reached
    <2>4. PICK meant : meant = MeantRun(MeantDescription(source).actions) /\ meant = A[Len(acts)]
      BY <2>2 DEF MeantRun, Acts
    <2> HIDE DEF A
    <2>5. Extends(meant.commands, Reached.commands)
      BY <2>2, <2>3, <2>4, CourseGrows
    <2>6. PICK n \in Nat : n = Len(launched) /\ n = Len(Reached.commands) /\ DOMAIN launched = 1 .. n
      <3>1. launched \in Commands
        BY <2>1 DEF AsMeant
      <3>2. Len(launched) \in Nat /\ DOMAIN launched = 1 .. Len(launched)
        BY <3>1 DEF Commands
      <3>. QED
        BY <2>1, <3>2 DEF AsMeant
    <2>7. n <= Len(meant.commands) /\ \A i \in 1 .. n : meant.commands[i] = Reached.commands[i]
      BY <2>5, <2>6 DEF Extends
    <2>8. \A i \in 1 .. n : Arrives(launched[i], meant.commands[i])
      BY <2>1, <2>6, <2>7 DEF AsMeant
    <2>9. ASSUME exit = 0 PROVE ~meant.stuck /\ Len(launched) = Len(meant.commands)
      <3>1. next = Len(acts) + 1 /\ ~Reached.stuck
        BY <2>1, <2>2, <2>9 DEF AsMeant
      <3>2. k = Len(acts)
        <4>1. Len(acts) \in Nat
          OBVIOUS
        <4>. QED
          BY <2>3, <3>1, <4>1
      <3>3. meant = Reached
        BY <2>3, <2>4, <3>2
      <3>. QED
        BY <2>6, <3>1, <3>3
    <2>. QED
      BY <2>4, <2>6, <2>7, <2>8, <2>9
  <1>. QED
    BY <1>1, FileInvHolds, LaunchInvHolds, PTL

=============================================================================
