------------------------------ MODULE YamlParser ------------------------------
(***************************************************************************)
(* YamlParser of src/yaml_parser.cpp: four functions that call each other  *)
(* and share one stream, which each leaves where the next goes on reading. *)
(*                                                                         *)
(* A text is a sequence of lines.  Of a line there is left its             *)
(* indentation, whether it begins with a dash, the key before its colon    *)
(* and the word, or list of words in brackets, that follows; blank lines   *)
(* and comments are one kind.  Words are model values, each with the type  *)
(* parse_scalar() finds it to be.  Tabs, quotes and colons within words    *)
(* are left out.                                                           *)
(***************************************************************************)
EXTENDS Integers, SequencesExt

CONSTANTS
  Words,    \* the scalars
  Strings,  \* those that are neither numbers nor booleans
  Odd,      \* the text of what is no single word: a list, or a whole line
  Names     \* the keys that occur, and no key

NoKey == ""

ASSUME YamlParserAssumption == Strings \subseteq Words /\ Odd \notin Words /\ NoKey \in Names

Nothing == <<>>
Word(w) == <<"word", w>>
List(ws) == <<"list", ws>>
Rests == ({"word"} \X Words) \union ({"list"} \X (Seq(Words) \ {<<>>}))

Blank == [blank |-> TRUE, indent |-> 0, dash |-> FALSE, key |-> NoKey, rest |-> Nothing]
Line(i, d, k, r) == [blank |-> FALSE, indent |-> i, dash |-> d, key |-> k, rest |-> r]
Lines ==
  [blank : BOOLEAN, indent : Nat, dash : BOOLEAN, key : Names, rest : Rests \union {Nothing}]

\* YamlValue.  An object is a function on its keys; what nothing was added to
\* is null.
Null == <<"null">>
Scalar(w) == IF w \in Strings \union {Odd} THEN <<"string", w>> ELSE <<"other", w>>
Array(s) == IF s = <<>> THEN Null ELSE <<"array", s>>
Object(f) == IF DOMAIN f = {} THEN Null ELSE <<"object", f>>

IsObject(v) == v[1] = "object"
IsArray(v) == v[1] = "array"
IsString(v) == v[1] = "string"

\* The fields f, with v for the key k unless a later line has given another value.
With(f, k, v) ==
  [x \in DOMAIN f \union {k} |-> IF x \in DOMAIN f THEN f[x] ELSE v]
NoFields == [k \in {} |-> Null]

\* What a function returns, and the line the stream is left at.
At(v, i) == [value |-> v, next |-> i]

-----------------------------------------------------------------------------
(* Each function reads the text t from line i on.  P[<<name, i, base>>] is     *)
(* what the functions called `name' return from further down: the elements *)
(* of an array, or the fields of an object.                                *)

ArrayAt(P, i, base) == At(Array(P[<<"array", i, base>>].value), P[<<"array", i, base>>].next)
ObjectAt(P, i, base) == At(Object(P[<<"object", i, base>>].value), P[<<"object", i, base>>].next)

\* The first line from i on that is neither blank nor a comment, if there is one.
FirstLine(t, i) == Min({j \in i .. Len(t) : ~t[j].blank} \union {Len(t) + 1})

\* parse_scalar() on what follows a key or a dash; a list in brackets is one
\* string to it.
ScalarOf(rest) == IF rest[1] = "word" THEN Scalar(rest[2]) ELSE Scalar(Odd)

\* parse_value(): the next line that is not blank, all of it a scalar.
ParseValue(t, i) ==
  LET j == FirstLine(t, i)
  IN  IF j > Len(t) THEN At(Null, j)
      ELSE At(IF t[j].dash \/ t[j].key # NoKey THEN Scalar(Odd) ELSE ScalarOf(t[j].rest), j + 1)

\* The value of a key of an element that has nothing after its colon: the
\* elements of the array that begins on the very next line, if it is indented
\* more than the line `above', or else one line.
AfterKey(P, t, i, above) ==
  IF i > Len(t) THEN At(Null, i)
  ELSE IF ~t[i].blank /\ t[i].dash /\ t[i].indent > above THEN ArrayAt(P, i, t[i].indent)
  ELSE ParseValue(t, i)

\* The value of the key in line i of an element.
FieldValue(P, t, i, above) ==
  IF t[i].rest = Nothing THEN AfterKey(P, t, i + 1, above) ELSE At(ScalarOf(t[i].rest), i + 1)

\* The field in line i, and those below it.
FieldAnd(P, t, i, base, above) ==
  LET r == FieldValue(P, t, i, above)
      below == P[<<"fields", r.next, base>>]
  IN  At(With(below.value, t[i].key, r.value), below.next)

\* parse_array_element_object(), whose first line is line i.
ElementObject(P, t, i, base) ==
  LET r == FieldAnd(P, t, i, base, base) IN At(Object(r.value), r.next)

\* The element in line i, and those below it.
ElementAnd(P, t, i, base) ==
  LET r == IF t[i].key # NoKey THEN ElementObject(P, t, i, base)
           ELSE IF t[i].rest = Nothing THEN ParseValue(t, i + 1)
           ELSE At(ScalarOf(t[i].rest), i + 1)
      below == P[<<"array", r.next, base>>]
  IN  At(<<r.value>> \o below.value, below.next)

\* Mutant of ParseArray: the line that ends the array is not put back.
ParseArrayTaking(P, t, i, base) ==
  IF i > Len(t) THEN At(<<>>, i)
  ELSE IF ~t[i].blank /\ t[i].indent < base THEN At(<<>>, i + 1)
  ELSE IF t[i].blank \/ ~t[i].dash THEN P[<<"array", i + 1, base>>]
  ELSE ElementAnd(P, t, i, base)

\* parse_array().  The line that ends it is put back; a line without a dash is
\* passed over.
ParseArray(P, t, i, base) ==
  IF i > Len(t) THEN At(<<>>, i)
  ELSE IF ~t[i].blank /\ t[i].indent < base THEN At(<<>>, i)
  ELSE IF t[i].blank \/ ~t[i].dash THEN P[<<"array", i + 1, base>>]
  ELSE ElementAnd(P, t, i, base)

\* The fields below the first line of an element.  A nested array that belongs to
\* no key ends the element and is dropped.
Fields(P, t, i, base) ==
  IF i > Len(t) THEN At(NoFields, i)
  ELSE LET l == t[i] IN
       IF l.blank THEN P[<<"fields", i + 1, base>>]
       ELSE IF l.indent <= base THEN At(NoFields, i)
       ELSE IF l.dash THEN At(NoFields, ParseArray(P, t, i, l.indent).next)
       ELSE IF l.key = NoKey THEN P[<<"fields", i + 1, base>>]
       ELSE FieldAnd(P, t, i, base, l.indent)

\* The value of a key of an object that has nothing after its colon, which
\* depends on the first line below that is not blank.
NestedValue(P, t, i, above) ==
  LET j == FirstLine(t, i)
  IN  IF j > Len(t) THEN At(Null, j)
      ELSE IF t[j].indent <= above THEN At(Null, i)
      ELSE IF t[j].dash THEN ArrayAt(P, i, t[j].indent)
      ELSE ObjectAt(P, i, t[j].indent)

\* parse_object().  The line that ends a nested object is read and not put back.
ParseObject(P, t, i, base) ==
  IF i > Len(t) THEN At(NoFields, i)
  ELSE LET l == t[i] IN
       IF ~l.blank /\ l.indent < base THEN At(NoFields, i + 1)
       ELSE IF l.blank \/ l.key = NoKey THEN P[<<"object", i + 1, base>>]
       ELSE LET r == IF l.rest = Nothing THEN NestedValue(P, t, i + 1, l.indent)
                     ELSE IF l.rest[1] = "list"
                     THEN At(Array([j \in DOMAIN l.rest[2] |-> Scalar(l.rest[2][j])]), i + 1)
                     ELSE At(ScalarOf(l.rest), i + 1)
                \* the dash stays part of the key
                k == IF l.dash THEN "- " \o l.key ELSE l.key
                below == P[<<"object", r.next, base>>]
            IN  At(With(below.value, k, r.value), below.next)

Calls(t) == {"array", "fields", "object"} \X (1 .. Len(t) + 1) \X Nat

Parser(t) ==
  LET P[c \in Calls(t)] ==
        CASE c[1] = "array" -> ParseArray(P, t, c[2], c[3])
          [] c[1] = "fields" -> Fields(P, t, c[2], c[3])
          [] c[1] = "object" -> ParseObject(P, t, c[2], c[3])
  IN  P

Parse(t) == Object(Parser(t)[<<"object", 1, 0>>].value)

=============================================================================
