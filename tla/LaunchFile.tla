------------------------------ MODULE LaunchFile ------------------------------
(***************************************************************************)
(* A launch file on its way to a launch description: parsed, then built by *)
(* YamlLaunchBuilder, as LaunchDescription::from_yaml_file() does for the  *)
(* command line and for an include.                                        *)
(***************************************************************************)
EXTENDS YamlParser

CONSTANTS
  Sources,   \* the files considered, as their author means them
  Refers,    \* the substitution in each of the words $(var x) and $(env x)
  Process,   \* the word execute_process
  Declare    \* the word declare_launch_argument

VARIABLES
  source,        \* the file
  phase,         \* how far it is
  value,         \* what the parser has made of it
  description    \* what the builder has made of that, or an error

vars == <<source, phase, value, description>>

-----------------------------------------------------------------------------
(* The file as it is written.  A source has a list of entities; an entity  *)
(* a list of fields, each a key with a word or with a list of words; and a *)
(* layout.                                                                 *)

Layouts ==
  [inline : BOOLEAN,                                     \* lists in brackets behind their keys
   comments : {"none", "entities", "fields", "lists"},   \* in front of each
   below : {<<>>, <<"tags">>, <<"about">>, <<"tags", "about">>, <<"about", "tags">>}]
                                                         \* other keys below the entities

\* An entity has fields, no two with the same key.
Entities ==
  {e \in Seq((Names \ {NoKey}) \X Rests) :
     e # <<>> /\ \A i, j \in DOMAIN e : e[i][1] = e[j][1] => i = j}

ASSUME LaunchFileAssumption ==
  /\ {"entities", "tags", "about", "name"} \subseteq Names
  /\ Sources \subseteq [entities : Seq(Entities), layout : Layouts]
  /\ DOMAIN Refers \subseteq Strings
  /\ Process \in Strings /\ Declare \in Strings /\ Process # Declare

Comment(s, place) == IF s.layout.comments = place THEN <<Blank>> ELSE <<>>

Tags == <<Declare, Process>>

Element(w) == Line(6, TRUE, NoKey, Word(w))

FieldLines(s, f, first) ==
  LET line(rest) == Line(IF first THEN 2 ELSE 4, first, f[1], rest)
      before == IF first THEN <<>> ELSE Comment(s, "fields")
  IN  IF f[2][1] = "word" THEN Append(before, line(f[2]))
      ELSE IF s.layout.inline THEN Append(before, line(f[2]))
      ELSE before \o <<line(Nothing)>> \o Comment(s, "lists")
             \o [i \in DOMAIN f[2][2] |-> Element(f[2][2][i])]

EntityLines(s, e) ==
  Comment(s, "entities") \o FlattenSeq([i \in DOMAIN e |-> FieldLines(s, e[i], i = 1)])

\* Tags are a list in brackets, about has an object of its own.
KeyLines(k) ==
  IF k = "tags" THEN <<Line(0, FALSE, k, List(Tags))>>
  ELSE <<Line(0, FALSE, k, Nothing), Line(2, FALSE, "name", Word(Declare))>>

Text(s) ==
  <<Line(0, FALSE, "entities", Nothing)>>
    \o FlattenSeq([i \in DOMAIN s.entities |-> EntityLines(s, s.entities[i])])
    \o FlattenSeq([i \in DOMAIN s.layout.below |-> KeyLines(s.layout.below[i])])

-----------------------------------------------------------------------------
(* YamlLaunchBuilder.                                                      *)

\* Result<LaunchDescriptionPtr>.
Error == [ok |-> FALSE, actions |-> <<>>]
Description(as) == [ok |-> TRUE, actions |-> as]

Has(f, k, Test(_)) == k \in DOMAIN f /\ Test(f[k])

StringAt(f, k) == IF Has(f, k, IsString) THEN f[k][2] ELSE NoKey

\* The numbers up to n that are in I, in their order.
InOrder(I, n) ==
  LET upTo[k \in 0 .. n] ==
        IF k = 0 THEN <<>> ELSE IF k \in I THEN Append(upTo[k - 1], k) ELSE upTo[k - 1]
  IN  upTo[n]

\* The strings of an array: its other elements are passed over.
StringsAt(f, k) ==
  IF ~Has(f, k, IsArray) THEN <<>>
  ELSE LET array == f[k][2]
           strings == InOrder({i \in DOMAIN array : IsString(array[i])}, Len(array))
       IN  [i \in DOMAIN strings |-> array[strings[i]][2]]

Substitution(w) == IF w \in DOMAIN Refers THEN Refers[w] ELSE <<"text", w>>

\* build_action() on the fields of an element.  Without an output it stays "log".
BuildAction(f) ==
  IF StringAt(f, "type") = Process
  THEN LET cmd == StringsAt(f, "cmd") IN
       [kind |-> "process", name |-> StringAt(f, "name"),
        cmd |-> [i \in DOMAIN cmd |-> Substitution(cmd[i])],
        output |-> StringAt(f, "output"), depends |-> StringsAt(f, "depends_on")]
  ELSE [kind |-> "declare", name |-> StringAt(f, "name"),
        default |-> StringAt(f, "default_value")]

\* Mutant of Buildable: a type that is not known is taken for the other one.
BuildableByAnyType(v) == IsObject(v) /\ "type" \in DOMAIN v[2]

\* Elements that are no objects, have no type or one that is not known are
\* passed over, as are the errors of build_action().
Buildable(v) == IsObject(v) /\ StringAt(v[2], "type") \in {Process, Declare}

Build(v) ==
  IF ~IsObject(v) THEN Error
  ELSE IF ~Has(v[2], "entities", IsArray) THEN Error
  ELSE LET all == v[2]["entities"][2]
           good == InOrder({i \in DOMAIN all : Buildable(all[i])}, Len(all))
       IN  Description([i \in DOMAIN good |-> BuildAction(all[good[i]][2])])

-----------------------------------------------------------------------------
Init ==
  /\ source \in Sources
  /\ phase = "written" /\ value = Null /\ description = Error

ParseFile ==
  /\ phase = "written"
  /\ value' = Parse(Text(source))
  /\ phase' = "parsed"
  /\ UNCHANGED <<source, description>>

BuildDescription ==
  /\ phase = "parsed"
  /\ description' = Build(value)
  /\ phase' = "built"
  /\ UNCHANGED <<source, value>>

-----------------------------------------------------------------------------
(* The file as it is meant.                                                *)

Meant(rest) == IF rest[1] = "word" THEN Scalar(rest[2])
               ELSE Array([i \in DOMAIN rest[2] |-> Scalar(rest[2][i])])

MeantEntity(e) ==
  LET keys == {e[i][1] : i \in DOMAIN e}
      at(k) == CHOOSE i \in DOMAIN e : e[i][1] = k
  IN  Object([k \in keys |-> Meant(e[at(k)][2])])

MeantKey(s, k) ==
  CASE k = "entities" -> Array([i \in DOMAIN s.entities |-> MeantEntity(s.entities[i])])
    [] k = "tags" -> Meant(List(Tags))
    [] k = "about" -> Object([x \in {"name"} |-> Scalar(Declare)])

MeantValue(s) ==
  Object([k \in {"entities"} \union ToSet(s.layout.below) |-> MeantKey(s, k)])

\* A word given for a key of an entity, and the strings among a list of words.
WordOf(e, k) ==
  LET at == {i \in DOMAIN e : e[i][1] = k /\ e[i][2][1] = "word" /\ e[i][2][2] \in Strings}
  IN  IF at = {} THEN NoKey ELSE e[CHOOSE i \in at : TRUE][2][2]
WordsOf(e, k) ==
  LET at == {i \in DOMAIN e : e[i][1] = k /\ e[i][2][1] = "list"}
      all == e[CHOOSE i \in at : TRUE][2][2]
      strings == InOrder({i \in DOMAIN all : all[i] \in Strings}, Len(all))
  IN  IF at = {} THEN <<>> ELSE [i \in DOMAIN strings |-> all[strings[i]]]

MeantAction(e) ==
  IF WordOf(e, "type") = Process
  THEN [kind |-> "process", name |-> WordOf(e, "name"),
        cmd |-> [i \in DOMAIN WordsOf(e, "cmd") |-> Substitution(WordsOf(e, "cmd")[i])],
        output |-> WordOf(e, "output"), depends |-> WordsOf(e, "depends_on")]
  ELSE [kind |-> "declare", name |-> WordOf(e, "name"),
        default |-> WordOf(e, "default_value")]

MeantDescription(s) ==
  LET all == s.entities
      known == InOrder({i \in DOMAIN all : WordOf(all[i], "type") \in {Process, Declare}}, Len(all))
  IN  IF all = <<>> THEN Error
      ELSE Description([i \in DOMAIN known |-> MeantAction(all[known[i]])])

\* All these layouts are well-formed YAML.  Of them the parser reads those with
\* block lists, no comment between a key and its list, and no key after one with
\* an object, whose last line takes the next with it.
Supported(s) ==
  /\ ~s.layout.inline
  /\ s.layout.comments # "lists"
  /\ s.layout.below # <<"about", "tags">>

-----------------------------------------------------------------------------
\* A file with its lists in block style is parsed to what its author means,
\* whatever comments and blank lines there are between entities and between
\* fields, and whichever of the four functions has read how far.
ParsedAsWritten == phase # "written" /\ Supported(source) => value = MeantValue(source)

\* The description has an action for each entity whose type is known, in order,
\* with its output and every string of its command and of its dependencies; there
\* is an error only when there are no entities.
BuiltAsWritten ==
  phase = "built" /\ Supported(source) => description = MeantDescription(source)

=============================================================================
