---------------------------- MODULE Substitutions ----------------------------
(***************************************************************************)
(* The substitutions: what each of them gives in a context with certain    *)
(* launch configurations.  A string is a value of a small set; what is     *)
(* outside the program, the environment, the files and what commands       *)
(* print, are constants.                                                   *)
(***************************************************************************)
EXTENDS Sequences, SequencesExt

CONSTANTS
  Keys,          \* names of launch configurations
  Values,        \* the strings they may hold
  Empty,         \* the empty string
  Unset,         \* no value
  NoExpr,        \* a null substitution
  Environment,   \* the environment variables, with their values or Unset
  Path,          \* the directories of PATH, or Unset
  Executables,   \* the full path of each <<directory, name>> that can be executed
  CurrentFile,   \* current_launch_file_, which nothing in the library sets
  DirectoryOf,   \* the directory in the path of a file
  Output         \* what a command, a list of words, prints, less a final newline;
                 \* one that is not there prints nothing

\* All but commands.  A variable of the environment comes with its default.
SimpleExprs ==
  ({"text"} \X Values) \union ({"var"} \X Keys) \union {<<"file">>, <<"dir">>}
  \union ({"env"} \X (DOMAIN Environment) \X Values) \union ({"find"} \X Values)

Exprs == SimpleExprs \union ({"command"} \X Seq(SimpleExprs \union {NoExpr})) \union {NoExpr}

ASSUME SubstitutionsAssumption ==
  /\ Empty \in Values /\ Unset \notin Values
  /\ \A n \in DOMAIN Environment : Environment[n] \in Values \union {Unset}
  /\ Path = Unset \/ Path \in Seq(ToSet(Path))
  /\ \A p \in DOMAIN Executables : Executables[p] \in Values
  /\ CurrentFile \in Values
  /\ CurrentFile = Empty \/ DirectoryOf[CurrentFile] \in Values
  /\ \A ws \in DOMAIN Output : Output[ws] \in Values

-----------------------------------------------------------------------------
\* What substitution e gives with the configurations c.  LaunchConfiguration, and
\* VariableSubstitution as the YAML builder makes it, give the empty string for a
\* configuration that is not set.
Lookup(c, k) == IF c[k] = Unset THEN Empty ELSE c[k]

get_environment_variable(n) == IF Environment[n] = Unset THEN Empty ELSE Environment[n]

\* A variable that is empty counts as not set.
GetEnv(n, default) ==
  IF get_environment_variable(n) = Empty THEN default ELSE get_environment_variable(n)

\* Without a PATH the name is given back; with one, where it is found first.
Find(name) ==
  IF Path = Unset THEN name
  ELSE LET places == {i \in DOMAIN Path : <<Path[i], name>> \in DOMAIN Executables}
       IN  IF places = {} THEN Empty ELSE Executables[<<Path[Min(places)], name>>]

FileDir == IF CurrentFile = Empty THEN Empty ELSE DirectoryOf[CurrentFile]

PerformSimple(c, e) ==
  CASE e[1] = "text" -> e[2]
    [] e[1] = "var" -> Lookup(c, e[2])
    [] e[1] = "env" -> GetEnv(e[2], e[3])
    [] e[1] = "find" -> Find(e[2])
    [] e[1] = "file" -> CurrentFile
    [] e[1] = "dir" -> FileDir

\* The loop over the parts of a command.  Null and empty parts leave no words to
\* the shell; without a word there is no command.
RunCommand(c, parts) ==
  LET words[i \in 0 .. Len(parts)] ==
        IF i = 0 THEN <<>>
        ELSE IF parts[i] = NoExpr THEN words[i - 1]
        ELSE IF PerformSimple(c, parts[i]) = Empty THEN words[i - 1]
        ELSE Append(words[i - 1], PerformSimple(c, parts[i]))
      command == words[Len(parts)]
  IN  IF command \in (DOMAIN Output) \ {<<>>} THEN Output[command] ELSE Empty

PerformIn(c, e) == IF e[1] = "command" THEN RunCommand(c, e[2]) ELSE PerformSimple(c, e)

=============================================================================
