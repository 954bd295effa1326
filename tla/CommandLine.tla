------------------------------ MODULE CommandLine ------------------------------
(***************************************************************************)
(* The program of src/main.cpp: one launch file, given on the command      *)
(* line, is parsed, built, included and run on one thread.  Of the service *)
(* there is left here what its run does with the two kinds of actions that *)
(* a file can have; LaunchService has the rest.                            *)
(***************************************************************************)
EXTENDS LaunchFile, Substitutions, CommandBuilder

CONSTANTS
  Arguments(_),   \* the arguments that are tried with a file
  Spelling        \* the characters of each string

ASSUME CommandLineAssumption ==
  /\ Keys = Strings \union {NoKey} /\ Values = Strings \union {Empty}
  \* there is no default in $(env x)
  /\ \A w \in DOMAIN Refers :
       Refers[w] \in ({"var"} \X Keys) \union ({"env"} \X (DOMAIN Environment) \X {Empty})
  /\ Spelling \in [Values -> Seq(Chars)] /\ Spelling[Empty] = <<>>
  /\ Unset \notin {0, 1}

VARIABLES
  argv,       \* the arguments, without the name of the program
  config,     \* configurations_
  next,       \* the next action of the description to be visited
  launched,   \* the command of each process, as execvp() is given it
  exit        \* the exit code, or Unset

lineVars == <<argv, config, next, launched, exit>>
launchVars == <<vars, lineVars>>

LaunchInit ==
  /\ Init
  /\ argv \in Arguments(source)
  /\ config = [k \in Keys |-> Unset]
  /\ next = 1 /\ launched = <<>> /\ exit = Unset

Exit(code) == exit' = code /\ UNCHANGED <<argv, config, next, launched>>

AsksForHelp == argv # <<>> /\ argv[1] \in {"--help", "-h"}

-----------------------------------------------------------------------------
PrintUsage ==
  /\ exit = Unset /\ phase = "written"
  /\ \/ argv = <<>> /\ Exit(1)
     \/ AsksForHelp /\ Exit(0)
  /\ UNCHANGED vars

\* What follows the file is kept in the options of the service, where nobody looks
\* at it, but for --debug, which makes it write more.
Load ==
  /\ exit = Unset /\ argv # <<>> /\ ~AsksForHelp
  /\ \/ phase = "written" /\ Exit(1) /\ UNCHANGED vars      \* there is no such file
     \/ ParseFile /\ UNCHANGED lineVars
     \/ BuildDescription /\ IF description'.ok THEN UNCHANGED lineVars ELSE Exit(1)

Visiting(kind) ==
  /\ exit = Unset /\ phase = "built"
  /\ next \in DOMAIN description.actions
  /\ description.actions[next].kind = kind

Current == description.actions[next]

DeclareArgument ==
  /\ Visiting("declare")
  /\ IF config[Current.name] # Unset \/ Current.default = NoKey
     THEN UNCHANGED config
     ELSE config' = [config EXCEPT ![Current.name] = Current.default]
  /\ next' = next + 1
  /\ UNCHANGED <<vars, argv, launched, exit>>

\* resolve_command() of the process, as strings of characters.
Resolved == [i \in DOMAIN Current.cmd |-> Spelling[PerformIn(config, Current.cmd[i])]]

Valid(cmd) == cmd # <<>> /\ \A i \in DOMAIN cmd : cmd[i] # <<>>

\* With the output on the screen execute() waits for the process, on the one thread
\* there is; the wait is part of the step.
StartProcess ==
  /\ Visiting("process")
  /\ Valid(Resolved)
  /\ launched' = Append(launched, [i \in DOMAIN Resolved |-> escape_argument(Resolved[i])])
  /\ next' = next + 1
  /\ UNCHANGED <<vars, argv, config, exit>>

\* The command does not validate, or fork() fails.
ProcessFails ==
  /\ Visiting("process")
  /\ Exit(1)
  /\ UNCHANGED vars

Finish ==
  /\ exit = Unset /\ phase = "built"
  /\ next > Len(description.actions)
  /\ Exit(0)
  /\ UNCHANGED vars

LaunchNext == PrintUsage \/ Load \/ DeclareArgument \/ StartProcess \/ ProcessFails \/ Finish

LaunchSpec == LaunchInit /\ [][LaunchNext]_launchVars

-----------------------------------------------------------------------------
(* The run as it is meant.  The documents want the processes in an order   *)
(* that suits depends_on, and a variable without a configuration looked up *)
(* in the environment.                                                     *)

\* A string as it is read by who takes its quotes off: up to the first quote
\* without a backslash before it.
Unescaped(s) ==
  LET from[i \in 1 .. Len(s) + 1] ==
        IF i > Len(s) THEN <<>>
        ELSE IF s[i] = "quote" THEN <<>>
        ELSE IF s[i] = "backslash" /\ i < Len(s) THEN <<s[i + 1]>> \o from[i + 2]
        ELSE <<s[i]>> \o from[i + 1]
  IN  from[2]
Unquoted(s) == IF s[1] = "quote" THEN Unescaped(s) ELSE s

\* A word that is not quoted is the word that is meant, character by character.
Arrives(given, meant) ==
  /\ DOMAIN given = DOMAIN meant
  /\ \A i \in DOMAIN given :
       Unquoted(given[i]) = meant[i] /\ (ToSet(meant[i]) = {"plain"} => given[i] = meant[i])

\* Where a variable is looked up: in the configurations, then in the environment.
InEnvironment(k) == k \in DOMAIN Environment /\ Environment[k] # Unset
LookedUp(c, k) == IF c[k] = Unset /\ InEnvironment(k) THEN Environment[k] ELSE c[k]

\* The effect of the actions of a description in order: what is configured, the
\* commands, and whether there is one that must not be run.
MeantWord(c, e) ==
  LET v == IF e[1] = "text" THEN e[2]
           ELSE IF e[1] = "env" THEN Environment[e[2]] ELSE LookedUp(c, e[2])
  IN  IF v = Unset THEN <<>> ELSE Spelling[v]
Effect(c, ws, stuck) == [config |-> c, commands |-> ws, stuck |-> stuck]
NoEffect == Effect([k \in Keys |-> Unset], <<>>, FALSE)
MeantEffect(m, a) ==
  IF m.stuck THEN m
  ELSE IF a.kind = "declare"
  THEN IF m.config[a.name] = Unset /\ a.default # NoKey
       THEN Effect([m.config EXCEPT ![a.name] = a.default], m.commands, FALSE) ELSE m
  ELSE LET words == [i \in DOMAIN a.cmd |-> MeantWord(m.config, a.cmd[i])]
       IN  IF words = <<>> \/ <<>> \in ToSet(words) THEN Effect(m.config, m.commands, TRUE)
           ELSE Effect(m.config, Append(m.commands, words), FALSE)
MeantAfter(actions) ==
  LET after[n \in 0 .. Len(actions)] ==
        IF n = 0 THEN NoEffect ELSE MeantEffect(after[n - 1], actions[n])
  IN  after
MeantRun(actions) == MeantAfter(actions)[Len(actions)]

\* The processes of a name.
Called(actions, n) ==
  {i \in DOMAIN actions : actions[i].kind = "process" /\ actions[i].name = n}

\* What a process depends on stands further up: the order of the file is one that
\* suits depends_on.
OrderedInFile(actions) ==
  \A i \in DOMAIN actions : actions[i].kind = "process" =>
    \A n \in ToSet(actions[i].depends) :
      Called(actions, n) # {} /\ \A j \in Called(actions, n) : j < i

\* No variable is one of the environment when it has no configuration.
NoneFromEnvironment(actions) ==
  LET after == MeantAfter(actions)
  IN  \A i \in DOMAIN actions : actions[i].kind = "process" =>
        \A e \in ToSet(actions[i].cmd) :
          e[1] = "var" /\ InEnvironment(e[2]) => after[i - 1].config[e[2]] # Unset

-----------------------------------------------------------------------------
\* Of a file that lists its processes in an order that suits depends_on, and takes
\* no variable from the environment, the processes that have been started are, in order and word for word,
\* the first of those that its author means, with the arguments declared further
\* up, once the quotes are off the words that escape_argument() puts some around;
\* the program exits with 0 only when they are all of them, and never when one of
\* them has no command or an empty word in it.
LaunchedAsWritten ==
  LET actions == MeantDescription(source).actions
      agreed == OrderedInFile(actions) /\ NoneFromEnvironment(actions)
      meant == MeantRun(actions)
  IN  phase = "built" /\ Supported(source) /\ agreed =>
        /\ Len(launched) <= Len(meant.commands)
        /\ \A i \in DOMAIN launched : Arrives(launched[i], meant.commands[i])
        /\ exit = 0 => ~meant.stuck /\ Len(launched) = Len(meant.commands)

-----------------------------------------------------------------------------
\* "Automatic dependency resolution and startup ordering": where the file can be
\* put into such an order, a process is started after those it names in depends_on.
DependenciesStartFirst ==
  LET actions == description.actions
      orderable == \E p \in Bijection(DOMAIN actions, DOMAIN actions) :
                     OrderedInFile([i \in DOMAIN actions |-> actions[p[i]]])
  IN  phase = "built" /\ Supported(source) /\ orderable =>
        \A i \in DOMAIN actions : i < next /\ actions[i].kind = "process" =>
          \A n \in ToSet(actions[i].depends) : \A j \in Called(actions, n) : j < i

=============================================================================
