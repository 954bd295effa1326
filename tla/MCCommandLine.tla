---------------------------- MODULE MCCommandLine ----------------------------
(* The instance of CommandLine that TLC checks: all files of up to three      *)
(* entities, each one of ten, in the layouts of a run.                       *)
EXTENDS CommandLine

CONSTANTS process, declare, group, arm, sim, robot, screen, ten,
          varRobot, varSim, envHost   \* the words $(var robot), $(var sim), $(env HOST)

MCStrings ==
  {process, declare, group, arm, sim, robot, screen, varRobot, varSim, envHost}
MCWords == MCStrings \union {ten}
MCNames ==
  {NoKey, "entities", "tags", "about", "type", "name", "cmd", "output", "depends_on",
   "default_value"}
MCKeys == MCStrings \union {NoKey}
MCValues == MCStrings \union {Empty}
\* The environment has a variable robot as well, and none sim.
MCEnvironment == ("HOST" :> sim) @@ (robot :> arm)
MCRefers ==
  (varRobot :> <<"var", robot>>) @@ (varSim :> <<"var", sim>>)
    @@ (envHost :> <<"env", "HOST", Empty>>)

MCSpelling ==
  [v \in MCValues |-> IF v = Empty THEN <<>>
                      ELSE IF v = sim THEN <<"plain", "quote", "space", "backslash">>
                      ELSE <<"plain">>]

None == <<>>

Typed(w) == <<"type", Word(w)>>
Named(w) == <<"name", Word(w)>>
Cmd(ws) == <<"cmd", List(ws)>>
Needs(ws) == <<"depends_on", List(ws)>>

MCEntities ==
  { <<Typed(process), Named(arm), Cmd(<<sim, varRobot>>), <<"output", Word(screen)>>>>,
    <<Typed(process), Cmd(<<envHost, ten, arm>>), Needs(<<arm, sim>>)>>,
    <<Named(sim), Cmd(<<varRobot>>), Needs(<<arm>>), Typed(process)>>,
    <<Cmd(<<arm, varSim>>), Typed(process)>>,
    <<Typed(declare), Named(robot), <<"default_value", Word(sim)>>>>,
    <<Typed(declare), Named(robot), <<"default_value", Word(ten)>>>>,
    <<<<"default_value", Word(arm)>>, Typed(declare), Named(sim)>>,
    <<Typed(declare), <<"default_value", Word(arm)>>>>,
    <<Typed(group), Named(arm)>>,
    <<Named(arm)>> }

Files(layouts) == [entities : UNION {[1 .. n -> MCEntities] : n \in 0 .. 3}, layout : layouts]

\* Lists in brackets, in the plainest of their files, and lists in block style.
MCSources ==
  Files({l \in Layouts : l.inline => l.comments = "none" /\ l.below = <<>>})
MCPlainSources == Files({[inline |-> FALSE, comments |-> "none", below |-> <<>>]})

\* With the plainest of the files, the other ways to call the program as well.
MCArguments(s) ==
  {<<"file">>}
  \union IF s.entities # <<>> \/ s.layout.comments # "none" \/ s.layout.below # <<>> THEN {}
         ELSE {<<>>, <<"--help">>, <<"-h", "file">>, <<"file", "--debug", "robot:=arm">>}
=============================================================================
