--------------------------- MODULE MCLaunchService ---------------------------
(***************************************************************************)
(* The instance of LaunchService that TLC checks: two descriptions whose   *)
(* actions feed each other through two configurations.                     *)
(***************************************************************************)
EXTENDS LaunchMeaning

CONSTANTS th1, th2

MCThreads == {th1, th2}
MCKeys == {"robot", "sim"}
MCValues == {"", "false", "r2", "c3", "which", "/usr/which"}
MCFalsy == {"", "false"}

MCEnvironment == [MODE |-> "", HOST |-> "r2", USER |-> Unset]
MCPath == <<"/opt", "/usr", "/bin">>
MCExecutables == (<<"/usr", "which">> :> "/usr/which") @@ (<<"/bin", "which">> :> "r2")
MCOutput == (<<"/usr/which", "c3">> :> "c3") @@ (<<"/usr/which", "r2">> :> "false")

Text(v) == <<"text", v>>
Var(k) == <<"var", k>>
Env(n, default) == <<"env", n, default>>
\* A command that asks for what is configured.
Which == <<"command", <<<<"find", "which">>, NoExpr, <<"find", "c3">>, Var("robot")>>>>
Always == [test |-> "none", key |-> "sim", expr |-> NoExpr]
If(e) == [Always EXCEPT !.test = "if", !.expr = e]
Unless(e) == [Always EXCEPT !.test = "unless", !.expr = e]
Equals(k, e) == [test |-> "equals", key |-> k, expr |-> e]

\* An action of a kind, with everything that its kind does not look at blank.
Blank(kind) == [kind |-> kind, guard |-> Always, cond |-> Always, key |-> "sim",
                expr |-> NoExpr, actions |-> <<>>, file |-> Unset, args |-> <<>>]
Declares(k, e) == [Blank("declare") EXCEPT !.key = k, !.expr = e]
Sets(k, e) == [Blank("set") EXCEPT !.key = k, !.expr = e]
Groups(c, as) == [Blank("group") EXCEPT !.cond = c, !.actions = as]
Times(as) == [Blank("timer") EXCEPT !.actions = as]
Starts(e) == [Blank("process") EXCEPT !.expr = e]
Customs(c, e) == [Blank("custom") EXCEPT !.guard = c, !.expr = e]

MCAct ==
  [ declareRobot |-> Declares("robot", Env("HOST", "c3")),
    declareSim   |-> Declares("sim", Var("robot")),
    clearSim     |-> Sets("sim", NoExpr),
    setSim       |-> Sets("sim", Env("MODE", "false")),
    hook         |-> Customs(If(Var("sim")), Var("robot")),
    idle         |-> Customs(Unless(Var("sim")), <<"dir">>),
    base         |-> Starts(Which),
    later        |-> Times(<<"hook">>),
    group        |-> Groups(Equals("robot", Env("USER", "r2")), <<"base", "setSim", "later">>),
    include      |-> [Blank("include") EXCEPT !.file = "arm.yaml",
                        !.args = <<<<"robot", Text("r2")>>, <<"robot", Text("c3")>>, <<"sim", NoExpr>>>>],
    armRobot     |-> Declares("robot", Text("r2")),
    arm          |-> Starts(Var("robot")) ]
MCActions == DOMAIN MCAct
MCFiles == {"arm.yaml"}
MCBody == [f \in MCFiles |-> <<"armRobot", "arm">>]

MCContents ==
  [ main |-> <<"declareRobot", "group", "hook", "idle">>,
    extra |-> <<"include", "declareSim", "hook", "clearSim", "idle">> ]
MCDescriptions == DOMAIN MCContents
=============================================================================
