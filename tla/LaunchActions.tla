---------------------------- MODULE LaunchActions ----------------------------
(***************************************************************************)
(* The execution of launch actions against the launch context: the nested  *)
(* calls of LaunchDescription::visit, Action::visit and the execute() of   *)
(* each action, which run on one thread, as a list of what is still to be  *)
(* done.  Every level of the nest returns at the first error, so an error  *)
(* empties the list.                                                       *)
(*                                                                         *)
(* Null entities, which every level skips, are left out of the sequences.  *)
(* A Result carries only whether it is an error.                           *)
(***************************************************************************)
EXTENDS Substitutions

CONSTANTS
  Falsy,     \* the strings a condition reads as false: "", "false" and "0"
  Actions,   \* the actions of the launch files
  Act,       \* what each action is, see ActionRecord
  Files,     \* the launch files that may be included
  Body       \* the actions the YAML builder makes of each file

Conditions == [test : {"none", "if", "unless", "equals"}, key : Keys, expr : Exprs]

\* `guard' is Action's own condition_, `cond' the one in GroupAction's options.
\* A "custom" action is of a class the user derives from Action.
ActionRecord ==
  [kind : {"declare", "set", "group", "timer", "include", "process", "custom"},
   guard : Conditions, cond : Conditions, key : Keys, expr : Exprs,
   actions : Seq(Actions), file : Files \union {Unset}, args : Seq(Keys \X Exprs)]

\* Whether action b is one of those that a executes itself.
Holds(a, b) == \E i \in DOMAIN Act[a].actions : Act[a].actions[i] = b

ASSUME LaunchActionsAssumption ==
  /\ Unset \notin Files
  /\ Empty \in Falsy /\ Falsy \subseteq Values
  /\ \A a \in Actions :
       /\ Act[a] \in ActionRecord
       \* the classes of the library are final and take no condition_
       /\ Act[a].guard.test = "none" \/ Act[a].kind = "custom"
       /\ Act[a].kind \in {"process", "custom"} => Act[a].expr # NoExpr
  \* an action is constructed with those it holds: none holds itself, however deep
  /\ \A S \in SUBSET Actions :
       S # {} => \E a \in S : \A b \in S : ~ Holds(a, b)
  /\ \A f \in Files :
       /\ Body[f] \in Seq(Actions)
       \* the YAML builder makes no other actions
       /\ \A i \in DOMAIN Body[f] : Act[Body[f][i]].kind \in {"declare", "process"}

VARIABLES
  config,    \* configurations_
  agenda,    \* what the running visit still has to do, next first: actions to
             \* visit or execute, and configurations to assign
  failed,    \* whether an error ended the visit
  started    \* the processes started and custom actions executed so far, in
             \* order, each with the argument its substitution gave it

actionVars == <<config, agenda, failed, started>>

ActionsInit ==
  /\ config = [k \in Keys |-> Unset]
  /\ agenda = <<>>
  /\ failed = FALSE
  /\ started = <<>>

-----------------------------------------------------------------------------
(* Conditions.                                                             *)

Perform(e) == PerformIn(config, e)

\* The three conditions, with what each makes of a null expression.
IfHolds(c) == c.expr # NoExpr /\ Perform(c.expr) \notin Falsy
UnlessHolds(c) == c.expr = NoExpr \/ Perform(c.expr) \in Falsy
EqualsHolds(c) ==
  config[c.key] # Unset /\ c.expr # NoExpr /\ config[c.key] = Perform(c.expr)

Evaluate(c) ==
  CASE c.test = "none" -> TRUE
    [] c.test = "if" -> IfHolds(c)
    [] c.test = "unless" -> UnlessHolds(c)
    [] c.test = "equals" -> EqualsHolds(c)

-----------------------------------------------------------------------------
(* The actions.  Each takes the item at the head of the agenda.            *)

\* LaunchDescription::visit visits its entities in order.
Visits(as) == [i \in DOMAIN as |-> <<"visit", as[i]>>]

\* GroupAction and TimerAction call their children's execute() themselves.
Executes(as) == [i \in DOMAIN as |-> <<"execute", as[i]>>]

Assignments(args) == [i \in DOMAIN args |-> <<"assign", args[i][1], args[i][2]>>]

Done == agenda' = Tail(agenda) /\ UNCHANGED failed

Fail == agenda' = <<>> /\ failed' = TRUE

\* Action::visit leaves out an action whose own condition does not hold.
Skip ==
  /\ Head(agenda)[1] = "visit"
  /\ ~Evaluate(Act[Head(agenda)[2]].guard)
  /\ Done
  /\ UNCHANGED <<config, started>>

\* The head of the agenda is an action of this kind, to be executed now.
Executing(a, kind) ==
  /\ Head(agenda)[1] \in {"visit", "execute"}
  /\ Head(agenda)[2] = a
  /\ Act[a].kind = kind
  /\ Head(agenda)[1] = "visit" => Evaluate(Act[a].guard)

\* Mutant of Declare: has_launch_configuration() is not asked first.
DeclareAnyway(a) ==
  /\ Executing(a, "declare")
  /\ IF Act[a].expr = NoExpr
     THEN UNCHANGED config
     ELSE config' = [config EXCEPT ![Act[a].key] = Perform(Act[a].expr)]
  /\ Done
  /\ UNCHANGED started

Declare(a) ==
  /\ Executing(a, "declare")
  /\ IF config[Act[a].key] # Unset \/ Act[a].expr = NoExpr
     THEN UNCHANGED config
     ELSE config' = [config EXCEPT ![Act[a].key] = Perform(Act[a].expr)]
  /\ Done
  /\ UNCHANGED started

\* SetLaunchConfiguration; with no value it sets the empty string.
Set(a) ==
  /\ Executing(a, "set")
  /\ config' = [config EXCEPT ![Act[a].key] =
                  IF Act[a].expr = NoExpr THEN Empty ELSE Perform(Act[a].expr)]
  /\ Done
  /\ UNCHANGED started

Group(a) ==
  /\ Executing(a, "group")
  /\ agenda' = IF Evaluate(Act[a].cond)
               THEN Executes(Act[a].actions) \o Tail(agenda)
               ELSE Tail(agenda)
  /\ UNCHANGED <<config, failed, started>>

\* The period is slept away on the visiting thread.
Timer(a) ==
  /\ Executing(a, "timer")
  /\ agenda' = Executes(Act[a].actions) \o Tail(agenda)
  /\ UNCHANGED <<config, failed, started>>

\* Mutant of Include: the arguments are set after the file has been visited.
IncludeThenAssign(a) ==
  /\ Executing(a, "include")
  /\ Act[a].file # Unset
  /\ agenda' = Visits(Body[Act[a].file]) \o Assignments(Act[a].args) \o Tail(agenda)
  /\ UNCHANGED <<config, failed, started>>

\* IncludeLaunchDescription: no source, a file that is not there or does not
\* parse is an error; otherwise the arguments are set, then the file visited.
Include(a) ==
  /\ Executing(a, "include")
  /\ \/ Fail
     \/ /\ Act[a].file # Unset
        /\ agenda' = Assignments(Act[a].args) \o Visits(Body[Act[a].file]) \o Tail(agenda)
        /\ UNCHANGED failed
  /\ UNCHANGED <<config, started>>

\* One turn of the loop over the arguments; a null substitution is passed over.
Assign ==
  /\ Head(agenda)[1] = "assign"
  /\ IF Head(agenda)[3] = NoExpr
     THEN UNCHANGED config
     ELSE config' = [config EXCEPT ![Head(agenda)[2]] = Perform(Head(agenda)[3])]
  /\ Done
  /\ UNCHANGED started

\* Mutant of Launch: the error of execute() is not propagated.
LaunchRegardless(a) ==
  /\ \E kind \in {"process", "custom"} : Executing(a, kind)
  /\ started' \in {started, Append(started, <<a, Perform(Act[a].expr)>>)}
  /\ Done
  /\ UNCHANGED config

\* ExecuteProcess starts its process or reports why it cannot; a custom
\* action does its work or fails.
Launch(a) ==
  /\ \E kind \in {"process", "custom"} : Executing(a, kind)
  /\ \/ started' = Append(started, <<a, Perform(Act[a].expr)>>) /\ Done
     \/ Fail /\ UNCHANGED started
  /\ UNCHANGED config

Step ==
  \/ Skip
  \/ Assign
  \/ \E a \in Actions :
       Declare(a) \/ Set(a) \/ Group(a) \/ Timer(a) \/ Include(a) \/ Launch(a)

=============================================================================
