---------------------------- MODULE LaunchMeaning ----------------------------
(***************************************************************************)
(* What LaunchService promises: a reference definition of the effect of    *)
(* launch descriptions, by recursion on the tree of actions and with no    *)
(* agenda, and the properties that hold the service to it.                 *)
(***************************************************************************)
EXTENDS LaunchService

\* An effect is the configurations and the processes started, or custom
\* actions executed, as in the variables of the same name.
Effects ==
  [config : [Keys -> Values \union {Unset}], started : Seq(Actions \X Values)]
NoEffect == [config |-> [k \in Keys |-> Unset], started |-> <<>>]

\* What becomes of s along a list when F[x] is what each element x does.
Through(F, s, list) ==
  LET after[i \in 0 .. Len(list)] ==
        IF i = 0 THEN s ELSE F[list[i]][after[i - 1]]
  IN  after[Len(list)]

\* The value of a substitution.  A command's words are the values that are not
\* empty, the k-th of them being the one that has k up to it.
Otherwise(v, w) == IF v \in {Unset, Empty} THEN w ELSE v
SimpleValue(s, e) ==
  CASE e[1] = "text" -> e[2]
    [] e[1] = "var" -> Otherwise(s.config[e[2]], Empty)
    [] e[1] = "env" -> Otherwise(Environment[e[2]], e[3])
    [] e[1] = "find" ->
         IF Path = Unset THEN e[2]
         ELSE LET at == {i \in DOMAIN Path : <<Path[i], e[2]>> \in DOMAIN Executables}
              IN  IF at = {} THEN Empty
                  ELSE Executables[<<Path[CHOOSE i \in at : \A j \in at : i <= j], e[2]>>]
    [] e[1] = "file" -> CurrentFile
    [] e[1] = "dir" -> IF CurrentFile = Empty THEN Empty ELSE DirectoryOf[CurrentFile]
Words(s, parts) ==
  LET said == {i \in DOMAIN parts : parts[i] # NoExpr /\ SimpleValue(s, parts[i]) # Empty}
      upTo(i) == Cardinality({j \in said : j <= i})
  IN  [k \in 1 .. Cardinality(said) |->
         SimpleValue(s, parts[CHOOSE i \in said : upTo(i) = k])]
ValueIn(s, e) ==
  IF e[1] # "command" THEN SimpleValue(s, e)
  ELSE LET words == Words(s, e[2])
       IN  IF words = <<>> \/ words \notin DOMAIN Output THEN Empty ELSE Output[words]

Truth(s, c) ==
  CASE c.test = "none" -> TRUE
    [] c.test = "if" -> c.expr # NoExpr /\ ValueIn(s, c.expr) \notin Falsy
    [] c.test = "unless" -> ~(c.expr # NoExpr /\ ValueIn(s, c.expr) \notin Falsy)
    [] c.test = "equals" -> /\ c.expr # NoExpr
                            /\ s.config[c.key] = ValueIn(s, c.expr)

SetTo(s, k, v) == [s EXCEPT !.config[k] = v]

\* What an argument does, and what a visit does when F[a] is what action a does.
Given == [p \in Keys \X Exprs |-> [s \in Effects |->
            IF p[2] = NoExpr THEN s ELSE SetTo(s, p[1], ValueIn(s, p[2]))]]
Visiting(F) == [a \in Actions |-> [s \in Effects |->
                  IF Truth(s, Act[a].guard) THEN F[a][s] ELSE s]]

\* What executing action a does when F[b] is what each action b under it does.
Does(F, a, s) ==
  LET r == Act[a]
  IN  CASE r.kind = "declare" ->
             IF s.config[r.key] = Unset /\ r.expr # NoExpr
             THEN SetTo(s, r.key, ValueIn(s, r.expr)) ELSE s
        [] r.kind = "set" ->
             SetTo(s, r.key, IF r.expr = NoExpr THEN Empty ELSE ValueIn(s, r.expr))
        [] r.kind = "group" -> IF Truth(s, r.cond) THEN Through(F, s, r.actions) ELSE s
        [] r.kind = "timer" -> Through(F, s, r.actions)
        [] r.kind = "include" ->
             IF r.file = Unset THEN s
             ELSE Through(Visiting(F), Through(Given, s, r.args), Body[r.file])
        [] OTHER -> [s EXCEPT !.started = Append(@, <<a, ValueIn(s, r.expr)>>)]

Executed[a \in Actions] == [s \in Effects |-> Does(Executed, a, s)]

Described == [d \in Descriptions |-> [s \in Effects |->
                Through(Visiting(Executed), s, Contents[d])]]

Meaning(ds) == Through(Described, NoEffect, ds)

-----------------------------------------------------------------------------
\* What has been started so far is, in order and with the same arguments, the
\* beginning of what the copied descriptions mean; when run() returns 0 it is
\* all of it, and the configurations are those it leaves behind.
StartedAsMeant ==
  LET meant == Meaning(snapshot)
  IN  /\ IsPrefix(started, meant.started)
      /\ result = 0 => started = meant.started /\ config = meant.config

\* When run() returns 0, every description that had been included by the time
\* it took over has been launched, in the order they were included.
AcceptedIsLaunched == result = 0 => IsPrefix(Meaning(accepted).started, started)

-----------------------------------------------------------------------------
\* "Initiates graceful shutdown, signals all components to stop, and waits for
\* completion": once the service is STOPPED, nothing more is started.
NothingStartsOnceStopped == [][status = "STOPPED" => UNCHANGED started]_vars

=============================================================================
