---------------------------- MODULE LaunchService ----------------------------
(***************************************************************************)
(* LaunchService: launch descriptions are included, one run() visits those *)
(* included by then, shutdown() moves the service on to STOPPED.  All three *)
(* may be called from any thread at any time; the status is moved by       *)
(* compare-and-exchange, the descriptions are under a mutex and the launch *)
(* context belongs to the thread that runs.                                *)
(*                                                                         *)
(* The destructor is one more shutdown().  emit_event() does nothing, and  *)
(* the run loop the header declares is not defined.                        *)
(***************************************************************************)
EXTENDS Naturals, FiniteSets, LaunchActions

CONSTANTS
  Threads,          \* the threads that call the service
  Descriptions,     \* the descriptions that may be included
  Contents,         \* the actions of each
  None,             \* run() has not returned
  MaxDescriptions   \* bound: how many are ever included

ASSUME LaunchServiceAssumption ==
  /\ \A d \in Descriptions : Contents[d] \in Seq(Actions)
  /\ None \notin {0, 1}
  /\ MaxDescriptions \in Nat

VARIABLES
  status,              \* status_
  shutdownRequested,   \* shutdown_requested_
  descriptions,        \* descriptions_
  snapshot,            \* run()'s copy of it
  next,                \* how many of the copy are already taken up
  pc,                  \* where each thread is: "out", in run() "copying", "visiting" or
                       \* "closing" (it calls shutdown()), or "stopping" and "closed",
                       \* between the exchange that wins a shutdown and its last store
  stopsWhenIdle,       \* run()'s argument
  accepted,            \* descriptions included when run() took over (history)
  result               \* what run() returned to the thread that took over

serviceVars == <<status, shutdownRequested, descriptions, snapshot, next, pc,
                 stopsWhenIdle, accepted, result>>
vars == <<actionVars, serviceVars>>

Ranks == [IDLE |-> 0, RUNNING |-> 1, SHUTTING_DOWN |-> 2, STOPPED |-> 3]

Init ==
  /\ ActionsInit
  /\ status = "IDLE"
  /\ shutdownRequested = FALSE
  /\ descriptions = <<>>
  /\ snapshot = <<>>
  /\ next = 0
  /\ pc = [th \in Threads |-> "out"]
  /\ stopsWhenIdle = FALSE
  /\ accepted = <<>>
  /\ result = None

Goto(th, place) == pc' = [pc EXCEPT ![th] = place]

-----------------------------------------------------------------------------
(* include_launch_description()                                            *)

IncludeDescription(th, d) ==
  /\ pc[th] = "out"
  /\ Len(descriptions) < MaxDescriptions
  /\ descriptions' = Append(descriptions, d)
  /\ UNCHANGED <<actionVars, status, shutdownRequested, snapshot, next, pc,
                 stopsWhenIdle, accepted, result>>

-----------------------------------------------------------------------------
(* run()                                                                   *)

\* Mutant of RunBegin: the status is stored without having been compared.
RunBeginUnchecked(th, whenIdle) ==
  /\ pc[th] = "out"
  /\ status' = "RUNNING"
  /\ stopsWhenIdle' = whenIdle
  /\ accepted' = descriptions
  /\ Goto(th, "copying")
  /\ UNCHANGED <<actionVars, shutdownRequested, descriptions, snapshot, next, result>>

\* The exchange; a caller that loses it is told so and nothing changes.
RunBegin(th, whenIdle) ==
  /\ pc[th] = "out"
  /\ status = "IDLE"
  /\ status' = "RUNNING"
  /\ stopsWhenIdle' = whenIdle
  /\ accepted' = descriptions
  /\ Goto(th, "copying")
  /\ UNCHANGED <<actionVars, shutdownRequested, descriptions, snapshot, next, result>>

\* Mutant of RunCopy: the loop starts with the second description.
RunCopySkipsOne(th) ==
  /\ pc[th] = "copying"
  /\ snapshot' = descriptions
  /\ next' = 1
  /\ Goto(th, "visiting")
  /\ UNCHANGED <<actionVars, status, shutdownRequested, descriptions, stopsWhenIdle,
                 accepted, result>>

RunCopy(th) ==
  /\ pc[th] = "copying"
  /\ snapshot' = descriptions
  /\ next' = 0
  /\ Goto(th, "visiting")
  /\ UNCHANGED <<actionVars, status, shutdownRequested, descriptions, stopsWhenIdle,
                 accepted, result>>

RunVisit(th) ==
  /\ pc[th] = "visiting"
  /\ agenda = <<>> /\ ~failed /\ next < Len(snapshot)
  /\ agenda' = Visits(Contents[snapshot[next + 1]])
  /\ next' = next + 1
  /\ UNCHANGED <<config, failed, started, status, shutdownRequested, descriptions,
                 snapshot, pc, stopsWhenIdle, accepted, result>>

RunStep(th) ==
  /\ pc[th] = "visiting"
  /\ agenda # <<>>
  /\ Step
  /\ UNCHANGED serviceVars

\* Mutant of RunFail: the status is moved on, and nobody is there to move it further.
RunFailHalfway(th) ==
  /\ pc[th] = "visiting"
  /\ failed
  /\ result' = 1
  /\ status' = "SHUTTING_DOWN"
  /\ Goto(th, "out")
  /\ UNCHANGED <<actionVars, shutdownRequested, descriptions, snapshot, next,
                 stopsWhenIdle, accepted>>

\* A failed visit ends run(), and leaves the status at RUNNING.
RunFail(th) ==
  /\ pc[th] = "visiting"
  /\ failed
  /\ result' = 1
  /\ Goto(th, "out")
  /\ UNCHANGED <<actionVars, status, shutdownRequested, descriptions, snapshot, next,
                 stopsWhenIdle, accepted>>

\* Mutant of RunSucceed: shutdownWhenIdle is forgotten.
RunSucceedForgets(th) ==
  /\ pc[th] = "visiting"
  /\ agenda = <<>> /\ ~failed /\ next = Len(snapshot)
  /\ result' = 0 /\ Goto(th, "out")
  /\ UNCHANGED <<actionVars, status, shutdownRequested, descriptions, snapshot, next,
                 stopsWhenIdle, accepted>>

\* Mutant of RunSucceed: run() stays until somebody asks for a shutdown.
RunSucceedStays(th) ==
  /\ pc[th] = "visiting"
  /\ agenda = <<>> /\ ~failed /\ next = Len(snapshot)
  /\ stopsWhenIdle \/ shutdownRequested
  /\ IF stopsWhenIdle
     THEN Goto(th, "closing") /\ UNCHANGED result
     ELSE result' = 0 /\ Goto(th, "out")
  /\ UNCHANGED <<actionVars, status, shutdownRequested, descriptions, snapshot, next,
                 stopsWhenIdle, accepted>>

RunSucceed(th) ==
  /\ pc[th] = "visiting"
  /\ agenda = <<>> /\ ~failed /\ next = Len(snapshot)
  /\ IF stopsWhenIdle
     THEN Goto(th, "closing") /\ UNCHANGED result
     ELSE result' = 0 /\ Goto(th, "out")
  /\ UNCHANGED <<actionVars, status, shutdownRequested, descriptions, snapshot, next,
                 stopsWhenIdle, accepted>>

-----------------------------------------------------------------------------
(* shutdown(), called by the user or by run() itself                       *)

\* shutdown() returns, to its caller or to run(), which then returns 0.
Return(th) ==
  /\ Goto(th, "out")
  /\ result' = IF pc[th] \in {"closing", "closed"} THEN 0 ELSE result

\* Mutant of ShutdownBegin: the status is stored without having been compared.
ShutdownUnchecked(th) ==
  /\ pc[th] \in {"out", "closing"}
  /\ status' = "SHUTTING_DOWN"
  /\ Goto(th, IF pc[th] = "closing" THEN "closed" ELSE "stopping")
  /\ UNCHANGED <<actionVars, shutdownRequested, descriptions, snapshot, next,
                 stopsWhenIdle, accepted, result>>

\* The exchange.  Only from RUNNING is there anything to shut down.
ShutdownBegin(th) ==
  /\ pc[th] \in {"out", "closing"}
  /\ IF status = "RUNNING"
     THEN /\ status' = "SHUTTING_DOWN"
          /\ Goto(th, IF pc[th] = "closing" THEN "closed" ELSE "stopping")
          /\ UNCHANGED result
     ELSE /\ Return(th)
          /\ UNCHANGED status
  /\ UNCHANGED <<actionVars, shutdownRequested, descriptions, snapshot, next,
                 stopsWhenIdle, accepted>>

\* The two stores; nobody acts on the flag between them.
ShutdownFinish(th) ==
  /\ pc[th] \in {"stopping", "closed"}
  /\ shutdownRequested' = TRUE
  /\ status' = "STOPPED"
  /\ Return(th)
  /\ UNCHANGED <<actionVars, descriptions, snapshot, next, stopsWhenIdle, accepted>>

-----------------------------------------------------------------------------
\* What a thread does once it is inside a call.
Proceed(th) ==
  \/ RunCopy(th) \/ RunVisit(th) \/ RunStep(th) \/ RunFail(th) \/ RunSucceed(th)
  \/ ShutdownFinish(th)
  \/ pc[th] = "closing" /\ ShutdownBegin(th)

Call(th) ==
  \/ \E d \in Descriptions : IncludeDescription(th, d)
  \/ \E whenIdle \in BOOLEAN : RunBegin(th, whenIdle)
  \/ pc[th] = "out" /\ ShutdownBegin(th)

Next == \E th \in Threads : Proceed(th) \/ Call(th)

Spec == Init /\ [][Next]_vars

\* A thread that is inside a call is scheduled until it is out again.  Of what
\* an action waits for, the sleep of a timer ends and so, it is assumed, does a
\* process whose output is the screen, the only kind that is waited for.
FairSpec == Spec /\ \A th \in Threads : WF_vars(Proceed(th))

-----------------------------------------------------------------------------
\* The context, the copy and the agenda have one owner: at most one thread is
\* ever inside run(), and none again after it has returned.
OneRunner ==
  LET running == {th \in Threads : pc[th] \in {"copying", "visiting", "closing", "closed"}}
  IN  Cardinality(running) <= (IF result = None THEN 1 ELSE 0)

\* Whether action p is reached through the file that a includes and no other way.
OnlyIncludedBy(p, a) ==
  /\ \E i \in DOMAIN Body[Act[a].file] : Body[Act[a].file][i] = p
  /\ \A f \in Files \ {Act[a].file} : \A i \in DOMAIN Body[f] : Body[f][i] # p
  /\ \A d \in Descriptions : \A i \in DOMAIN Contents[d] : Contents[d][i] # p
  /\ \A b \in Actions : \A i \in DOMAIN Act[b].actions : Act[b].actions[i] # p
  /\ \A b \in Actions \ {a} : Act[b].kind = "include" => Act[b].file # Act[a].file

\* Whether the i-th argument of the inclusion a is a text, and the last that is
\* given for its configuration.
Decides(a, i) ==
  /\ Act[a].args[i][2] # NoExpr /\ Act[a].args[i][2][1] = "text"
  /\ \A j \in DOMAIN Act[a].args :
       j > i /\ Act[a].args[j][1] = Act[a].args[i][1] => Act[a].args[j][2] = NoExpr

\* A text given as an argument of an include is what the processes of the
\* included file are given, whatever default that file declares for it and
\* whatever was configured before.
ArgumentsWin ==
  \A a \in {b \in Actions : Act[b].kind = "include"} :
    \A i \in DOMAIN Act[a].args, j \in DOMAIN started :
      LET p == started[j][1]
      IN  Decides(a, i) /\ OnlyIncludedBy(p, a) /\ Act[p].expr = <<"var", Act[a].args[i][1]>>
          => started[j][2] = Act[a].args[i][2][2]

\* The status only moves from IDLE towards STOPPED, whoever calls what.
StatusMovesOn == [][Ranks[status] <= Ranks[status']]_vars

\* run() returns to the thread that called it.
RunReturns == \A th \in Threads : pc[th] = "copying" ~> pc[th] = "out"

\* The thread has won the exchange of a shutdown() and not yet stored STOPPED.
Stopping(th) == pc[th] \in {"stopping", "closed"}

\* A shutdown is in the hands of one thread while the service is SHUTTING_DOWN, and
\* in nobody's before and after: so a shutdown() that loses the exchange may say that
\* all is well, and no call, a run() that fails included, leaves the service where
\* no later shutdown(), nor the destructor's, would move it.
OneStopper ==
  /\ status = "SHUTTING_DOWN" <=> \E th \in Threads : Stopping(th)
  /\ \A th, uh \in Threads : Stopping(th) /\ Stopping(uh) => th = uh

\* A run() that was to stop when idle and returns 0 has stopped the service, unless
\* another thread's shutdown() was faster and is still at it: an exception that the
\* comments of run() do not make.
StoppedUnlessOvertaken ==
  result = 0 /\ stopsWhenIdle =>
    status = "STOPPED" \/ \E th \in Threads : pc[th] = "stopping"

=============================================================================
