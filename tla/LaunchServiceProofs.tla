------------------------- MODULE LaunchServiceProofs -------------------------
(***************************************************************************)
(* Proofs about LaunchService, for any set of threads, descriptions and    *)
(* actions; and that it does what LaunchMeaning says, for any files and    *)
(* substitutions.                                                          *)
(*                                                                         *)
(* The reference goes along lists and down the tree of actions by          *)
(* recursive functions.  That they are well defined, and what they do, is  *)
(* shown by contradiction: of the numbers, or of the actions, for which it *)
(* is not so there would be a smallest, or a lowest in the tree.           *)
(***************************************************************************)
EXTENDS LaunchMeaning, QueueFacts, FiniteSetTheorems, TLAPS

Places == {"out", "copying", "visiting", "closing", "stopping", "closed"}

\* The thread is inside run().
Inside(th) == pc[th] \in {"copying", "visiting", "closing", "closed"}

-----------------------------------------------------------------------------
(* The inductive invariant.                                                *)

ServiceTypeOK ==
  /\ pc \in [Threads -> Places]
  /\ status \in {"IDLE", "RUNNING", "SHUTTING_DOWN", "STOPPED"}
  /\ result \in {None, 0, 1}

\* The exchange in run() can be won once: while the service is idle nobody is in
\* a call that moves it on, and whoever wins is alone inside until it returns.
WonOnce ==
  /\ status = "IDLE" => result = None /\ \A th \in Threads : pc[th] = "out"
  /\ \A th, uh \in Threads : Inside(th) /\ Inside(uh) => th = uh
  /\ result # None => \A th \in Threads : ~Inside(th)

IInv == ServiceTypeOK /\ WonOnce

LEMMA InvInit == Init => IInv
  BY DEF Init, IInv, ServiceTypeOK, WonOnce, Inside, Places

\* A thread that moves between places inside run(), or between places outside
\* it, leaves the invariant alone; so does what it does to the rest.
LEMMA MoveStep ==
  ASSUME IInv, NEW th \in Threads, NEW place \in Places, Goto(th, place),
         status' \in {"IDLE", "RUNNING", "SHUTTING_DOWN", "STOPPED"},
         status' = "IDLE" => status = "IDLE" /\ place = "out",
         Inside(th) <=> place \in {"copying", "visiting", "closing", "closed"},
         result' = result
  PROVE  IInv'
  BY DEF IInv, ServiceTypeOK, WonOnce, Inside, Goto, Places

\* A thread that leaves run() was alone in it, and leaves a result.
LEMMA ReturnStep ==
  ASSUME IInv, NEW th \in Threads, Goto(th, "out"), Inside(th),
         status' \in {"RUNNING", "SHUTTING_DOWN", "STOPPED"}, result' \in {0, 1}
  PROVE  IInv'
  BY LaunchServiceAssumption DEF IInv, ServiceTypeOK, WonOnce, Inside, Goto, Places

\* A thread that is inside run() has won the exchange.
LEMMA InsideIsWon ==
  ASSUME IInv, NEW th \in Threads, pc[th] # "out"
  PROVE  status \in {"RUNNING", "SHUTTING_DOWN", "STOPPED"}
  BY DEF IInv, ServiceTypeOK, WonOnce

LEMMA RunStepInv ==
  ASSUME IInv, NEW th \in Threads,
         \/ RunCopy(th) \/ RunVisit(th) \/ RunStep(th) \/ RunFail(th) \/ RunSucceed(th)
  PROVE  IInv'
  <1>1. CASE RunCopy(th)
    BY <1>1, MoveStep DEF RunCopy, Inside, Places, IInv, ServiceTypeOK, WonOnce
  <1>2. CASE RunVisit(th) \/ RunStep(th)
    BY <1>2 DEF RunVisit, RunStep, serviceVars, IInv, ServiceTypeOK, WonOnce, Inside
  <1>3. CASE RunFail(th)
    BY <1>3, InsideIsWon, ReturnStep DEF RunFail, Inside
  <1>4. CASE RunSucceed(th)
    <2>1. CASE stopsWhenIdle
      BY <1>4, <2>1, MoveStep DEF RunSucceed, Inside, Places, IInv, ServiceTypeOK, WonOnce
    <2>2. CASE ~stopsWhenIdle
      BY <1>4, <2>2, InsideIsWon, ReturnStep DEF RunSucceed, Inside
    <2>. QED
      BY <2>1, <2>2
  <1>. QED
    BY <1>1, <1>2, <1>3, <1>4

LEMMA RunBeginInv ==
  ASSUME IInv, NEW th \in Threads, NEW whenIdle \in BOOLEAN, RunBegin(th, whenIdle)
  PROVE  IInv'
  <1>1. result = None /\ \A uh \in Threads : pc[uh] = "out"
    BY DEF IInv, WonOnce, RunBegin
  <1>2. /\ pc' = [pc EXCEPT ![th] = "copying"] /\ status' = "RUNNING" /\ result' = result
    BY DEF RunBegin, Goto
  <1>. QED
    BY <1>1, <1>2 DEF IInv, ServiceTypeOK, WonOnce, Inside, Places

LEMMA ShutdownInv ==
  ASSUME IInv, NEW th \in Threads, ShutdownBegin(th) \/ ShutdownFinish(th)
  PROVE  IInv'
  <1>1. CASE ShutdownBegin(th) /\ status = "RUNNING"
    BY <1>1, MoveStep DEF ShutdownBegin, Inside, Places
  <1>2. CASE (ShutdownBegin(th) /\ status # "RUNNING") \/ ShutdownFinish(th)
    <2>1. Return(th) /\ (status' = status \/ status' = "STOPPED")
      BY <1>2 DEF ShutdownBegin, ShutdownFinish
    <2>2. CASE pc[th] \in {"closing", "closed"}
      BY <2>1, <2>2, InsideIsWon, ReturnStep DEF Return, Inside
    <2>3. CASE pc[th] \in {"out", "stopping"}
      BY <2>1, <2>3, MoveStep DEF Return, Inside, Places, IInv, ServiceTypeOK
    <2>. QED
      BY <1>2, <2>2, <2>3 DEF ShutdownBegin, ShutdownFinish
  <1>. QED
    BY <1>1, <1>2

LEMMA InvStep == IInv /\ [Next]_vars => IInv'
  <1> SUFFICES ASSUME IInv, [Next]_vars PROVE IInv'
    OBVIOUS
  <1>1. ASSUME NEW th \in Threads, Proceed(th) PROVE IInv'
    BY <1>1, RunStepInv, ShutdownInv DEF Proceed
  <1>2. ASSUME NEW th \in Threads, NEW d \in Descriptions, IncludeDescription(th, d)
        PROVE  IInv'
    BY <1>2 DEF IncludeDescription, IInv, ServiceTypeOK, WonOnce, Inside
  <1>3. ASSUME NEW th \in Threads, Call(th) PROVE IInv'
    BY <1>2, <1>3, RunBeginInv, ShutdownInv DEF Call
  <1>4. CASE UNCHANGED vars
    BY <1>4 DEF vars, serviceVars, IInv, ServiceTypeOK, WonOnce, Inside
  <1>. QED
    BY <1>1, <1>3, <1>4 DEF Next

\* The inductive invariant holds in every reachable state.
THEOREM Invariance == Spec => []IInv
  BY InvInit, InvStep, PTL DEF Spec

-----------------------------------------------------------------------------
(* What is accepted is taken up.                                           *)

\* What the agenda holds.
Items == ({"visit", "execute"} \X Actions) \union ({"assign"} \X Keys \X Exprs)

\* What substitutions give is a string, which no argument here depends on.
Types ==
  /\ agenda \in Seq(Items)
  /\ config = [k \in Keys |-> config[k]]
  /\ started \in Seq(ToSet(started))
  /\ descriptions \in Seq(Descriptions) /\ snapshot \in Seq(Descriptions)
  /\ accepted \in Seq(Descriptions)
  /\ next \in 0 .. Len(snapshot)
  /\ failed \in BOOLEAN

LEMMA ItemTypes ==
  ASSUME NEW list \in Seq(Actions)
  PROVE  /\ Visits(list) \in Seq(Items) /\ Executes(list) \in Seq(Items)
         /\ Len(Visits(list)) = Len(list) /\ Len(Executes(list)) = Len(list)
         /\ \A j \in 1 .. Len(list) :
              /\ Visits(list)[j] = <<"visit", list[j]>>
              /\ Executes(list)[j] = <<"execute", list[j]>>
  <1>1. \A j \in 1 .. Len(list) : <<"visit", list[j]>> \in Items /\ <<"execute", list[j]>> \in Items
    BY DEF Items
  <1>2. DOMAIN list = 1 .. Len(list) /\ Len(list) \in Nat
    OBVIOUS
  <1>3. /\ Visits(list) = [j \in 1 .. Len(list) |-> <<"visit", list[j]>>]
        /\ Executes(list) = [j \in 1 .. Len(list) |-> <<"execute", list[j]>>]
    BY <1>2 DEF Visits, Executes
  <1>4. ASSUME NEW f, NEW n \in Nat, f = [j \in 1 .. n |-> f[j]], \A j \in 1 .. n : f[j] \in Items
        PROVE  f \in Seq(Items) /\ Len(f) = n
    BY <1>4
  <1>. QED
    BY <1>1, <1>2, <1>3, <1>4

LEMMA ArgumentTypes ==
  ASSUME NEW args \in Seq(Keys \X Exprs)
  PROVE  /\ Assignments(args) \in Seq(Items)
         /\ Len(Assignments(args)) = Len(args)
         /\ \A j \in DOMAIN args :
              j \in 1 .. Len(args) /\ Assignments(args)[j] = <<"assign", args[j][1], args[j][2]>>
  BY DEF Assignments, Items

LEMMA ActionTypes ==
  ASSUME NEW a \in Actions
  PROVE  /\ Act[a].actions \in Seq(Actions) /\ Act[a].args \in Seq(Keys \X Exprs)
         /\ Act[a].key \in Keys /\ Act[a].file \in Files \union {Unset}
  BY LaunchActionsAssumption DEF ActionRecord

LEMMA FileTypes ==
  ASSUME NEW f \in Files
  PROVE  /\ Body[f] \in Seq(Actions)
         /\ \A j \in DOMAIN Body[f] : Act[Body[f][j]].kind \in {"declare", "process"}
  BY LaunchActionsAssumption, Zenon

\* The positions in a list.
LEMMA Positions ==
  ASSUME NEW S, NEW s \in Seq(S)
  PROVE  Len(s) \in Nat /\ DOMAIN s = 1 .. Len(s) /\ \A j \in 1 .. Len(s) : s[j] \in S
  OBVIOUS

\* An action of the agenda takes its first item away, puts others in its place
\* or empties it, and what it starts is added at the end.
LEMMA AgendaMoves ==
  ASSUME Types, agenda # <<>>, Step
  PROVE  /\ \/ agenda' = Tail(agenda)
            \/ \E list \in Seq(Items) : agenda' = list \o Tail(agenda)
            \/ agenda' = <<>>
         /\ failed' \in BOOLEAN
         /\ config' = [k \in Keys |-> config'[k]]
         /\ started' = started \/ \E e : started' = Append(started, e)
  <1>1. Head(agenda) \in Items
    BY DEF Types
  <1>2. CASE Skip
    BY <1>2 DEF Skip, Done, Types
  <1>3. CASE Assign
    <2>1. Head(agenda)[2] \in Keys
      BY <1>1, <1>3 DEF Assign, Items
    <2>. QED
      BY <1>3, <2>1 DEF Assign, Done, Types
  <1>4. ASSUME NEW a \in Actions, Declare(a) \/ Set(a)
        PROVE  agenda' = Tail(agenda) /\ failed' \in BOOLEAN /\ started' = started
               /\ config' = [k \in Keys |-> config'[k]]
    BY <1>4, ActionTypes DEF Declare, Set, Done, Types
  <1>5. ASSUME NEW a \in Actions, Group(a) \/ Timer(a)
        PROVE  /\ agenda' = Tail(agenda) \/ agenda' = Executes(Act[a].actions) \o Tail(agenda)
               /\ Executes(Act[a].actions) \in Seq(Items)
               /\ failed' \in BOOLEAN /\ started' = started /\ config' = config
    BY <1>5, ActionTypes, ItemTypes DEF Group, Timer, Types
  <1>6. ASSUME NEW a \in Actions, Include(a)
        PROVE  /\ \/ agenda' = <<>>
                  \/ \E list \in Seq(Items) : agenda' = list \o Tail(agenda)
               /\ failed' \in BOOLEAN /\ started' = started /\ config' = config
    <2>1. CASE Fail
      BY <1>6, <2>1 DEF Include, Fail
    <2>2. CASE ~Fail
      <3>1. /\ Act[a].file \in Files /\ failed' = failed
            /\ agenda' = Assignments(Act[a].args) \o Visits(Body[Act[a].file]) \o Tail(agenda)
        BY <1>6, <2>2, ActionTypes DEF Include
      <3>2. Assignments(Act[a].args) \o Visits(Body[Act[a].file]) \in Seq(Items)
        BY <3>1, ActionTypes, ArgumentTypes, ItemTypes, LaunchActionsAssumption
      <3>. QED
        BY <1>6, <3>1, <3>2 DEF Include, Types
    <2>. QED
      BY <2>1, <2>2
  <1>7. ASSUME NEW a \in Actions, Launch(a)
        PROVE  /\ agenda' = Tail(agenda) \/ agenda' = <<>>
               /\ failed' \in BOOLEAN /\ config' = config
               /\ started' = started \/ \E e : started' = Append(started, e)
    BY <1>7 DEF Launch, Done, Fail, Types
  <1>8. config = [k \in Keys |-> config[k]]
    BY DEF Types
  <1>. QED
    BY <1>2, <1>3, <1>4, <1>5, <1>6, <1>7, <1>8 DEF Step

LEMMA TypesInit == Init => Types
  <1> SUFFICES ASSUME Init PROVE Types
    OBVIOUS
  <1>1. config = [k \in Keys |-> config[k]]
    BY DEF Init, ActionsInit
  <1>2. /\ agenda = <<>> /\ started = <<>> /\ descriptions = <<>> /\ snapshot = <<>>
        /\ accepted = <<>> /\ next = 0 /\ failed = FALSE
    BY DEF Init, ActionsInit
  <1>3. \A S : <<>> \in Seq(S)
    OBVIOUS
  <1>4. next \in 0 .. Len(snapshot)
    BY <1>2
  <1>5. started \in Seq(ToSet(started))
    BY <1>2, <1>3
  <1>. QED
    BY <1>1, <1>2, <1>3, <1>4, <1>5 DEF Types

LEMMA TypesStep == ASSUME Types, [Next]_vars PROVE Types'
  <1>1. /\ Len(snapshot) \in Nat /\ next \in Nat /\ next <= Len(snapshot)
        /\ \A j \in 1 .. Len(snapshot) : snapshot[j] \in Descriptions
    BY DEF Types
  <1>2. ASSUME NEW th \in Threads, RunVisit(th) PROVE Types'
    <2>1. next + 1 \in 1 .. Len(snapshot)
      BY <1>1, <1>2 DEF RunVisit
    <2>2. Contents[snapshot[next + 1]] \in Seq(Actions)
      BY <1>1, <2>1, LaunchServiceAssumption
    <2>3. agenda' \in Seq(Items)
      BY <1>2, <2>2, ItemTypes DEF RunVisit
    <2>4. next' \in 0 .. Len(snapshot)
      BY <1>1, <1>2, <2>1 DEF RunVisit
    <2>. QED
      BY <1>2, <2>3, <2>4 DEF RunVisit, Types
  <1>3. ASSUME NEW th \in Threads, RunStep(th) PROVE Types'
    <2>1. agenda # <<>> /\ Step /\ UNCHANGED serviceVars
      BY <1>3 DEF RunStep
    <2>2. agenda' \in Seq(Items)
      <3>1. Tail(agenda) \in Seq(Items)
        BY <2>1 DEF Types
      <3>2. \/ agenda' = Tail(agenda)
            \/ \E list \in Seq(Items) : agenda' = list \o Tail(agenda)
            \/ agenda' = <<>>
        BY <2>1, AgendaMoves
      <3>3. \A S : \A list \in Seq(S), rest \in Seq(S) : list \o rest \in Seq(S)
        OBVIOUS
      <3>4. <<>> \in Seq(Items)
        OBVIOUS
      <3>. QED
        BY <3>1, <3>2, <3>3, <3>4, Zenon
    <2>3. started' \in Seq(ToSet(started'))
      <3>1. CASE started' = started
        BY <3>1 DEF Types
      <3>2. ASSUME NEW e, started' = Append(started, e)
            PROVE  started' \in Seq(ToSet(started'))
        <4>1. started \in Seq(ToSet(started) \union {e})
          BY DEF Types
        <4>. QED
          BY <3>2, <4>1, PushFacts
      <3>. QED
        BY <2>1, <3>1, <3>2, AgendaMoves
    <2>. QED
      BY <2>1, <2>2, <2>3, AgendaMoves DEF Types, serviceVars
  <1>4. ASSUME NEW th \in Threads, RunCopy(th) \/ RunFail(th) \/ RunSucceed(th)
        PROVE  Types'
    BY <1>4 DEF RunCopy, RunFail, RunSucceed, actionVars, Types
  <1>5. ASSUME NEW th \in Threads, ShutdownBegin(th) \/ ShutdownFinish(th)
        PROVE  Types'
    BY <1>5 DEF ShutdownBegin, ShutdownFinish, actionVars, Types
  <1>6. ASSUME NEW th \in Threads, NEW d \in Descriptions, IncludeDescription(th, d)
        PROVE  Types'
    BY <1>6 DEF IncludeDescription, actionVars, Types
  <1>7. ASSUME NEW th \in Threads, NEW whenIdle \in BOOLEAN, RunBegin(th, whenIdle)
        PROVE  Types'
    BY <1>7 DEF RunBegin, actionVars, Types
  <1>8. CASE UNCHANGED vars
    BY <1>8 DEF vars, actionVars, serviceVars, Types
  <1>. QED
    BY <1>2, <1>3, <1>4, <1>5, <1>6, <1>7, <1>8 DEF Next, Proceed, Call

\* The first sequence is the beginning of the second.
Begins(s, t) == Len(s) <= Len(t) /\ \A j \in 1 .. Len(s) : s[j] = t[j]

\* The copy is visited to its end, without an error.
Visited == agenda = <<>> /\ ~failed /\ next = Len(snapshot)

\* What was included when run() took over is in its copy from when it takes it,
\* and is visited by when it calls shutdown() or returns 0.
TakenUp ==
  /\ Begins(accepted, descriptions)
  /\ (\E th \in Threads : pc[th] \in {"visiting", "closing", "closed"}) \/ result # None =>
       Begins(accepted, snapshot)
  /\ (\E th \in Threads : pc[th] \in {"closing", "closed"}) \/ result = 0 => Visited

LEMMA TakenUpStep == ASSUME IInv, Types, TakenUp, [Next]_vars PROVE TakenUp'
  <1>0. accepted \in Seq(Descriptions) /\ descriptions \in Seq(Descriptions) /\ result \in {None, 0, 1}
    BY DEF Types, IInv, ServiceTypeOK
  <1>1. ASSUME NEW th \in Threads, RunVisit(th) \/ RunStep(th) PROVE TakenUp'
    <2>1. /\ pc[th] = "visiting" /\ pc' = pc /\ result' = result
          /\ UNCHANGED <<accepted, descriptions, snapshot>>
      BY <1>1 DEF RunVisit, RunStep, serviceVars
    <2>2. result = None /\ \A uh \in Threads : pc[uh] \notin {"closing", "closed"}
      BY <2>1 DEF IInv, WonOnce, Inside
    <2>. QED
      BY <2>1, <2>2, LaunchServiceAssumption DEF TakenUp, Begins
  <1>2. ASSUME NEW th \in Threads, RunCopy(th) PROVE TakenUp'
    <2>1. result = None /\ \A uh \in Threads : pc[uh] \notin {"closing", "closed"}
      BY <1>2 DEF RunCopy, IInv, WonOnce, Inside
    <2>2. \A uh \in Threads : pc'[uh] \notin {"closing", "closed"}
      BY <1>2, <2>1 DEF RunCopy, Goto, IInv, ServiceTypeOK
    <2>. QED
      BY <1>2, <2>1, <2>2, LaunchServiceAssumption DEF RunCopy, TakenUp, Begins
  <1>3. ASSUME NEW th \in Threads, RunFail(th) \/ RunSucceed(th) PROVE TakenUp'
    <2>1. /\ pc[th] = "visiting" /\ \A uh \in Threads \ {th} : pc'[uh] = pc[uh]
          /\ UNCHANGED <<accepted, descriptions, snapshot, agenda, failed, next>>
      BY <1>3 DEF RunFail, RunSucceed, Goto, actionVars, IInv, ServiceTypeOK
    <2>2. result = None /\ \A uh \in Threads \ {th} : pc[uh] \notin {"closing", "closed"}
      BY <2>1 DEF IInv, WonOnce, Inside
    <2>3. Begins(accepted, descriptions)' /\ Begins(accepted, snapshot)'
      BY <2>1 DEF TakenUp, Begins
    <2>4. CASE RunFail(th)
      <3>1. result' = 1 /\ pc'[th] = "out"
        BY <2>4 DEF RunFail, Goto, IInv, ServiceTypeOK
      <3>. QED
        BY <2>1, <2>2, <2>3, <3>1 DEF TakenUp
    <2>5. CASE RunSucceed(th)
      BY <2>1, <2>3, <2>5 DEF RunSucceed, TakenUp, Visited
    <2>. QED
      BY <1>3, <2>4, <2>5
  <1>4. ASSUME NEW th \in Threads, ShutdownBegin(th) \/ ShutdownFinish(th) PROVE TakenUp'
    <2>1. /\ \A uh \in Threads \ {th} : pc'[uh] = pc[uh]
          /\ UNCHANGED <<accepted, descriptions, snapshot, agenda, failed, next>>
      BY <1>4 DEF ShutdownBegin, ShutdownFinish, Return, Goto, actionVars, IInv, ServiceTypeOK
    <2>2. /\ pc'[th] \in {"out", "stopping", "closed"}
          /\ pc'[th] = "closed" => pc[th] \in {"closing", "closed"}
          /\ result' = result \/ pc[th] \in {"closing", "closed"}
      BY <1>4 DEF ShutdownBegin, ShutdownFinish, Return, Goto, IInv, ServiceTypeOK
    <2>. QED
      BY <2>1, <2>2 DEF TakenUp, Begins, Visited
  <1>5. ASSUME NEW th \in Threads, NEW d \in Descriptions, IncludeDescription(th, d)
        PROVE  TakenUp'
    <2>1. /\ UNCHANGED <<accepted, snapshot, pc, result, agenda, failed, next>>
          /\ descriptions' = Append(descriptions, d)
      BY <1>5 DEF IncludeDescription, actionVars
    <2>2. Begins(accepted, descriptions')
      BY <1>0, <2>1, AppendFacts DEF TakenUp, Begins
    <2>. QED
      BY <2>1, <2>2 DEF TakenUp, Begins, Visited
  <1>6. ASSUME NEW th \in Threads, NEW whenIdle \in BOOLEAN, RunBegin(th, whenIdle)
        PROVE  TakenUp'
    <2>1. result = None /\ \A uh \in Threads : pc[uh] = "out"
      BY <1>6 DEF RunBegin, IInv, WonOnce
    <2>2. /\ result' = None /\ \A uh \in Threads : pc'[uh] \in {"out", "copying"}
          /\ accepted' = descriptions /\ descriptions' = descriptions
      BY <1>6, <2>1 DEF RunBegin, Goto, IInv, ServiceTypeOK
    <2>3. Begins(accepted, descriptions)'
      BY <1>0, <2>2 DEF Begins
    <2>4. /\ result' # 0 /\ ~\E uh \in Threads : pc'[uh] \in {"visiting", "closing", "closed"}
      BY <2>2, LaunchServiceAssumption
    <2>. QED
      BY <2>2, <2>3, <2>4 DEF TakenUp
  <1>7. CASE UNCHANGED vars
    BY <1>7 DEF vars, actionVars, serviceVars, TakenUp, Begins, Visited
  <1>. QED
    BY <1>1, <1>2, <1>3, <1>4, <1>5, <1>6, <1>7 DEF Next, Proceed, Call

LEMMA ContextInvariance == Spec => [](IInv /\ Types /\ TakenUp)
  <1>1. Init => TakenUp
    BY LaunchServiceAssumption DEF Init, ActionsInit, TakenUp, Begins
  <1>. QED
    BY <1>1, InvInit, InvStep, TypesInit, TypesStep, TakenUpStep, PTL DEF Spec

-----------------------------------------------------------------------------
(* Arguments of inclusions.                                                *)

\* To take up item x leaves configuration k as it is, once it has a value.
Harmless(k, x) ==
  \/ x[1] = "assign" /\ (x[2] # k \/ x[3] = NoExpr)
  \/ x[1] # "assign" /\ Act[x[2]].kind \in {"declare", "process"}

\* Configuration k has value v by when the m-th item of the agenda is taken up.
HasBy(k, v, m) ==
  \E l \in 0 .. m - 1 :
    /\ \/ l = 0 /\ config[k] = v
       \/ l > 0 /\ agenda[l] = <<"assign", k, <<"text", v>>>>
    /\ \A q \in l + 1 .. m - 1 : Harmless(k, agenda[q])

\* Wherever the agenda has action p.
HasBefore(k, v, p) ==
  \A m \in DOMAIN agenda :
    agenda[m][1] # "assign" /\ agenda[m][2] = p => HasBy(k, v, m)

\* An item is taken off the agenda.
LEMMA TakeOff ==
  ASSUME agenda \in Seq(Items), agenda # <<>>, agenda' = Tail(agenda),
         NEW k, NEW v, NEW p, HasBefore(k, v, p),
         Head(agenda) = <<"assign", k, <<"text", v>>>> => config'[k] = v,
         Harmless(k, Head(agenda)) /\ config[k] = v => config'[k] = v
  PROVE  HasBefore(k, v, p)'
  <1> SUFFICES ASSUME NEW m \in DOMAIN agenda', agenda'[m][1] # "assign", agenda'[m][2] = p
               PROVE  HasBy(k, v, m)'
    BY DEF HasBefore
  <1>1. /\ Len(agenda) \in Nat /\ Len(agenda) > 0 /\ DOMAIN agenda' = 1 .. Len(agenda) - 1
        /\ Head(agenda) = agenda[1]
        /\ \A q \in 1 .. Len(agenda) - 1 : agenda'[q] = agenda[q + 1]
    OBVIOUS
  <1>2. m + 1 \in DOMAIN agenda /\ agenda'[m] = agenda[m + 1] /\ m \in Nat /\ m < Len(agenda)
    BY <1>1
  <1>3. PICK l \in 0 .. m :
          /\ \/ l = 0 /\ config[k] = v
             \/ l > 0 /\ agenda[l] = <<"assign", k, <<"text", v>>>>
          /\ \A q \in l + 1 .. m : Harmless(k, agenda[q])
    <2>1. HasBy(k, v, m + 1)
      BY <1>2 DEF HasBefore
    <2>2. (m + 1) - 1 = m
      BY <1>2
    <2>. QED
      BY <2>1, <2>2, Zenon DEF HasBy
  <1>4. \A q \in 1 .. m - 1 : q >= l => Harmless(k, agenda'[q])
    <2> SUFFICES ASSUME NEW q \in 1 .. m - 1, q >= l PROVE Harmless(k, agenda'[q])
      OBVIOUS
    <2>1. q + 1 \in l + 1 .. m /\ agenda'[q] = agenda[q + 1]
      BY <1>1, <1>2
    <2>. QED
      BY <1>3, <2>1
  <1>5. CASE l <= 1
    <2>1. config'[k] = v
      <3>1. CASE l = 0
        <4>1. 1 \in l + 1 .. m
          BY <1>1, <1>2, <3>1
        <4>. QED
          BY <1>1, <1>3, <3>1, <4>1
      <3>2. CASE l = 1
        BY <1>1, <1>3, <3>2
      <3>. QED
        BY <1>5, <3>1, <3>2
    <2>2. 0 \in 0 .. m - 1 /\ \A q \in 0 + 1 .. m - 1 : Harmless(k, agenda'[q])
      BY <1>1, <1>2, <1>4, <1>5
    <2>. QED
      BY <2>1, <2>2 DEF HasBy, Harmless
  <1>6. CASE l > 1
    <2>1. /\ l - 1 \in 0 .. m - 1 /\ l - 1 > 0 /\ l - 1 \in 1 .. Len(agenda) - 1
          /\ agenda'[l - 1] = <<"assign", k, <<"text", v>>>>
      BY <1>1, <1>2, <1>3, <1>6
    <2>2. \A q \in (l - 1) + 1 .. m - 1 : Harmless(k, agenda'[q])
      BY <1>2, <1>4, <1>6
    <2>. QED
      BY <2>1, <2>2 DEF HasBy, Harmless
  <1>. QED
    BY <1>5, <1>6

\* An item that is not harmless, and no assignment, is replaced by others.
LEMMA Replace ==
  ASSUME agenda \in Seq(Items), agenda # <<>>, NEW list \in Seq(Items),
         agenda' = list \o Tail(agenda), config' = config,
         NEW k, NEW v, NEW p, HasBefore(k, v, p),
         Head(agenda)[1] # "assign", ~Harmless(k, Head(agenda)),
         \A m \in 1 .. Len(list) : list[m][1] # "assign" /\ list[m][2] = p => HasBy(k, v, m)'
  PROVE  HasBefore(k, v, p)'
  <1> SUFFICES ASSUME NEW m \in DOMAIN agenda', agenda'[m][1] # "assign", agenda'[m][2] = p
               PROVE  HasBy(k, v, m)'
    BY DEF HasBefore
  <1>1. /\ Len(agenda) \in Nat /\ Len(agenda) > 0 /\ Len(list) \in Nat
        /\ DOMAIN agenda' = 1 .. Len(list) + Len(agenda) - 1
        /\ Head(agenda) = agenda[1] /\ DOMAIN agenda = 1 .. Len(agenda)
        /\ \A q \in 1 .. Len(list) : agenda'[q] = list[q]
        /\ \A q \in 1 .. Len(agenda) - 1 : agenda'[Len(list) + q] = agenda[q + 1]
    <2>1. /\ Tail(agenda) \in Seq(Items) /\ Len(agenda) > 0 /\ Len(agenda) \in Nat
          /\ Head(agenda) = agenda[1] /\ Len(Tail(agenda)) = Len(agenda) - 1
          /\ \A q \in 1 .. Len(agenda) - 1 : Tail(agenda)[q] = agenda[q + 1]
      OBVIOUS
    <2>. QED
      BY <2>1
  <1>2. CASE m <= Len(list)
    BY <1>1, <1>2
  <1>3. CASE m > Len(list)
    <2> DEFINE s == m - Len(list)
    <2>1. /\ s \in 1 .. Len(agenda) - 1 /\ m = Len(list) + s
          /\ s + 1 \in DOMAIN agenda /\ agenda[s + 1] = agenda'[m]
      BY <1>1, <1>3
    <2> HIDE DEF s
    <2>2. PICK l \in 0 .. s :
            /\ \/ l = 0 /\ config[k] = v
               \/ l > 0 /\ agenda[l] = <<"assign", k, <<"text", v>>>>
            /\ \A q \in l + 1 .. s : Harmless(k, agenda[q])
      <3>1. HasBy(k, v, s + 1)
        BY <2>1 DEF HasBefore
      <3>2. (s + 1) - 1 = s
        BY <2>1
      <3>. QED
        BY <3>1, <3>2, Zenon DEF HasBy
    <2>3. l # 0
      <3>1. 1 \in 0 + 1 .. s
        BY <1>1, <2>1
      <3>. QED
        BY <1>1, <2>2, <3>1
    <2>4. l # 1
      BY <1>1, <2>2
    <2>5. /\ l - 1 \in 1 .. Len(agenda) - 1 /\ l > 1
          /\ Len(list) + (l - 1) \in 0 .. m - 1 /\ Len(list) + (l - 1) > 0
      BY <1>1, <2>1, <2>2, <2>3, <2>4
    <2>6. agenda'[Len(list) + (l - 1)] = <<"assign", k, <<"text", v>>>>
      BY <1>1, <2>2, <2>5
    <2>7. ASSUME NEW q \in (Len(list) + (l - 1)) + 1 .. m - 1 PROVE Harmless(k, agenda'[q])
      <3>1. /\ q - Len(list) \in 1 .. Len(agenda) - 1 /\ q = Len(list) + (q - Len(list))
            /\ (q - Len(list)) + 1 \in l + 1 .. s
        BY <1>1, <2>1, <2>5
      <3>2. agenda'[q] = agenda[(q - Len(list)) + 1]
        BY <1>1, <3>1
      <3>. QED
        BY <2>2, <3>1, <3>2
    <2>. QED
      BY <2>5, <2>6, <2>7 DEF HasBy, Harmless
  <1>. QED
    BY <1>1, <1>2, <1>3

\* An argument that decides is a text, and so a value.
LEMMA DecidingText ==
  ASSUME NEW a \in Actions, NEW i \in DOMAIN Act[a].args, Decides(a, i)
  PROVE  /\ Act[a].args[i][1] \in Keys /\ Act[a].args[i][2][2] \in Values
         /\ Act[a].args[i][2] = <<"text", Act[a].args[i][2][2]>>
         /\ Act[a].args[i][2][2] # Unset
  <1>1. Act[a].args[i] \in Keys \X Exprs
    BY ActionTypes
  <1>2. /\ Act[a].args[i][2] \in Exprs /\ Act[a].args[i][2] # NoExpr
        /\ Act[a].args[i][2][1] = "text"
    BY <1>1 DEF Decides
  <1>3. \A e \in Exprs : e # NoExpr /\ e[1] = "text" => e \in {"text"} \X Values
    BY DEF Exprs, SimpleExprs
  <1>. QED
    BY <1>1, <1>2, <1>3, SubstitutionsAssumption

\* What texts and configurations give.
LEMMA Gives ==
  ASSUME NEW k, NEW v
  PROVE  /\ Perform(<<"text", v>>) = v
         /\ config[k] = v /\ v # Unset => Perform(<<"var", k>>) = v
  BY DEF Perform, PerformIn, PerformSimple, Lookup

\* Where the elements of two sequences are in the first followed by the second.
LEMMA Followed ==
  ASSUME NEW S, NEW s \in Seq(S), NEW t \in Seq(S)
  PROVE  /\ s \o t \in Seq(S) /\ Len(s \o t) = Len(s) + Len(t)
         /\ \A j \in 1 .. Len(s) : (s \o t)[j] = s[j]
         /\ \A j \in 1 .. Len(t) : (s \o t)[Len(s) + j] = t[j]
  OBVIOUS

\* What an inclusion puts on the agenda.
LEMMA InclusionItems ==
  ASSUME NEW args \in Seq(Keys \X Exprs), NEW body \in Seq(Actions),
         NEW list, list = Assignments(args) \o Visits(body)
  PROVE  /\ list \in Seq(Items) /\ Len(list) = Len(args) + Len(body)
         /\ \A j \in 1 .. Len(args) : list[j] = <<"assign", args[j][1], args[j][2]>>
         /\ \A j \in 1 .. Len(body) : list[Len(args) + j] = <<"visit", body[j]>>
  <1>1. /\ Assignments(args) \in Seq(Items) /\ Len(Assignments(args)) = Len(args)
        /\ \A j \in 1 .. Len(args) : Assignments(args)[j] = <<"assign", args[j][1], args[j][2]>>
    <2>1. DOMAIN args = 1 .. Len(args)
      OBVIOUS
    <2>. QED
      BY <2>1, ArgumentTypes
  <1>2. /\ Visits(body) \in Seq(Items) /\ Len(Visits(body)) = Len(body)
        /\ \A j \in 1 .. Len(body) : Visits(body)[j] = <<"visit", body[j]>>
    BY ItemTypes
  <1>3. /\ list \in Seq(Items) /\ Len(list) = Len(Assignments(args)) + Len(Visits(body))
        /\ \A j \in 1 .. Len(Assignments(args)) : list[j] = Assignments(args)[j]
        /\ \A j \in 1 .. Len(Visits(body)) : list[Len(Assignments(args)) + j] = Visits(body)[j]
    <2>1. Assignments(args) \in Seq(Items) /\ Visits(body) \in Seq(Items)
      BY <1>1, <1>2
    <2>. QED
      BY <2>1, Followed
  <1>. QED
    BY <1>1, <1>2, <1>3, Zenon

\* An argument is assigned before what the included file starts is visited.
LEMMA InclusionAssigns ==
  ASSUME NEW args \in Seq(Keys \X Exprs), NEW body \in Seq(Actions),
         NEW list \in Seq(Items), Len(list) = Len(args) + Len(body),
         \A j \in 1 .. Len(args) : list[j] = <<"assign", args[j][1], args[j][2]>>,
         \A j \in 1 .. Len(body) : list[Len(args) + j] = <<"visit", body[j]>>,
         \A j \in 1 .. Len(body) : Act[body[j]].kind \in {"declare", "process"},
         \A j \in 1 .. Len(list) : agenda'[j] = list[j],
         NEW k, NEW v, NEW i \in 1 .. Len(args), args[i][1] = k, args[i][2] = <<"text", v>>,
         \A j \in 1 .. Len(args) : j > i /\ args[j][1] = k => args[j][2] = NoExpr,
         NEW m \in 1 .. Len(list), list[m][1] # "assign"
  PROVE  HasBy(k, v, m)'
  <1>1. Len(args) \in Nat /\ Len(body) \in Nat
    OBVIOUS
  <1>2. \A j \in 1 .. Len(args) : list[j][1] = "assign"
    OBVIOUS
  <1>3. m > Len(args)
    BY <1>1, <1>2
  <1>4. i \in 0 .. m - 1 /\ i > 0 /\ agenda'[i] = <<"assign", k, <<"text", v>>>>
    <2>1. agenda'[i] = <<"assign", k, <<"text", v>>>>
      <3>1. i \in 1 .. Len(list)
        BY <1>1
      <3>2. list[i] = <<"assign", k, <<"text", v>>>>
        BY Zenon
      <3>. QED
        BY <3>1, <3>2, Zenon
    <2>2. i \in 0 .. m - 1 /\ i > 0
      BY <1>1, <1>3
    <2>. QED
      BY <2>1, <2>2
  <1>5. ASSUME NEW q \in i + 1 .. m - 1 PROVE Harmless(k, agenda'[q])
    <2>1. CASE q <= Len(args)
      <3>1. q > i /\ q \in 1 .. Len(args) /\ q \in 1 .. Len(list)
        BY <1>1, <2>1
      <3>2. agenda'[q] = <<"assign", args[q][1], args[q][2]>>
        BY <3>1
      <3>. QED
        BY <3>1, <3>2 DEF Harmless
    <2>2. CASE q > Len(args)
      <3>1. /\ q - Len(args) \in 1 .. Len(body) /\ q = Len(args) + (q - Len(args))
            /\ q \in 1 .. Len(list)
        BY <1>1, <2>2
      <3>2. agenda'[q] = <<"visit", body[q - Len(args)]>>
        BY <3>1
      <3>. QED
        BY <3>1, <3>2 DEF Harmless
    <2>. QED
      BY <1>1, <2>1, <2>2
  <1>. QED
    BY <1>4, <1>5 DEF HasBy, Harmless

\* What is put before the rest of the agenda.
LEMMA InFront ==
  ASSUME agenda \in Seq(Items), agenda # <<>>, NEW list \in Seq(Items),
         agenda' = list \o Tail(agenda)
  PROVE  \A j \in 1 .. Len(list) : agenda'[j] = list[j]
  <1>1. Tail(agenda) \in Seq(Items)
    OBVIOUS
  <1>. QED
    BY <1>1, Followed

\* A deciding argument stays before what its inclusion starts.
LEMMA ArgumentStep ==
  ASSUME Types, agenda # <<>>, Step,
         NEW a \in Actions, Act[a].kind = "include", NEW i \in DOMAIN Act[a].args, Decides(a, i),
         NEW p \in Actions, OnlyIncludedBy(p, a),
         NEW k, k = Act[a].args[i][1], NEW v, v = Act[a].args[i][2][2],
         HasBefore(k, v, p)
  PROVE  HasBefore(k, v, p)'
  <1>1. /\ agenda \in Seq(Items) /\ Head(agenda) \in Items
        /\ config = [c \in Keys |-> config[c]]
    BY DEF Types
  <1>2. k \in Keys /\ v # Unset /\ Act[a].args[i][2] = <<"text", v>> /\ <<"text", v>> # NoExpr
    BY DecidingText DEF Decides
  <1>3. CASE agenda' = <<>>
    BY <1>3 DEF HasBefore
  <1>4. ASSUME agenda' = Tail(agenda), config' = config, Head(agenda)[1] # "assign"
        PROVE  HasBefore(k, v, p)'
    <2>1. Head(agenda) # <<"assign", k, <<"text", v>>>>
      BY <1>4
    <2>. QED
      BY <1>1, <1>4, <2>1, TakeOff, Zenon
  <1>5. CASE Skip
    BY <1>4, <1>5 DEF Skip, Done
  <1>6. CASE Assign
    <2>1. agenda' = Tail(agenda) /\ Head(agenda)[1] = "assign" /\ Head(agenda)[2] \in Keys
      BY <1>1, <1>6 DEF Assign, Done, Items
    <2>2. ASSUME Head(agenda) = <<"assign", k, <<"text", v>>>> PROVE config'[k] = v
      <3>1. config' = [config EXCEPT ![k] = Perform(<<"text", v>>)]
        <4>1. Head(agenda)[2] = k /\ Head(agenda)[3] = <<"text", v>>
          BY <2>2
        <4>. QED
          BY <1>2, <1>6, <4>1, Zenon DEF Assign
      <3>. QED
        BY <1>1, <1>2, <3>1, Gives
    <2>3. ASSUME Harmless(k, Head(agenda)), config[k] = v PROVE config'[k] = v
      <3>1. Head(agenda)[2] # k \/ Head(agenda)[3] = NoExpr
        BY <2>1, <2>3 DEF Harmless
      <3>2. CASE Head(agenda)[3] = NoExpr
        BY <1>6, <2>3, <3>2 DEF Assign
      <3>3. CASE Head(agenda)[3] # NoExpr
        <4>1. config' = [config EXCEPT ![Head(agenda)[2]] = Perform(Head(agenda)[3])]
          BY <1>6, <3>3 DEF Assign
        <4>. QED
          BY <1>1, <1>2, <2>3, <3>1, <3>3, <4>1
      <3>. QED
        BY <3>2, <3>3
    <2>. QED
      BY <1>1, <2>1, <2>2, <2>3, TakeOff
  <1>7. ASSUME NEW b \in Actions, Declare(b) PROVE HasBefore(k, v, p)'
    <2>1. agenda' = Tail(agenda) /\ Head(agenda)[1] # "assign"
      BY <1>7 DEF Declare, Executing, Done
    <2>2. ASSUME config[k] = v PROVE config'[k] = v
      BY <1>1, <1>2, <1>7, <2>2, ActionTypes DEF Declare
    <2>3. Head(agenda) # <<"assign", k, <<"text", v>>>>
      BY <2>1
    <2>. QED
      BY <1>1, <2>1, <2>2, <2>3, TakeOff, Zenon
  <1>8. ASSUME NEW b \in Actions, Set(b) PROVE HasBefore(k, v, p)'
    <2>1. /\ agenda' = Tail(agenda) /\ Head(agenda)[1] # "assign"
          /\ ~Harmless(k, Head(agenda))
      BY <1>8 DEF Set, Executing, Done, Harmless
    <2>2. Head(agenda) # <<"assign", k, <<"text", v>>>>
      BY <2>1
    <2>. QED
      BY <1>1, <2>1, <2>2, TakeOff, Zenon
  <1>9. ASSUME NEW b \in Actions, Group(b) \/ Timer(b) PROVE HasBefore(k, v, p)'
    <2>1. /\ config' = config /\ Head(agenda)[1] # "assign" /\ ~Harmless(k, Head(agenda))
          /\ agenda' = Tail(agenda) \/ agenda' = Executes(Act[b].actions) \o Tail(agenda)
      BY <1>9 DEF Group, Timer, Executing, Harmless
    <2>2. CASE agenda' = Executes(Act[b].actions) \o Tail(agenda)
      <3>1. Act[b].actions \in Seq(Actions)
        BY ActionTypes
      <3>2. /\ Executes(Act[b].actions) \in Seq(Items)
            /\ Len(Executes(Act[b].actions)) = Len(Act[b].actions)
            /\ \A m \in 1 .. Len(Act[b].actions) :
                 Executes(Act[b].actions)[m] = <<"execute", Act[b].actions[m]>>
        BY <3>1, ItemTypes, Zenon
      <3>3. \A m \in 1 .. Len(Act[b].actions) : Act[b].actions[m] # p
        BY <3>1 DEF OnlyIncludedBy
      <3>4. \A m \in 1 .. Len(Executes(Act[b].actions)) : Executes(Act[b].actions)[m][2] # p
        BY <3>2, <3>3
      <3>. QED
        BY <1>1, <2>1, <2>2, <3>2, <3>4, Replace
    <2>. QED
      BY <1>4, <2>1, <2>2
  <1>10. ASSUME NEW b \in Actions, Include(b) PROVE HasBefore(k, v, p)'
    <2>1. CASE Fail
      BY <1>3, <2>1 DEF Fail
    <2>2. CASE ~Fail
      <3> DEFINE args == Act[b].args
                 body == Body[Act[b].file]
                 list == Assignments(args) \o Visits(body)
      <3>1. /\ config' = config /\ Head(agenda)[1] # "assign" /\ ~Harmless(k, Head(agenda))
            /\ Act[b].kind = "include" /\ Act[b].file \in Files
            /\ agenda' = list \o Tail(agenda)
        BY <1>10, <2>2, ActionTypes DEF Include, Executing, Harmless
      <3>2. args \in Seq(Keys \X Exprs) /\ body \in Seq(Actions)
        BY <3>1, ActionTypes, FileTypes
      <3> HIDE DEF args, body, list
      <3>3. /\ Len(args) \in Nat /\ DOMAIN args = 1 .. Len(args)
            /\ Len(body) \in Nat /\ DOMAIN body = 1 .. Len(body)
        BY <3>2, Positions
      <3>4. /\ list \in Seq(Items) /\ Len(list) = Len(args) + Len(body)
            /\ \A j \in 1 .. Len(args) : list[j] = <<"assign", args[j][1], args[j][2]>>
            /\ \A j \in 1 .. Len(body) : list[Len(args) + j] = <<"visit", body[j]>>
        BY <3>2, InclusionItems DEF list
      <3>5. ASSUME NEW m \in 1 .. Len(list), list[m][1] # "assign", list[m][2] = p
            PROVE  HasBy(k, v, m)'
        <4>1. \E j \in DOMAIN body : body[j] = p
          <5>1. m \notin 1 .. Len(args)
            BY <3>4, <3>5
          <5>2. m - Len(args) \in 1 .. Len(body) /\ m = Len(args) + (m - Len(args))
            BY <3>3, <3>4, <5>1
          <5>3. list[m] = <<"visit", body[m - Len(args)]>>
            BY <3>4, <5>2
          <5>. QED
            BY <3>3, <3>5, <5>2, <5>3
        <4>2. Act[b].file = Act[a].file
          BY <3>1, <4>1 DEF OnlyIncludedBy, body
        <4>3. b = a
          BY <3>1, <4>2 DEF OnlyIncludedBy
        <4>4. /\ i \in 1 .. Len(args) /\ args[i][1] = k /\ args[i][2] = <<"text", v>>
              /\ \A j \in 1 .. Len(args) : j > i /\ args[j][1] = k => args[j][2] = NoExpr
          BY <1>2, <3>3, <4>3 DEF args, Decides
        <4>5. \A j \in 1 .. Len(body) : Act[body[j]].kind \in {"declare", "process"}
          BY <3>1, <3>3, FileTypes DEF body
        <4>6. \A j \in 1 .. Len(list) : agenda'[j] = list[j]
          BY <1>1, <3>1, <3>4, InFront
        <4>. QED
          BY <3>2, <3>4, <3>5, <4>4, <4>5, <4>6, InclusionAssigns
      <3>. QED
        BY <1>1, <3>1, <3>4, <3>5, Replace
    <2>. QED
      BY <2>1, <2>2
  <1>11. ASSUME NEW b \in Actions, Launch(b) PROVE HasBefore(k, v, p)'
    <2>1. /\ config' = config /\ Head(agenda)[1] # "assign"
          /\ agenda' = Tail(agenda) \/ agenda' = <<>>
      BY <1>11 DEF Launch, Executing, Done, Fail
    <2>. QED
      BY <1>3, <1>4, <2>1
  <1>. QED
    BY <1>5, <1>6, <1>7, <1>8, <1>9, <1>10, <1>11 DEF Step

\* A deciding argument stands before what only its inclusion starts, wherever
\* the agenda has it.
ArgumentsFirst ==
  \A a, p \in Actions : \A i \in DOMAIN Act[a].args :
    Act[a].kind = "include" /\ Decides(a, i) /\ OnlyIncludedBy(p, a) =>
      HasBefore(Act[a].args[i][1], Act[a].args[i][2][2], p)

\* What the running thread alone does.
LEMMA OnlyTheRunner ==
  ASSUME [Next]_vars
  PROVE  UNCHANGED actionVars \/ \E th \in Threads : RunVisit(th) \/ RunStep(th)
  BY DEF Next, Proceed, Call, RunCopy, RunFail, RunSucceed, ShutdownBegin, ShutdownFinish,
         IncludeDescription, RunBegin, vars

LEMMA ArgumentsFirstStep == ASSUME Types, ArgumentsFirst, [Next]_vars PROVE ArgumentsFirst'
  <1> SUFFICES ASSUME NEW a \in Actions, NEW p \in Actions, NEW i \in DOMAIN Act[a].args,
                      Act[a].kind = "include", Decides(a, i), OnlyIncludedBy(p, a),
                      NEW k, k = Act[a].args[i][1], NEW v, v = Act[a].args[i][2][2]
               PROVE  HasBefore(k, v, p)'
    BY DEF ArgumentsFirst, Decides, OnlyIncludedBy
  <1>1. HasBefore(k, v, p)
    BY DEF ArgumentsFirst
  <1>2. CASE UNCHANGED actionVars
    BY <1>1, <1>2 DEF actionVars, HasBefore, HasBy, Harmless
  <1>3. ASSUME NEW th \in Threads, RunStep(th) PROVE HasBefore(k, v, p)'
    BY <1>1, <1>3, ArgumentStep DEF RunStep
  <1>4. ASSUME NEW th \in Threads, RunVisit(th) PROVE HasBefore(k, v, p)'
    <2>1. PICK d \in Descriptions : agenda' = Visits(Contents[d])
      <3>1. next + 1 \in 1 .. Len(snapshot) /\ snapshot \in Seq(Descriptions)
        BY <1>4 DEF RunVisit, Types
      <3>2. snapshot[next + 1] \in Descriptions
        BY <3>1
      <3>. QED
        BY <1>4, <3>2 DEF RunVisit
    <2>2. Contents[d] \in Seq(Actions) /\ DOMAIN Contents[d] = 1 .. Len(Contents[d])
      BY LaunchServiceAssumption
    <2>3. /\ agenda' \in Seq(Items) /\ Len(agenda') = Len(Contents[d])
          /\ \A j \in 1 .. Len(Contents[d]) : agenda'[j] = <<"visit", Contents[d][j]>>
      BY <2>1, <2>2, ItemTypes, Zenon
    <2>4. \A j \in 1 .. Len(Contents[d]) : Contents[d][j] # p
      BY <2>2 DEF OnlyIncludedBy
    <2>5. \A m \in DOMAIN agenda' : agenda'[m][2] # p
      BY <2>3, <2>4
    <2>. QED
      BY <2>5 DEF HasBefore
  <1>. QED
    BY <1>2, <1>3, <1>4, OnlyTheRunner

LEMMA ArgumentsWinStep ==
  ASSUME Types, ArgumentsFirst, ArgumentsWin, [Next]_vars
  PROVE  ArgumentsWin'
  <1> SUFFICES ASSUME NEW a \in Actions, Act[a].kind = "include", NEW i \in DOMAIN Act[a].args,
                      NEW j \in DOMAIN started', NEW p, p = started'[j][1],
                      Decides(a, i), OnlyIncludedBy(p, a),
                      Act[p].expr = <<"var", Act[a].args[i][1]>>
               PROVE  started'[j][2] = Act[a].args[i][2][2]
    BY DEF ArgumentsWin, Decides, OnlyIncludedBy
  <1>1. ASSUME j \in DOMAIN started, started'[j] = started[j]
        PROVE  started'[j][2] = Act[a].args[i][2][2]
    BY <1>1 DEF ArgumentsWin
  <1>2. CASE started' = started
    BY <1>1, <1>2
  <1>3. ASSUME agenda # <<>>, NEW b \in Actions, Launch(b), started' # started
        PROVE  started'[j][2] = Act[a].args[i][2][2]
    <2>1. /\ started' = Append(started, <<b, Perform(Act[b].expr)>>)
          /\ Head(agenda)[1] # "assign" /\ Head(agenda)[2] = b
      BY <1>3 DEF Launch, Executing
    <2>2. /\ started \in Seq(ToSet(started) \union {<<b, Perform(Act[b].expr)>>})
          /\ Head(agenda) = agenda[1] /\ 1 \in DOMAIN agenda
      BY <1>3 DEF Types
    <2>3. /\ DOMAIN started = 1 .. Len(started) /\ Len(started) \in Nat
          /\ DOMAIN started' = 1 .. Len(started) + 1
          /\ started'[Len(started) + 1] = <<b, Perform(Act[b].expr)>>
          /\ \A n \in 1 .. Len(started) : started'[n] = started[n]
      <3>1. Len(started) \in Nat /\ DOMAIN started = 1 .. Len(started)
        BY <2>2
      <3>. QED
        BY <2>1, <2>2, <3>1, AppendFacts
    <2>4. CASE j \in 1 .. Len(started)
      BY <1>1, <2>3, <2>4
    <2>5. CASE j = Len(started) + 1
      <3>1. p = b /\ started'[j][2] = Perform(Act[p].expr)
        BY <2>3, <2>5
      <3>2. HasBy(Act[a].args[i][1], Act[a].args[i][2][2], 1)
        BY <2>1, <2>2, <3>1 DEF ArgumentsFirst, HasBefore
      <3>3. config[Act[a].args[i][1]] = Act[a].args[i][2][2]
        BY <3>2 DEF HasBy
      <3>4. Perform(<<"var", Act[a].args[i][1]>>) = Act[a].args[i][2][2]
        <4>1. Act[a].args[i][2][2] # Unset
          BY DecidingText
        <4>. QED
          BY <3>3, <4>1, Gives, Zenon
      <3>. QED
        BY <3>1, <3>4
    <2>. QED
      BY <2>3, <2>4, <2>5
  <1>4. ASSUME NEW th \in Threads, RunStep(th), started' # started
        PROVE  \E b \in Actions : Launch(b)
    BY <1>4 DEF RunStep, Step, Skip, Assign, Declare, Set, Group, Timer, Include
  <1>5. ASSUME NEW th \in Threads, RunVisit(th) PROVE started' = started
    BY <1>5 DEF RunVisit
  <1>6. ASSUME NEW th \in Threads, RunStep(th) PROVE agenda # <<>>
    BY <1>6 DEF RunStep
  <1>7. UNCHANGED actionVars => started' = started
    BY DEF actionVars
  <1>. QED
    BY <1>2, <1>3, <1>4, <1>5, <1>6, <1>7, OnlyTheRunner

-----------------------------------------------------------------------------
(* The properties.                                                         *)

\* A set whose elements are all the same one has at most one.
LEMMA AtMostOne ==
  ASSUME NEW S, \A x, y \in S : x = y
  PROVE  Cardinality(S) <= 1
  <1>1. CASE S = {}
    BY <1>1, FS_EmptySet
  <1>2. ASSUME NEW x \in S PROVE Cardinality(S) <= 1
    <2>1. S = {x}
      OBVIOUS
    <2>. QED
      BY <2>1, FS_Singleton
  <1>. QED
    BY <1>1, <1>2

\* At most one thread is ever inside run(), and none after it has returned, so
\* the launch context needs no mutex: src/launch_service.cpp, run().
THEOREM RunIsExclusive == Spec => []OneRunner
  <1> DEFINE running == {th \in Threads : pc[th] \in {"copying", "visiting", "closing", "closed"}}
  <1>1. IInv => OneRunner
    <2> SUFFICES ASSUME IInv
                 PROVE  Cardinality(running) <= (IF result = None THEN 1 ELSE 0)
      BY DEF OneRunner
    <2>1. CASE result = None
      <3>1. \A th, uh \in running : th = uh
        BY DEF IInv, WonOnce, Inside
      <3>. QED
        BY <2>1, <3>1, AtMostOne
    <2>2. CASE result # None
      <3>1. running = {}
        BY <2>2 DEF IInv, WonOnce, Inside
      <3>. QED
        BY <2>2, <3>1, FS_EmptySet
    <2>. QED
      BY <2>1, <2>2
  <1>. QED
    BY <1>1, Invariance, PTL

\* The status moves from IDLE towards STOPPED and never back, whatever run(),
\* shutdown() and the destructor do to it at once.
THEOREM StatusIsMonotonic == Spec => StatusMovesOn
  <1>1. /\ Ranks["IDLE"] = 0 /\ Ranks["RUNNING"] = 1
        /\ Ranks["SHUTTING_DOWN"] = 2 /\ Ranks["STOPPED"] = 3
    BY DEF Ranks
  <1>2. IInv /\ [Next]_vars => [Ranks[status] <= Ranks[status']]_vars
    <2> SUFFICES ASSUME IInv, Next PROVE Ranks[status] <= Ranks[status']
      OBVIOUS
    <2>1. /\ status \in {"IDLE", "RUNNING", "SHUTTING_DOWN", "STOPPED"}
          /\ \/ status' = status
             \/ status = "IDLE" /\ status' = "RUNNING"
             \/ status = "RUNNING" /\ status' = "SHUTTING_DOWN"
             \/ status' = "STOPPED"
      BY DEF IInv, ServiceTypeOK, Next, Proceed, Call, RunCopy, RunVisit, RunStep, RunFail,
             RunSucceed, ShutdownBegin, ShutdownFinish, IncludeDescription, RunBegin,
             serviceVars
    <2>. QED
      BY <1>1, <2>1
  <1>. QED
    BY <1>2, Invariance, PTL DEF Spec, StatusMovesOn

-----------------------------------------------------------------------------
(* A shutdown is carried out.                                              *)

\* Between the exchange and the last store of a shutdown there is one thread, and a
\* run() that has returned 0 and was to stop has found the exchange won.
Handed ==
  /\ OneStopper
  /\ stopsWhenIdle \in BOOLEAN
  /\ result = 0 /\ stopsWhenIdle => status \in {"SHUTTING_DOWN", "STOPPED"}

\* A thread that goes from a place outside shutdown() to another leaves it so.
LEMMA HandedAside ==
  ASSUME IInv, Handed, NEW th \in Threads, NEW place \in Places, Goto(th, place),
         ~Stopping(th), place \notin {"stopping", "closed"},
         \/ status' = status
         \/ status \in {"IDLE", "RUNNING"} /\ status' \in {"IDLE", "RUNNING"}
  PROVE  OneStopper'
  <1>1. \A uh \in Threads : Stopping(uh)' <=> Stopping(uh)
    BY DEF IInv, ServiceTypeOK, Goto, Stopping
  <1>. QED
    BY <1>1 DEF Handed, OneStopper

\* The exchange is won by one thread, when nobody else is at it,
LEMMA HandedOver ==
  ASSUME IInv, Handed, NEW th \in Threads, ShutdownBegin(th)
  PROVE  Handed'
  <1>1. CASE status = "RUNNING"
    <2>1. PICK place \in {"stopping", "closed"} :
            Goto(th, place) /\ status' = "SHUTTING_DOWN" /\ UNCHANGED <<result, stopsWhenIdle>>
      BY <1>1 DEF ShutdownBegin
    <2>2. \A uh \in Threads : ~Stopping(uh)
      BY <1>1 DEF Handed, OneStopper
    <2>3. \A uh \in Threads : Stopping(uh)' <=> uh = th
      BY <2>1, <2>2 DEF IInv, ServiceTypeOK, Goto, Stopping
    <2>. QED
      BY <2>1, <2>3 DEF Handed, OneStopper
  <1>2. CASE status # "RUNNING"
    <2>1. Goto(th, "out") /\ ~Stopping(th) /\ UNCHANGED <<status, stopsWhenIdle>>
      BY <1>2 DEF ShutdownBegin, Return, Stopping
    <2>2. OneStopper'
      BY <2>1, HandedAside DEF Places
    <2>3. CASE pc[th] = "closing"
      <3>1. status \in {"SHUTTING_DOWN", "STOPPED"}
        BY <1>2, <2>3, InsideIsWon
      <3>. QED
        BY <2>1, <2>2, <3>1 DEF Handed
    <2>4. CASE pc[th] = "out"
      BY <1>2, <2>1, <2>2, <2>4 DEF ShutdownBegin, Return, Handed
    <2>. QED
      BY <2>3, <2>4 DEF ShutdownBegin
  <1>. QED
    BY <1>1, <1>2

\* and the same thread takes the service to STOPPED.
LEMMA HandedIn ==
  ASSUME IInv, Handed, NEW th \in Threads, ShutdownFinish(th)
  PROVE  Handed'
  <1>1. Goto(th, "out") /\ Stopping(th) /\ status' = "STOPPED" /\ UNCHANGED stopsWhenIdle
    BY DEF ShutdownFinish, Return, Stopping
  <1>2. \A uh \in Threads : ~Stopping(uh)'
    BY <1>1 DEF IInv, ServiceTypeOK, Handed, OneStopper, Goto, Stopping
  <1>. QED
    BY <1>1, <1>2 DEF Handed, OneStopper

LEMMA HandedStep == IInv /\ Handed /\ [Next]_vars => Handed'
  <1> SUFFICES ASSUME IInv, Handed, [Next]_vars PROVE Handed'
    OBVIOUS
  <1>1. ASSUME UNCHANGED <<status, pc, result, stopsWhenIdle>> PROVE Handed'
    BY <1>1 DEF Handed, OneStopper, Stopping
  <1>2. ASSUME NEW th \in Threads,
               RunCopy(th) \/ RunFail(th) \/ RunSucceed(th)
        PROVE  Handed'
    <2>1. PICK place \in {"out", "visiting", "closing"} : Goto(th, place)
      BY <1>2 DEF RunCopy, RunFail, RunSucceed
    <2>2. UNCHANGED <<status, stopsWhenIdle>> /\ ~Stopping(th)
      BY <1>2 DEF RunCopy, RunFail, RunSucceed, Stopping
    <2>3. OneStopper'
      BY <2>1, <2>2, HandedAside DEF Places
    <2>4. result' = result \/ result' = 1 \/ ~stopsWhenIdle
      BY <1>2 DEF RunCopy, RunFail, RunSucceed
    <2>. QED
      BY <2>2, <2>3, <2>4 DEF Handed
  <1>3. ASSUME NEW th \in Threads, NEW whenIdle \in BOOLEAN, RunBegin(th, whenIdle)
        PROVE  Handed'
    <2>1. Goto(th, "copying") /\ ~Stopping(th) /\ status = "IDLE" /\ status' = "RUNNING"
      BY <1>3 DEF RunBegin, Stopping
    <2>2. OneStopper'
      BY <2>1, HandedAside DEF Places
    <2>3. result' = None /\ stopsWhenIdle' \in BOOLEAN
      BY <1>3 DEF RunBegin, IInv, WonOnce
    <2>. QED
      BY <2>2, <2>3, LaunchServiceAssumption DEF Handed
  <1>4. ASSUME NEW th \in Threads, Proceed(th) \/ Call(th) PROVE Handed'
    <2>1. CASE RunVisit(th) \/ RunStep(th)
      BY <1>1, <2>1 DEF RunVisit, RunStep, serviceVars
    <2>2. CASE \E d \in Descriptions : IncludeDescription(th, d)
      BY <1>1, <2>2 DEF IncludeDescription
    <2>. QED
      BY <1>2, <1>3, <1>4, <2>1, <2>2, HandedOver, HandedIn DEF Proceed, Call
  <1>5. CASE UNCHANGED vars
    BY <1>1, <1>5 DEF vars, serviceVars
  <1>. QED
    BY <1>4, <1>5 DEF Next

LEMMA HandedInvariance == Spec => []Handed
  <1>1. Init => Handed
    BY LaunchServiceAssumption DEF Init, Handed, OneStopper, Stopping
  <1>. QED
    BY <1>1, HandedStep, Invariance, PTL DEF Spec

\* While the service is SHUTTING_DOWN one thread has it in hand, and otherwise none:
\* src/launch_service.cpp, shutdown() and the failing return of run().
THEOREM ShutdownInOneHand == Spec => []OneStopper
  <1>1. Handed => OneStopper
    BY DEF Handed
  <1>. QED
    BY <1>1, HandedInvariance, PTL

\* A run() that was to stop when idle returns 0 from a service that is STOPPED, or
\* that a shutdown() on another thread is about to stop.
THEOREM StoppedOrBeingStopped == Spec => []StoppedUnlessOvertaken
  <1>1. IInv /\ Handed => StoppedUnlessOvertaken
    <2> SUFFICES ASSUME IInv, Handed, result = 0, stopsWhenIdle, status # "STOPPED"
                 PROVE  \E th \in Threads : pc[th] = "stopping"
      BY DEF StoppedUnlessOvertaken
    <2>1. PICK th \in Threads : Stopping(th)
      BY DEF Handed, OneStopper
    <2>2. ~Inside(th)
      BY LaunchServiceAssumption DEF IInv, WonOnce
    <2>. QED
      BY <2>1, <2>2 DEF Stopping, Inside
  <1>. QED
    BY <1>1, Invariance, HandedInvariance, PTL

-----------------------------------------------------------------------------
(* What run() has done when it returns.                                    *)

\* When run() returns 0, all that had been included by the time its exchange was
\* won is in the copy it took afterwards, in order, and the copy was visited to its
\* end without an error: src/launch_service.cpp, run().
THEOREM AcceptedIsTakenUp == Spec => [](result = 0 => Begins(accepted, snapshot) /\ Visited)
  <1>1. IInv /\ Types /\ TakenUp => (result = 0 => Begins(accepted, snapshot) /\ Visited)
    BY LaunchServiceAssumption DEF TakenUp
  <1>. QED
    BY <1>1, ContextInvariance, PTL

\* The text of an include's last argument for a configuration is what the
\* included file's processes are given, for any files: src/actions/
\* include_launch_description.cpp, execute(), and declare_launch_argument.cpp.
THEOREM TextArgumentsWin == Spec => []ArgumentsWin
  <1>1. Init => ArgumentsFirst /\ ArgumentsWin
    BY DEF Init, ActionsInit, ArgumentsFirst, HasBefore, ArgumentsWin
  <1>. QED
    BY <1>1, ArgumentsFirstStep, ArgumentsWinStep, ContextInvariance, PTL DEF Spec

-----------------------------------------------------------------------------
(* Through: the reference's way along a list.                              *)

\* What the elements of X do leaves one in E.
Closed(F, E, X) == \A e \in E, x \in X : F[x][e] \in E

\* The values F goes through from s along the list.
Trace(f, F, s, list) ==
  /\ f[0] = s
  /\ \A i \in 1 .. Len(list) : f[i] = F[list[i]][f[i - 1]]

\* There is such a trace, of elements of E, and Through is where it ends.
LEMMA ThroughTrace ==
  ASSUME NEW E, NEW X, NEW F, Closed(F, E, X),
         NEW s \in E, NEW list \in Seq(X)
  PROVE  \E f \in [0 .. Len(list) -> E] :
           Trace(f, F, s, list) /\ Through(F, s, list) = f[Len(list)]
  <1> DEFINE n == Len(list)
             Start(m) == \E f \in [0 .. m -> E] :
                           f[0] = s /\ \A i \in 1 .. m : f[i] = F[list[i]][f[i - 1]]
             S == {m \in 0 .. n : Start(m)}
             Eqn(f) == f = [i \in 0 .. n |-> IF i = 0 THEN s ELSE F[list[i]][f[i - 1]]]
             g == CHOOSE f : Eqn(f)
  <1>1. /\ n \in Nat /\ \A i \in 1 .. n : list[i] \in X
        /\ \A e \in E, x \in X : F[x][e] \in E
    BY DEF Closed
  <1>2. 0 \in S
    <2>1. [i \in 0 .. 0 |-> s] \in [0 .. 0 -> E] /\ [i \in 0 .. 0 |-> s][0] = s
      OBVIOUS
    <2>2. \A i \in 1 .. 0 : FALSE
      OBVIOUS
    <2>3. Start(0)
      BY <2>1, <2>2
    <2>. QED
      BY <1>1, <2>3
  <1>3. ASSUME NEW m \in 0 .. n - 1, m \in S PROVE m + 1 \in S
    <2>1. PICK f \in [0 .. m -> E] :
            f[0] = s /\ \A i \in 1 .. m : f[i] = F[list[i]][f[i - 1]]
      BY <1>3
    <2> DEFINE h == [i \in 0 .. m + 1 |-> IF i <= m THEN f[i] ELSE F[list[m + 1]][f[m]]]
    <2>2. m + 1 \in 0 .. n /\ m + 1 \in 1 .. n /\ m \in Nat /\ f[m] \in E
      BY <1>1, <2>1
    <2>3. F[list[m + 1]][f[m]] \in E
      BY <1>1, <2>2
    <2>4. h \in [0 .. m + 1 -> E]
      BY <2>1, <2>2, <2>3
    <2>5. h[0] = s
      BY <2>1, <2>2
    <2>6. ASSUME NEW i \in 1 .. m + 1 PROVE h[i] = F[list[i]][h[i - 1]]
      <3>1. CASE i <= m
        <4>1. i \in 1 .. m /\ i - 1 \in 0 .. m /\ i - 1 \in 0 .. m + 1 /\ i - 1 <= m
          BY <2>2, <3>1
        <4>2. h[i] = f[i] /\ h[i - 1] = f[i - 1]
          BY <3>1, <4>1
        <4>. QED
          BY <2>1, <4>1, <4>2
      <3>2. CASE i = m + 1
        <4>1. i - 1 = m /\ m \in 0 .. m + 1 /\ ~(m + 1 <= m)
          BY <2>2, <3>2
        <4>. QED
          BY <3>2, <4>1
      <3>. QED
        BY <2>2, <3>1, <3>2
    <2>7. Start(m + 1)
      <3> HIDE DEF h
      <3>. QED
        BY <2>4, <2>5, <2>6
    <2>. QED
      BY <2>2, <2>7
  <1>4. Start(n)
    <2>1. \A m \in 0 .. n : m \in S
      <3> HIDE DEF S, n
      <3>. QED
        BY <1>1, <1>2, <1>3, Reaches
    <2>. QED
      BY <1>1, <2>1
  <1>5. Eqn(g)
    <2>1. PICK f \in [0 .. n -> E] :
            f[0] = s /\ \A i \in 1 .. n : f[i] = F[list[i]][f[i - 1]]
      BY <1>4
    <2>2. \A i \in 0 .. n : i # 0 => i \in 1 .. n
      BY <1>1
    <2>3. Eqn(f)
      BY <2>1, <2>2
    <2>. QED
      <3> HIDE DEF Eqn
      <3>. QED
        BY <2>3
  <1>6. Through(F, s, list) = g[n]
    BY Zenon DEF Through
  <1> HIDE DEF g
  <1>7. /\ g = [i \in 0 .. n |-> g[i]]
        /\ g[0] = s /\ \A i \in 1 .. n : g[i] = F[list[i]][g[i - 1]]
    BY <1>1, <1>5
  <1>8. \A i \in 0 .. n : g[i] \in E
    <2> DEFINE T == {i \in 0 .. n : g[i] \in E}
    <2>1. 0 \in T
      BY <1>1, <1>7
    <2>2. ASSUME NEW i \in 0 .. n - 1, i \in T PROVE i + 1 \in T
      <3>1. i + 1 \in 1 .. n /\ i + 1 \in 0 .. n /\ (i + 1) - 1 = i
        BY <1>1
      <3>2. g[i + 1] = F[list[i + 1]][g[i]]
        BY <1>7, <3>1
      <3>. QED
        BY <1>1, <2>2, <3>1, <3>2
    <2>3. \A i \in 0 .. n : i \in T
      <3> HIDE DEF T, n
      <3>. QED
        BY <1>1, <2>1, <2>2, Reaches
    <2>. QED
      BY <2>3
  <1>9. g \in [0 .. n -> E]
    BY <1>7, <1>8
  <1>. QED
    BY <1>6, <1>7, <1>9 DEF Trace

\* There is one trace only.
LEMMA ThroughUnique ==
  ASSUME NEW E, NEW X, NEW F, Closed(F, E, X),
         NEW s \in E, NEW list \in Seq(X), NEW f, Trace(f, F, s, list)
  PROVE  Through(F, s, list) = f[Len(list)] /\ Through(F, s, list) \in E
  <1> DEFINE n == Len(list)
  <1>1. n \in Nat
    OBVIOUS
  <1>2. PICK g \in [0 .. n -> E] : Trace(g, F, s, list) /\ Through(F, s, list) = g[n]
    BY ThroughTrace
  <1> DEFINE S == {i \in 0 .. n : f[i] = g[i]}
  <1>3. 0 \in S
    BY <1>1, <1>2 DEF Trace
  <1>4. ASSUME NEW i \in 0 .. n - 1, i \in S PROVE i + 1 \in S
    <2>1. i + 1 \in 1 .. n /\ i + 1 \in 0 .. n /\ (i + 1) - 1 = i
      BY <1>1
    <2>2. f[i + 1] = F[list[i + 1]][f[i]] /\ g[i + 1] = F[list[i + 1]][g[i]]
      BY <1>2, <2>1 DEF Trace
    <2>. QED
      BY <1>4, <2>1, <2>2
  <1>5. \A i \in 0 .. n : i \in S
    <2> HIDE DEF S, n
    <2>. QED
      BY <1>1, <1>3, <1>4, Reaches
  <1>. QED
    BY <1>1, <1>2, <1>5

\* Nothing becomes of s along an empty list.
LEMMA ThroughEmpty ==
  ASSUME NEW E, NEW F, NEW s \in E
  PROVE  Through(F, s, <<>>) = s
  <1>1. Closed(F, E, {})
    BY DEF Closed
  <1>2. ASSUME NEW none \in Seq({}), none = <<>> PROVE Through(F, s, none) = s
    <2>1. PICK f \in [0 .. Len(none) -> E] :
            Trace(f, F, s, none) /\ Through(F, s, none) = f[Len(none)]
      BY <1>1, ThroughTrace
    <2>2. Len(none) = 0
      BY <1>2
    <2>. QED
      BY <2>1, <2>2 DEF Trace
  <1>3. <<>> \in Seq({})
    OBVIOUS
  <1>. QED
    BY <1>2, <1>3, Zenon

\* Along one list and then another.
LEMMA ThroughConcat ==
  ASSUME NEW E, NEW X, NEW F, Closed(F, E, X),
         NEW s \in E, NEW u \in Seq(X), NEW v \in Seq(X)
  PROVE  Through(F, s, u \o v) = Through(F, Through(F, s, u), v)
  <1> DEFINE t == Through(F, s, u)
  <1>1. PICK f \in [0 .. Len(u) -> E] : Trace(f, F, s, u) /\ t = f[Len(u)]
    BY ThroughTrace
  <1>2. t \in E
    BY <1>1
  <1> HIDE DEF t
  <1>3. PICK g \in [0 .. Len(v) -> E] : Trace(g, F, t, v) /\ Through(F, t, v) = g[Len(v)]
    BY <1>2, ThroughTrace
  <1> DEFINE w == u \o v
             h == [i \in 0 .. Len(w) |-> IF i <= Len(u) THEN f[i] ELSE g[i - Len(u)]]
  <1>4. /\ Len(u) \in Nat /\ Len(v) \in Nat /\ w \in Seq(X) /\ Len(w) = Len(u) + Len(v)
        /\ \A i \in 1 .. Len(u) : w[i] = u[i]
        /\ \A i \in Len(u) + 1 .. Len(w) : w[i] = v[i - Len(u)]
    OBVIOUS
  <1> HIDE DEF w
  <1>5. h[0] = s
    BY <1>1, <1>4 DEF Trace
  <1>6. ASSUME NEW i \in 1 .. Len(w) PROVE h[i] = F[w[i]][h[i - 1]]
    <2>1. i \in 0 .. Len(w) /\ i - 1 \in 0 .. Len(w) /\ i \in Nat /\ i - 1 \in Nat
      BY <1>4
    <2>2. CASE i <= Len(u)
      <3>1. h[i] = f[i] /\ h[i - 1] = f[i - 1] /\ i \in 1 .. Len(u)
        BY <1>4, <2>1, <2>2
      <3>. QED
        BY <1>1, <1>4, <3>1 DEF Trace
    <2>3. CASE i = Len(u) + 1
      <3>1. h[i] = g[1] /\ h[i - 1] = f[Len(u)] /\ 1 \in 1 .. Len(v)
        BY <1>4, <2>1, <2>3
      <3>2. g[1] = F[v[1]][g[0]] /\ g[0] = t
        BY <1>3, <3>1 DEF Trace
      <3>3. w[i] = v[1]
        <4>1. i \in Len(u) + 1 .. Len(w) /\ i - Len(u) = 1
          BY <1>4, <2>3
        <4>. QED
          BY <1>4, <4>1
      <3>. QED
        BY <1>1, <3>1, <3>2, <3>3
    <2>4. CASE i > Len(u) + 1
      <3> DEFINE j == i - Len(u)
      <3>1. /\ h[i] = g[j] /\ h[i - 1] = g[j - 1]
            /\ j \in 1 .. Len(v) /\ i \in Len(u) + 1 .. Len(w)
        <4>1. (i - 1) - Len(u) = j - 1 /\ ~(i <= Len(u)) /\ ~(i - 1 <= Len(u))
          BY <1>4, <2>1, <2>4
        <4>. QED
          BY <1>4, <2>1, <2>4, <4>1
      <3>. QED
        BY <1>3, <1>4, <3>1 DEF Trace
    <2>. QED
      BY <1>4, <2>1, <2>2, <2>3, <2>4
  <1>7. h[Len(w)] = g[Len(v)]
    <2>1. CASE Len(v) = 0
      BY <1>1, <1>3, <1>4, <2>1 DEF Trace
    <2>2. CASE Len(v) > 0
      <3>1. Len(w) \in 0 .. Len(w) /\ ~(Len(w) <= Len(u)) /\ Len(w) - Len(u) = Len(v)
        BY <1>4, <2>2
      <3>. QED
        BY <3>1
    <2>. QED
      BY <1>4, <2>1, <2>2
  <1>8. Through(F, s, w) = h[Len(w)]
    <2>1. Trace(h, F, s, w)
      <3> HIDE DEF h
      <3>. QED
        BY <1>5, <1>6 DEF Trace
    <2>2. w \in Seq(X)
      BY <1>4
    <2> HIDE DEF h
    <2>. QED
      BY <2>1, <2>2, ThroughUnique
  <1>. QED
    BY <1>3, <1>7, <1>8 DEF w, t

\* Lists of the same length, each element of which does what the other's does.
Alike(F, u, G, v, E) ==
  Len(u) = Len(v) /\ \A i \in 1 .. Len(u) : \A e \in E : F[u[i]][e] = G[v[i]][e]

\* What becomes of s along one is what becomes of it along the other.
LEMMA ThroughSame ==
  ASSUME NEW E, NEW X, NEW F, Closed(F, E, X), NEW Y, NEW G,
         NEW s \in E, NEW u \in Seq(X), NEW v \in Seq(Y), Alike(F, u, G, v, E)
  PROVE  Through(F, s, u) = Through(G, s, v)
  <1> DEFINE Z == {v[i] : i \in 1 .. Len(v)}
  <1> USE DEF Alike
  <1>1. Len(u) \in Nat /\ v \in Seq(Z) /\ \A i \in 1 .. Len(u) : u[i] \in X
    OBVIOUS
  <1>2. Closed(G, E, Z)
    BY <1>1 DEF Closed
  <1>3. PICK f \in [0 .. Len(u) -> E] : Trace(f, F, s, u) /\ Through(F, s, u) = f[Len(u)]
    BY ThroughTrace
  <1>4. Trace(f, G, s, v)
    <2>1. \A i \in 1 .. Len(u) : f[i - 1] \in E
      <3>1. \A i \in 1 .. Len(u) : i - 1 \in 0 .. Len(u)
        BY <1>1
      <3>. QED
        BY <1>3, <3>1
    <2>2. \A i \in 1 .. Len(v) : f[i] = G[v[i]][f[i - 1]]
      <3>. SUFFICES ASSUME NEW i \in 1 .. Len(v) PROVE f[i] = G[v[i]][f[i - 1]]
        OBVIOUS
      <3>1. i \in 1 .. Len(u)
        OBVIOUS
      <3>2. f[i] = F[u[i]][f[i - 1]]
        BY <1>3, <3>1 DEF Trace
      <3>3. F[u[i]][f[i - 1]] = G[v[i]][f[i - 1]]
        BY <2>1, <3>1
      <3>. QED
        BY <3>2, <3>3
    <2>. QED
      BY <1>3, <2>2 DEF Trace
  <1> HIDE DEF Z
  <1>. QED
    BY <1>1, <1>2, <1>3, <1>4, ThroughUnique

\* The first element, and the rest.
LEMMA ThroughFirst ==
  ASSUME NEW E, NEW X, NEW F, Closed(F, E, X),
         NEW s \in E, NEW list \in Seq(X), list # <<>>
  PROVE  Through(F, s, list) = Through(F, F[Head(list)][s], Tail(list))
  <1>1. \E x \in X, one \in Seq(X), rest \in Seq(X) :
          /\ x = Head(list) /\ rest = Tail(list)
          /\ one = <<x>> /\ list = one \o rest
    <2>1. /\ <<Head(list)>> \in Seq(X) /\ list = <<Head(list)>> \o Tail(list)
          /\ Head(list) \in X /\ Tail(list) \in Seq(X)
      OBVIOUS
    <2>. QED
      BY <2>1, Zenon
  <1>2. PICK x \in X, one \in Seq(X), rest \in Seq(X) :
          /\ x = Head(list) /\ rest = Tail(list)
          /\ one = <<x>> /\ list = one \o rest
    BY <1>1, Zenon
  <1>3. Through(F, s, one) = F[x][s]
    <2> DEFINE f == [i \in 0 .. 1 |-> IF i = 0 THEN s ELSE F[x][s]]
    <2>1. f[0] = s /\ f[1] = F[x][s]
      OBVIOUS
    <2> HIDE DEF f
    <2>2. \A i \in 1 .. 1 : i = 1 /\ i - 1 = 0
      OBVIOUS
    <2>3. Len(one) = 1 /\ one[1] = x
      BY <1>2
    <2>4. Trace(f, F, s, one)
      BY <2>1, <2>2, <2>3 DEF Trace
    <2>5. Through(F, s, one) = f[Len(one)]
      BY <2>4, ThroughUnique
    <2>. QED
      BY <2>1, <2>3, <2>5
  <1>4. Through(F, s, one \o rest) = Through(F, Through(F, s, one), rest)
    BY ThroughConcat
  <1>. QED
    BY <1>2, <1>3, <1>4, Zenon

-----------------------------------------------------------------------------
(* The values of substitutions.                                            *)

\* A substitution that is not a command gives what the reference says.
LEMMA SimpleSame ==
  ASSUME NEW s \in Effects, NEW e \in SimpleExprs
  PROVE  /\ PerformSimple(s.config, e) = SimpleValue(s, e)
         /\ PerformSimple(s.config, e) \in Values
         /\ e[1] # "command"
  <1>1. \A k \in Keys : s.config[k] \in Values \union {Unset}
    BY DEF Effects
  <1>2. CASE e \in {"text"} \X Values
    BY <1>2, SubstitutionsAssumption DEF PerformSimple, SimpleValue
  <1>3. CASE e \in {"var"} \X Keys
    BY <1>1, <1>3, SubstitutionsAssumption DEF PerformSimple, SimpleValue, Otherwise, Lookup
  <1>4. CASE e \in {"env"} \X (DOMAIN Environment) \X Values
    BY <1>4, SubstitutionsAssumption
       DEF PerformSimple, SimpleValue, Otherwise, GetEnv, get_environment_variable
  <1>5. CASE e \in {"find"} \X Values
    <2> DEFINE at == {i \in DOMAIN Path : <<Path[i], e[2]>> \in DOMAIN Executables}
    <2>1. e[1] = "find" /\ e[2] \in Values
      BY <1>5
    <2>2. /\ PerformSimple(s.config, e) = Find(e[2])
          /\ SimpleValue(s, e) =
               IF Path = Unset THEN e[2]
               ELSE IF at = {} THEN Empty
               ELSE Executables[<<Path[CHOOSE i \in at : \A j \in at : i <= j], e[2]>>]
      BY <2>1, Zenon DEF PerformSimple, SimpleValue
    <2>3. Find(e[2]) = IF Path = Unset THEN e[2]
                       ELSE IF at = {} THEN Empty ELSE Executables[<<Path[Min(at)], e[2]>>]
      BY Zenon DEF Find
    <2>4. Min(at) = CHOOSE i \in at : \A j \in at : i <= j
      BY Zenon DEF Min
    <2>5. ASSUME Path # Unset, at # {} PROVE Executables[<<Path[Min(at)], e[2]>>] \in Values
      <3>1. DOMAIN Path \subseteq Nat
        BY <2>5, SubstitutionsAssumption
      <3>2. at \in SUBSET Nat
        BY <3>1
      <3>3. Min(at) \in at
        <4> HIDE DEF at
        <4>. QED
          BY <2>5, <3>2, SmallestExists
      <3>. QED
        BY <3>3, SubstitutionsAssumption
    <2> HIDE DEF at
    <2>. QED
      BY <2>1, <2>2, <2>3, <2>4, <2>5, SubstitutionsAssumption
  <1>6. CASE e = <<"file">> \/ e = <<"dir">>
    BY <1>6, SubstitutionsAssumption DEF PerformSimple, SimpleValue, FileDir
  <1>. QED
    BY <1>2, <1>3, <1>4, <1>5, <1>6, Zenon DEF SimpleExprs

\* A part of a command leaves a word or none.
Word(c, p) == IF p = NoExpr THEN Empty ELSE PerformSimple(c, p)
AddWord(c) == [p \in SimpleExprs \union {NoExpr} |-> [ws \in Seq(Values) |->
                 IF Word(c, p) = Empty THEN ws ELSE Append(ws, Word(c, p))]]

\* The loop of RunCommand().
LEMMA WordsLoop ==
  ASSUME NEW s \in Effects, NEW parts \in Seq(SimpleExprs \union {NoExpr})
  PROVE  \E g \in [0 .. Len(parts) -> Seq(Values)] :
           /\ g[0] = <<>>
           /\ \A i \in 1 .. Len(parts) :
                g[i] = IF Word(s.config, parts[i]) = Empty THEN g[i - 1]
                       ELSE Append(g[i - 1], Word(s.config, parts[i]))
           /\ RunCommand(s.config, parts) =
                IF g[Len(parts)] \in (DOMAIN Output) \ {<<>>}
                THEN Output[g[Len(parts)]] ELSE Empty
  <1> DEFINE c == s.config
             n == Len(parts)
             P == SimpleExprs \union {NoExpr}
             Eqn(f) == f = [i \in 0 .. n |->
                         IF i = 0 THEN <<>>
                         ELSE IF parts[i] = NoExpr THEN f[i - 1]
                         ELSE IF PerformSimple(c, parts[i]) = Empty THEN f[i - 1]
                         ELSE Append(f[i - 1], PerformSimple(c, parts[i]))]
             g == CHOOSE f : Eqn(f)
  <1>1. n \in Nat /\ \A i \in 1 .. n : parts[i] \in P
    OBVIOUS
  <1>2. \A p \in P : Word(c, p) \in Values
    BY SimpleSame, SubstitutionsAssumption DEF Word
  <1>3. Closed(AddWord(c), Seq(Values), P)
    <2>1. ASSUME NEW ws \in Seq(Values), NEW p \in P PROVE AddWord(c)[p][ws] \in Seq(Values)
      <3>1. AddWord(c)[p][ws] = IF Word(c, p) = Empty THEN ws ELSE Append(ws, Word(c, p))
        BY <2>1 DEF AddWord
      <3>. QED
        BY <1>2, <3>1
    <2>. QED
      BY <2>1 DEF Closed
  <1>4. <<>> \in Seq(Values)
    OBVIOUS
  <1>5. PICK f \in [0 .. n -> Seq(Values)] : Trace(f, AddWord(c), <<>>, parts)
    <2>1. ASSUME NEW none \in Seq(Values)
          PROVE  \E f \in [0 .. n -> Seq(Values)] : Trace(f, AddWord(c), none, parts)
      BY <1>3, ThroughTrace
    <2>. QED
      BY <1>4, <2>1, Zenon
  <1>6. \A i \in 1 .. n :
          f[i] = IF Word(c, parts[i]) = Empty THEN f[i - 1]
                 ELSE Append(f[i - 1], Word(c, parts[i]))
    <2> TAKE i \in 1 .. n
    <2>1. f[i - 1] \in Seq(Values) /\ parts[i] \in P
      BY <1>1
    <2>2. f[i] = AddWord(c)[parts[i]][f[i - 1]]
      BY <1>5 DEF Trace
    <2>. QED
      BY <2>1, <2>2, Zenon DEF AddWord
  <1>7. Eqn(f)
    <2>1. \A i \in 0 .. n : i # 0 => i \in 1 .. n
      BY <1>1
    <2>2. f[0] = <<>>
      BY <1>5 DEF Trace
    <2>3. \A i \in 0 .. n :
            f[i] = IF i = 0 THEN <<>>
                   ELSE IF parts[i] = NoExpr THEN f[i - 1]
                   ELSE IF PerformSimple(c, parts[i]) = Empty THEN f[i - 1]
                   ELSE Append(f[i - 1], PerformSimple(c, parts[i]))
      <3> TAKE i \in 0 .. n
      <3>1. CASE i = 0
        BY <2>2, <3>1
      <3>2. CASE i # 0
        BY <1>6, <2>1, <3>2, Zenon DEF Word
      <3>. QED
        BY <3>1, <3>2
    <2>. QED
      BY <2>3
  <1>8. Eqn(g)
    <2> HIDE DEF Eqn
    <2>. QED
      BY <1>7
  <1>9. RunCommand(c, parts) = IF g[n] \in (DOMAIN Output) \ {<<>>} THEN Output[g[n]] ELSE Empty
    BY Zenon DEF RunCommand
  <1> HIDE DEF g
  <1>10. /\ g = [i \in 0 .. n |-> g[i]] /\ g[0] = <<>>
         /\ \A i \in 1 .. n :
              g[i] = IF Word(c, parts[i]) = Empty THEN g[i - 1]
                     ELSE Append(g[i - 1], Word(c, parts[i]))
    <2>1. \A i \in 1 .. n : i \in 0 .. n /\ i # 0
      BY <1>1
    <2>2. g = [i \in 0 .. n |-> g[i]] /\ g[0] = <<>>
      BY <1>1, <1>8
    <2>3. \A i \in 1 .. n :
            g[i] = IF parts[i] = NoExpr THEN g[i - 1]
                   ELSE IF PerformSimple(c, parts[i]) = Empty THEN g[i - 1]
                   ELSE Append(g[i - 1], PerformSimple(c, parts[i]))
      BY <1>8, <2>1
    <2>. QED
      BY <2>2, <2>3, Zenon DEF Word
  <1>11. \A i \in 0 .. n : g[i] \in Seq(Values)
    <2> DEFINE T == {i \in 0 .. n : g[i] \in Seq(Values)}
    <2>1. 0 \in T
      <3>1. 0 \in 0 .. n
        BY <1>1
      <3>. QED
        BY <1>4, <1>10, <3>1, Zenon
    <2>2. ASSUME NEW i \in 0 .. n - 1, i \in T PROVE i + 1 \in T
      <3>1. i + 1 \in 1 .. n /\ i + 1 \in 0 .. n /\ (i + 1) - 1 = i
        BY <1>1
      <3>2. g[i + 1] = g[i] \/ g[i + 1] = Append(g[i], Word(c, parts[i + 1]))
        BY <1>10, <3>1
      <3>3. Word(c, parts[i + 1]) \in Values
        BY <1>1, <1>2, <3>1
      <3>4. ASSUME NEW ws \in Seq(Values), NEW w \in Values PROVE Append(ws, w) \in Seq(Values)
        OBVIOUS
      <3>5. g[i + 1] \in Seq(Values)
        BY <2>2, <3>2, <3>3, <3>4, Zenon
      <3>. QED
        BY <3>1, <3>5
    <2>3. \A i \in 0 .. n : i \in T
      <3> HIDE DEF T, n
      <3>. QED
        BY <1>1, <2>1, <2>2, Reaches
    <2>. QED
      BY <2>3
  <1>12. g \in [0 .. n -> Seq(Values)]
    BY <1>10, <1>11
  <1>. QED
    BY <1>9, <1>10, <1>12, Zenon

\* The loop adds the word v[i] at each turn i of the set said.
Gathers(g, v, said, n) ==
  /\ n \in Nat /\ g \in [0 .. n -> Seq(Values)] /\ said \in SUBSET (1 .. n)
  /\ \A i \in 1 .. n : v[i] \in Values
  /\ g[0] = <<>>
  /\ \A i \in 1 .. n : g[i] = IF i \in said THEN Append(g[i - 1], v[i]) ELSE g[i - 1]

\* It ends with as many words as there are such turns, each in its place.
LEMMA WordsFound ==
  ASSUME NEW v, NEW n, NEW g, NEW said, Gathers(g, v, said, n)
  PROVE  /\ Len(g[n]) = Cardinality(said)
         /\ \A upTo \in [said -> SUBSET said] :
              (\A i, j \in said : j \in upTo[i] <=> j <= i) =>
                /\ \A i \in said : g[n][Cardinality(upTo[i])] = v[i]
                /\ \A k \in 1 .. Cardinality(said) : \E i \in said : Cardinality(upTo[i]) = k
  <1> DEFINE P(i) == {j \in said : j <= i}
             C(i) == Cardinality(P(i))
             Found(i) ==
               /\ Len(g[i]) = C(i)
               /\ \A j \in P(i) : C(j) \in 1 .. C(i) /\ g[i][C(j)] = v[j]
               /\ \A k \in 1 .. C(i) : \E j \in P(i) : C(j) = k
             T == {i \in 0 .. n : Found(i)}
  <1>10. /\ n \in Nat /\ g \in [0 .. n -> Seq(Values)] /\ said \in SUBSET (1 .. n)
        /\ \A i \in 1 .. n : v[i] \in Values
    BY DEF Gathers
  <1> USE <1>10
  <1>0. \A j \in said : j \in Nat /\ 1 <= j /\ j <= n
    OBVIOUS
  <1>9. /\ g[0] = <<>>
        /\ \A i \in 1 .. n : g[i] = IF i \in said THEN Append(g[i - 1], v[i]) ELSE g[i - 1]
    BY DEF Gathers
  <1>1. \A i \in 0 .. n : IsFiniteSet(P(i)) /\ C(i) \in Nat
    <2>1. IsFiniteSet(1 .. n)
      BY FS_Interval
    <2> TAKE i \in 0 .. n
    <2>2. P(i) \subseteq 1 .. n
      OBVIOUS
    <2> HIDE DEF P
    <2>3. IsFiniteSet(P(i))
      BY <2>1, <2>2, FS_Subset
    <2>. QED
      BY <2>3, FS_CardinalityType
  <1>2. 0 \in T
    <2>1. P(0) = {}
      <3>1. \A j \in said : ~(j <= 0)
        BY <1>0
      <3>. QED
        BY <3>1, Zenon
    <2>2. C(0) = 0
      BY <2>1, FS_EmptySet
    <2>3. Len(g[0]) = 0
      BY <1>9
    <2>4. Found(0)
      <3> HIDE DEF C, P
      <3>. QED
        BY <2>1, <2>2, <2>3
    <2>. QED
      <3> HIDE DEF Found
      <3>. QED
        BY <2>4
  <1>3. ASSUME NEW i \in 0 .. n - 1, i \in T PROVE i + 1 \in T
    <2>1. i + 1 \in 1 .. n /\ i + 1 \in 0 .. n /\ (i + 1) - 1 = i /\ i \in 0 .. n
      OBVIOUS
    <2>2. Found(i) /\ g[i] \in Seq(Values) /\ v[i + 1] \in Values
      BY <1>3, <2>1
    <2>3. CASE i + 1 \notin said
      <3>1. g[i + 1] = g[i]
        BY <1>9, <2>1, <2>3
      <3>2. P(i + 1) = P(i)
        <4>1. \A j \in said : j <= i + 1 <=> j <= i
          <5> TAKE j \in said
          <5>1. j \in Nat /\ j # i + 1
            BY <1>0, <2>3
          <5>. QED
            BY <2>1, <5>1
        <4>. QED
          BY <4>1
      <3>3. Found(i + 1)
        <4> HIDE DEF P
        <4>. QED
          BY <2>2, <3>1, <3>2
      <3>. QED
        BY <2>1, <3>3
    <2>4. CASE i + 1 \in said
      <3>1. g[i + 1] = Append(g[i], v[i + 1])
        BY <1>9, <2>1, <2>4
      <3>2. P(i + 1) = P(i) \union {i + 1} /\ i + 1 \notin P(i)
        <4>1. \A j \in said : j <= i + 1 <=> j <= i \/ j = i + 1
          BY <1>0, <2>1
        <4>2. ~(i + 1 <= i) /\ i + 1 <= i + 1
          BY <2>1
        <4>. QED
          BY <2>4, <4>1, <4>2
      <3>3. C(i + 1) = C(i) + 1 /\ C(i) \in Nat
        <4> HIDE DEF P
        <4>. QED
          BY <1>1, <2>1, <3>2, FS_AddElement
      <3>4. Len(g[i]) = C(i)
        BY <2>2
      <3>5. /\ Len(g[i + 1]) = C(i + 1) /\ g[i + 1][C(i + 1)] = v[i + 1]
            /\ \A k \in 1 .. C(i) : g[i + 1][k] = g[i][k]
        <4> HIDE DEF C
        <4>. QED
          BY <2>2, <3>1, <3>3, <3>4, AppendFacts
      <3>6. \A j \in P(i + 1) : C(j) \in 1 .. C(i + 1) /\ g[i + 1][C(j)] = v[j]
        <4> TAKE j \in P(i + 1)
        <4>1. CASE j \in P(i)
          <5>1. C(j) \in 1 .. C(i) /\ g[i][C(j)] = v[j]
            BY <2>2, <4>1
          <5> HIDE DEF C, P
          <5>2. g[i + 1][C(j)] = v[j]
            BY <3>5, <5>1
          <5>3. C(j) \in 1 .. C(i + 1)
            BY <3>3, <5>1
          <5>. QED
            BY <5>2, <5>3
        <4>2. CASE j = i + 1
          <5> HIDE DEF C, P
          <5>. QED
            BY <3>3, <3>5, <4>2
        <4>. QED
          BY <3>2, <4>1, <4>2
      <3>7. \A k \in 1 .. C(i + 1) : \E j \in P(i + 1) : C(j) = k
        <4> TAKE k \in 1 .. C(i + 1)
        <4>1. CASE k \in 1 .. C(i)
          <5>1. \E j \in P(i) : C(j) = k
            BY <2>2, <4>1
          <5> HIDE DEF C, P
          <5>. QED
            BY <3>2, <5>1
        <4>2. CASE k = C(i + 1)
          <5> HIDE DEF C, P
          <5>. QED
            BY <3>2, <4>2
        <4>3. k \in 1 .. C(i) \/ k = C(i + 1)
          <5>1. \A c \in Nat : \A d : d = c + 1 /\ k \in 1 .. d => k \in 1 .. c \/ k = d
            OBVIOUS
          <5>2. k \in 1 .. C(i + 1)
            OBVIOUS
          <5> HIDE DEF C, P
          <5>. QED
            BY <3>3, <5>1, <5>2, Zenon
        <4>. QED
          BY <4>1, <4>2, <4>3
      <3>8. Found(i + 1)
        <4> HIDE DEF C, P
        <4>. QED
          BY <3>5, <3>6, <3>7
      <3>. QED
        <4> HIDE DEF Found
        <4>. QED
          BY <2>1, <3>8
    <2>. QED
      BY <2>3, <2>4
  <1>4. \A i \in 0 .. n : i \in T
    <2> HIDE DEF T
    <2>. QED
      BY <1>2, <1>3, Reaches
  <1>5. Found(n) /\ P(n) = said /\ g[n] \in Seq(Values)
    <2>1. n \in 0 .. n
      OBVIOUS
    <2>2. Found(n)
      <3> HIDE DEF Found
      <3>. QED
        BY <1>4, <2>1
    <2>3. P(n) = said /\ g[n] \in Seq(Values)
      BY <1>0, <2>1
    <2>. QED
      BY <2>2, <2>3
  <1>6. Len(g[n]) = C(n) /\ C(n) = Cardinality(said)
    <2> HIDE DEF P
    <2>. QED
      BY <1>5
  <1>7. ASSUME NEW upTo \in [said -> SUBSET said], \A i, j \in said : j \in upTo[i] <=> j <= i,
               NEW i \in said
        PROVE  Cardinality(upTo[i]) = C(i)
    <2>1. upTo[i] = P(i)
      BY <1>7
    <2> HIDE DEF P
    <2>. QED
      BY <2>1
  <1>8. /\ \A i \in said : g[n][C(i)] = v[i]
        /\ \A k \in 1 .. C(n) : \E i \in said : C(i) = k
    <2> HIDE DEF C, P
    <2>. QED
      BY <1>5
  <1> HIDE DEF C
  <1>. QED
    BY <1>6, <1>7, <1>8

\* A substitution gives the value the reference says, which is a string.
LEMMA ValueSame ==
  ASSUME NEW s \in Effects, NEW e \in Exprs, e # NoExpr
  PROVE  PerformIn(s.config, e) = ValueIn(s, e) /\ PerformIn(s.config, e) \in Values
  <1>1. CASE e \in SimpleExprs
    BY <1>1, SimpleSame, Zenon DEF PerformIn, ValueIn
  <1>2. ASSUME NEW parts \in Seq(SimpleExprs \union {NoExpr}), e = <<"command", parts>>
        PROVE  PerformIn(s.config, e) = ValueIn(s, e) /\ PerformIn(s.config, e) \in Values
    <2> DEFINE c == s.config
               n == Len(parts)
               found == Words(s, parts)
    <2>1. e[1] = "command" /\ e[2] = parts
      BY <1>2
    <2>2. PerformIn(c, e) = RunCommand(c, parts)
      BY <2>1, Zenon DEF PerformIn
    <2>3. ValueIn(s, e) = IF found = <<>> \/ found \notin DOMAIN Output
                          THEN Empty ELSE Output[found]
      BY <2>1, Zenon DEF ValueIn
    <2>4. PICK g \in [0 .. n -> Seq(Values)] :
            /\ g[0] = <<>>
            /\ \A i \in 1 .. n :
                 g[i] = IF Word(c, parts[i]) = Empty THEN g[i - 1]
                        ELSE Append(g[i - 1], Word(c, parts[i]))
            /\ RunCommand(c, parts) =
                 IF g[n] \in (DOMAIN Output) \ {<<>>} THEN Output[g[n]] ELSE Empty
      BY WordsLoop
    <2>5. g[n] = found
      <3> DEFINE Said == {i \in DOMAIN parts :
                            parts[i] # NoExpr /\ SimpleValue(s, parts[i]) # Empty}
      <3>0. PICK said, v, upTo, m :
              /\ m = n /\ said = Said /\ v = [i \in 1 .. n |-> Word(c, parts[i])]
              /\ upTo = [i \in said |-> {j \in said : j <= i}]
        BY Zenon
      <3> DEFINE to(S, i) == Cardinality({j \in S : j <= i})
                 choice(S, k) == CHOOSE i \in S : to(S, i) = k
                 pick(k) == choice(said, k)
      <3>1. n \in Nat /\ DOMAIN parts = 1 .. n
            /\ \A i \in 1 .. n : parts[i] \in SimpleExprs \/ parts[i] = NoExpr
        OBVIOUS
      <3>2. \A i \in 1 .. n :
              /\ Word(c, parts[i]) \in Values
              /\ parts[i] # NoExpr => Word(c, parts[i]) = SimpleValue(s, parts[i])
              /\ parts[i] = NoExpr => Word(c, parts[i]) = Empty
        BY <3>1, SimpleSame, SubstitutionsAssumption DEF Word
      <3>3. /\ said \in SUBSET (1 .. n)
            /\ \A i \in 1 .. n : i \in said <=> Word(c, parts[i]) # Empty
            /\ \A i \in said : Word(c, parts[i]) = SimpleValue(s, parts[i])
        BY <3>0, <3>1, <3>2, Zenon
      <3>4. \A i \in 1 .. n : v[i] = Word(c, parts[i]) /\ v[i] \in Values
        BY <3>0, <3>2
      <3>5. found = [k \in 1 .. Cardinality(said) |-> SimpleValue(s, parts[pick(k)])]
        <4>1. found = [k \in 1 .. Cardinality(Said) |-> SimpleValue(s, parts[choice(Said, k)])]
          BY Zenon DEF Words
        <4> HIDE DEF choice, Said, found
        <4>. QED
          BY <3>0, <4>1
      <3>6. Gathers(g, v, said, m)
        <4>1. n \in Nat /\ g \in [0 .. n -> Seq(Values)] /\ said \in SUBSET (1 .. n)
          BY <3>1, <3>3
        <4>2. \A i \in 1 .. n : v[i] \in Values
          BY <3>4
        <4>3. \A i \in 1 .. n : g[i] = IF i \in said THEN Append(g[i - 1], v[i]) ELSE g[i - 1]
          BY <2>4, <3>3, <3>4, Zenon
        <4> HIDE DEF n
        <4>. QED
          BY <2>4, <3>0, <4>1, <4>2, <4>3, Zenon DEF Gathers
      <3>7. /\ Len(g[m]) = Cardinality(said)
            /\ \A i \in said : g[m][Cardinality(upTo[i])] = v[i]
            /\ \A k \in 1 .. Cardinality(said) : \E i \in said : Cardinality(upTo[i]) = k
        <4>3. upTo \in [said -> SUBSET said] /\ \A i, j \in said : j \in upTo[i] <=> j <= i
          BY <3>0
        <4>4. /\ Len(g[m]) = Cardinality(said)
              /\ \A f \in [said -> SUBSET said] :
                   (\A i, j \in said : j \in f[i] <=> j <= i) =>
                     /\ \A i \in said : g[m][Cardinality(f[i])] = v[i]
                     /\ \A k \in 1 .. Cardinality(said) : \E i \in said : Cardinality(f[i]) = k
          BY <3>6, WordsFound
        <4>. QED
          BY <4>3, <4>4, Zenon
      <3>8. \A i \in said : Cardinality(upTo[i]) = to(said, i)
        BY <3>0, Zenon
      <3> HIDE DEF to
      <3>9. ASSUME NEW k \in 1 .. Cardinality(said)
            PROVE  g[n][k] = SimpleValue(s, parts[pick(k)])
        <4>1. \E i \in said : to(said, i) = k
          BY <3>7, <3>8
        <4>2. pick(k) \in said /\ to(said, pick(k)) = k
          BY <4>1, Zenon
        <4> HIDE DEF pick
        <4>3. g[n][k] = v[pick(k)]
          <5> HIDE DEF n
          <5>1. Cardinality(upTo[pick(k)]) = k
            BY <3>8, <4>2
          <5>. QED
            BY <3>0, <3>7, <4>2, <5>1
        <4>. QED
          BY <3>3, <3>4, <4>2, <4>3, Zenon
      <3>10. g[n] = [k \in 1 .. Len(g[n]) |-> g[n][k]]
        <4>1. \A ws \in Seq(Values) : ws = [k \in 1 .. Len(ws) |-> ws[k]]
          OBVIOUS
        <4>2. g[n] \in Seq(Values)
          BY <3>1
        <4>. QED
          BY <4>1, <4>2, Zenon
      <3> HIDE DEF found, pick
      <3>. QED
        BY <3>0, <3>5, <3>7, <3>9, <3>10
    <2> HIDE DEF found
    <2>6. PerformIn(c, e) = ValueIn(s, e)
      BY <2>2, <2>3, <2>4, <2>5
    <2>7. ValueIn(s, e) \in Values
      BY <2>3, SubstitutionsAssumption
    <2>. QED
      BY <2>6, <2>7
  <1>. QED
    BY <1>1, <1>2 DEF Exprs

\* A condition is as true as the reference says.
LEMMA TruthSame ==
  ASSUME NEW s \in Effects, s.config = config, NEW c \in Conditions
  PROVE  Evaluate(c) <=> Truth(s, c)
  <1>1. c.expr \in Exprs /\ c.key \in Keys /\ c.test \in {"none", "if", "unless", "equals"}
    BY DEF Conditions
  <1>2. c.expr # NoExpr => /\ Perform(c.expr) = ValueIn(s, c.expr)
                           /\ Perform(c.expr) # Unset
    BY <1>1, ValueSame, SubstitutionsAssumption DEF Perform
  <1>3. CASE c.test = "none"
    BY <1>3 DEF Evaluate, Truth
  <1>4. CASE c.test = "if"
    BY <1>2, <1>4 DEF Evaluate, Truth, IfHolds
  <1>5. CASE c.test = "unless"
    BY <1>2, <1>5 DEF Evaluate, Truth, UnlessHolds
  <1>6. CASE c.test = "equals"
    BY <1>2, <1>6 DEF Evaluate, Truth, EqualsHolds
  <1>. QED
    BY <1>1, <1>3, <1>4, <1>5, <1>6

-----------------------------------------------------------------------------
(* Executed: what executing an action does, though it is defined by itself. *)

\* The actions that a executes, or visits, itself.
Under(a) ==
  IF Act[a].kind \in {"group", "timer"}
  THEN {Act[a].actions[i] : i \in 1 .. Len(Act[a].actions)}
  ELSE IF Act[a].kind = "include" /\ Act[a].file # Unset
  THEN {Body[Act[a].file][i] : i \in 1 .. Len(Body[Act[a].file])}
  ELSE {}

\* The lists of what is under an action.
LEMMA UnderTypes ==
  ASSUME NEW a \in Actions
  PROVE  /\ Under(a) \subseteq Actions
         /\ Act[a].kind \in {"group", "timer"} => Act[a].actions \in Seq(Under(a))
         /\ Act[a].kind = "include" /\ Act[a].file # Unset =>
              Body[Act[a].file] \in Seq(Under(a)) /\ Act[a].file \in Files
  <1>1. ASSUME NEW list \in Seq(Actions), NEW S, S = {list[i] : i \in 1 .. Len(list)}
        PROVE  S \subseteq Actions /\ list \in Seq(S)
    BY <1>1
  <1>2. CASE Act[a].kind \in {"group", "timer"}
    <2>1. Under(a) = {Act[a].actions[i] : i \in 1 .. Len(Act[a].actions)}
      BY <1>2, Zenon DEF Under
    <2>. QED
      BY <1>1, <1>2, <2>1, ActionTypes
  <1>3. CASE Act[a].kind = "include" /\ Act[a].file # Unset
    <2>1. Under(a) = {Body[Act[a].file][i] : i \in 1 .. Len(Body[Act[a].file])}
      BY <1>3, Zenon DEF Under
    <2>2. Act[a].file \in Files
      BY <1>3, ActionTypes
    <2>. QED
      BY <1>1, <1>3, <2>1, <2>2, FileTypes
  <1>4. CASE /\ Act[a].kind \notin {"group", "timer"}
             /\ ~(Act[a].kind = "include" /\ Act[a].file # Unset)
    BY <1>4, Zenon DEF Under
  <1>. QED
    BY <1>2, <1>3, <1>4

\* Of some actions there is one that has none of the others under it.
LEMMA Lowest ==
  ASSUME NEW S \in SUBSET Actions, S # {}
  PROVE  \E a \in S : Under(a) \cap S = {}
  <1>1. ASSUME NEW a \in S, Act[a].kind \notin {"group", "timer", "include"}
        PROVE  Under(a) = {}
    BY <1>1, Zenon DEF Under
  <1>2. ASSUME NEW a \in S, Act[a].kind = "include",
               \A b \in S : Act[b].kind \in {"group", "timer", "include"}
        PROVE  Under(a) \cap S = {}
    <2>1. CASE Act[a].file = Unset
      BY <1>2, <2>1 DEF Under
    <2>2. CASE Act[a].file # Unset
      <3>1. Under(a) = {Body[Act[a].file][i] : i \in 1 .. Len(Body[Act[a].file])}
        BY <1>2, <2>2, Zenon DEF Under
      <3>2. Act[a].file \in Files
        BY <2>2, ActionTypes
      <3>3. \A i \in 1 .. Len(Body[Act[a].file]) :
              Act[Body[Act[a].file][i]].kind \in {"declare", "process"}
        BY <3>2, FileTypes, Positions
      <3>4. \A b \in Under(a) : Act[b].kind \in {"declare", "process"}
        BY <3>1, <3>3
      <3>. QED
        BY <1>2, <3>4
    <2>. QED
      BY <2>1, <2>2
  <1>3. ASSUME \A b \in S : Act[b].kind \in {"group", "timer"}
        PROVE  \E a \in S : Under(a) \cap S = {}
    <2>1. PICK a \in S : \A b \in S : ~Holds(a, b)
      BY LaunchActionsAssumption, Zenon
    <2>2. Under(a) = {Act[a].actions[i] : i \in 1 .. Len(Act[a].actions)}
      BY <1>3, Zenon DEF Under
    <2>3. \A i \in 1 .. Len(Act[a].actions) : Holds(a, Act[a].actions[i])
      BY ActionTypes, Positions DEF Holds
    <2>. QED
      BY <2>1, <2>2, <2>3
  <1>. QED
    BY <1>1, <1>2, <1>3

\* What an action does stays in a set of effects that is closed under what it
\* sets, what it adds and what those under it do.
LEMMA DoesWithin ==
  ASSUME NEW E \in SUBSET Effects, NEW s \in E, NEW a \in Actions, NEW F,
         \A e \in E, k \in Keys, v \in Values : SetTo(e, k, v) \in E,
         \A v \in Values : [s EXCEPT !.started = Append(@, <<a, v>>)] \in E,
         Closed(F, E, Under(a))
  PROVE  Does(F, a, s) \in E
  <1>1. /\ Act[a].kind \in {"declare", "set", "group", "timer", "include", "process", "custom"}
        /\ Act[a].key \in Keys /\ Act[a].expr \in Exprs /\ Act[a].args \in Seq(Keys \X Exprs)
        /\ Act[a].kind \in {"process", "custom"} => Act[a].expr # NoExpr
    BY LaunchActionsAssumption DEF ActionRecord
  <1>2. \A e \in E, x \in Exprs : x # NoExpr => ValueIn(e, x) \in Values
    BY ValueSame
  <1>3. CASE Act[a].kind = "declare"
    BY <1>1, <1>2, <1>3 DEF Does
  <1>4. CASE Act[a].kind = "set"
    BY <1>1, <1>2, <1>4, SubstitutionsAssumption DEF Does
  <1>5. CASE Act[a].kind \in {"group", "timer"}
    <2>1. Through(F, s, Act[a].actions) \in E
      BY <1>5, UnderTypes, ThroughTrace
    <2>. QED
      BY <1>5, <2>1 DEF Does
  <1>6. CASE Act[a].kind = "include" /\ Act[a].file # Unset
    <2>1. Closed(Given, E, Keys \X Exprs)
      <3>1. ASSUME NEW e \in E, NEW p \in Keys \X Exprs PROVE Given[p][e] \in E
        <4>1. Given[p][e] = IF p[2] = NoExpr THEN e ELSE SetTo(e, p[1], ValueIn(e, p[2]))
          BY DEF Given
        <4>. QED
          BY <1>2, <4>1
      <3>. QED
        BY <3>1 DEF Closed
    <2>2. Through(Given, s, Act[a].args) \in E
      BY <1>1, <2>1, ThroughTrace
    <2>3. Closed(Visiting(F), E, Under(a))
      <3>1. ASSUME NEW e \in E, NEW b \in Under(a) PROVE Visiting(F)[b][e] \in E
        <4>1. Visiting(F)[b][e] = IF Truth(e, Act[b].guard) THEN F[b][e] ELSE e
          BY UnderTypes DEF Visiting
        <4>. QED
          BY <4>1 DEF Closed
      <3>. QED
        BY <3>1 DEF Closed
    <2>4. Through(Visiting(F), Through(Given, s, Act[a].args), Body[Act[a].file]) \in E
      BY <1>6, <2>2, <2>3, UnderTypes, ThroughTrace
    <2>. QED
      BY <1>6, <2>4 DEF Does
  <1>7. CASE Act[a].kind = "include" /\ Act[a].file = Unset
    BY <1>7 DEF Does
  <1>8. CASE Act[a].kind \in {"process", "custom"}
    BY <1>1, <1>2, <1>8 DEF Does
  <1>. QED
    BY <1>1, <1>3, <1>4, <1>5, <1>6, <1>7, <1>8

\* All effects are such a set.
LEMMA EffectsClosed ==
  /\ \A e \in Effects, k \in Keys, v \in Values : SetTo(e, k, v) \in Effects
  /\ \A e \in Effects, a \in Actions, v \in Values :
       [e EXCEPT !.started = Append(@, <<a, v>>)] \in Effects
  <1>1. ASSUME NEW e \in Effects, NEW k \in Keys, NEW v \in Values
        PROVE  SetTo(e, k, v) \in Effects
    BY DEF Effects, SetTo
  <1>2. ASSUME NEW e \in Effects, NEW a \in Actions, NEW v \in Values
        PROVE  [e EXCEPT !.started = Append(@, <<a, v>>)] \in Effects
    <2>1. e.started \in Seq(Actions \X Values) /\ <<a, v>> \in Actions \X Values
      BY DEF Effects
    <2>2. Append(e.started, <<a, v>>) \in Seq(Actions \X Values)
      BY <2>1, AppendFacts
    <2>. QED
      BY <2>2 DEF Effects
  <1>. QED
    BY <1>1, <1>2

\* One list, and two that do the same along it.
LEMMA ThroughAlike ==
  ASSUME NEW E, NEW X, NEW F, NEW G, Closed(F, E, X), \A b \in X, e \in E : F[b][e] = G[b][e],
         NEW s \in E, NEW list \in Seq(X)
  PROVE  Through(F, s, list) = Through(G, s, list)
  <1>1. \A i \in 1 .. Len(list) : list[i] \in X
    OBVIOUS
  <1>. QED
    BY <1>1, ThroughSame DEF Alike

\* What an action does depends on F only for those under it.
LEMMA DoesSame ==
  ASSUME NEW s \in Effects, NEW a \in Actions, NEW F, NEW G, Closed(F, Effects, Under(a)),
         \A b \in Under(a), e \in Effects : F[b][e] = G[b][e]
  PROVE  Does(F, a, s) = Does(G, a, s)
  <1>1. CASE Act[a].kind \in {"declare", "set", "process", "custom"}
    BY <1>1 DEF Does
  <1>5. CASE Act[a].kind = "include" /\ Act[a].file = Unset
    BY <1>5 DEF Does
  <1>2. CASE Act[a].kind \in {"group", "timer"}
    <2>1. Through(F, s, Act[a].actions) = Through(G, s, Act[a].actions)
      <3>1. Act[a].actions \in Seq(Under(a))
        BY <1>2, UnderTypes
      <3>. QED
        BY <3>1, ThroughAlike
    <2>. QED
      BY <1>2, <2>1 DEF Does
  <1>3. CASE Act[a].kind = "include" /\ Act[a].file # Unset
    <2> DEFINE t == Through(Given, s, Act[a].args)
               body == Body[Act[a].file]
    <2>1. body \in Seq(Under(a))
      BY <1>3, UnderTypes
    <2>2. \A b \in Under(a), e \in Effects :
            /\ Visiting(F)[b][e] = IF Truth(e, Act[b].guard) THEN F[b][e] ELSE e
            /\ Visiting(G)[b][e] = IF Truth(e, Act[b].guard) THEN G[b][e] ELSE e
      BY UnderTypes DEF Visiting
    <2>3. Closed(Visiting(F), Effects, Under(a))
      BY <2>2 DEF Closed
    <2>4. t \in Effects
      <3>1. \A e \in Effects, p \in Keys \X Exprs :
              Given[p][e] = IF p[2] = NoExpr THEN e ELSE SetTo(e, p[1], ValueIn(e, p[2]))
        BY DEF Given
      <3>2. Closed(Given, Effects, Keys \X Exprs)
        BY <3>1, ValueSame, EffectsClosed DEF Closed
      <3>. QED
        BY <3>2, ActionTypes, ThroughTrace
    <2> HIDE DEF t, body
    <2>5. Through(Visiting(F), t, body) = Through(Visiting(G), t, body)
      <3>1. \A b \in Under(a), e \in Effects : Visiting(F)[b][e] = Visiting(G)[b][e]
        BY <2>2
      <3>. QED
        BY <2>1, <2>3, <2>4, <3>1, ThroughAlike
    <2>6. /\ Does(F, a, s) = Through(Visiting(F), t, body)
          /\ Does(G, a, s) = Through(Visiting(G), t, body)
      BY <1>3 DEF Does, t, body
    <2>. QED
      BY <2>5, <2>6
  <1>4. Act[a].kind \in {"declare", "set", "group", "timer", "include", "process", "custom"}
    BY LaunchActionsAssumption DEF ActionRecord
  <1>. QED
    BY <1>1, <1>2, <1>3, <1>4, <1>5

\* f is what the actions of D do, which have only actions of D under them.
Maps == [Actions -> [Effects -> Effects]]
Solves(f, D) ==
  /\ f \in Maps /\ D \in SUBSET Actions
  /\ \A a \in D : Under(a) \subseteq D /\ \A s \in Effects : f[a][s] = Does(f, a, s)

\* A function from effects to effects for each action is closed.
LEMMA MapsClosed ==
  ASSUME NEW f \in Maps, NEW a \in Actions
  PROVE  Closed(f, Effects, Under(a)) /\ f[a] = [s \in Effects |-> f[a][s]]
  BY UnderTypes DEF Maps, Closed

\* There is no more than one such thing.
LEMMA SolvesOnce ==
  ASSUME NEW f, NEW D, Solves(f, D), NEW g, NEW C, Solves(g, C), NEW a \in D \cap C
  PROVE  f[a] = g[a]
  <1> DEFINE S == {b \in D \cap C : f[b] # g[b]}
  <1>1. f \in Maps /\ g \in Maps /\ D \in SUBSET Actions
    BY DEF Solves
  <1>2. ASSUME NEW b \in S, Under(b) \cap S = {} PROVE FALSE
    <2>1. \A x \in Under(b), e \in Effects : f[x][e] = g[x][e]
      BY <1>2 DEF Solves
    <2>2. b \in Actions /\ b \in D /\ b \in C /\ f[b] # g[b]
      BY <1>1, <1>2
    <2>3. Closed(f, Effects, Under(b))
      BY <1>1, <2>2, MapsClosed
    <2>4. \A s \in Effects : Does(f, b, s) = Does(g, b, s)
      BY <2>1, <2>2, <2>3, DoesSame
    <2>5. \A s \in Effects : f[b][s] = g[b][s]
      BY <2>2, <2>4 DEF Solves
    <2>6. f[b] = [s \in Effects |-> f[b][s]] /\ g[b] = [s \in Effects |-> g[b][s]]
      BY <1>1, <2>2, MapsClosed
    <2>. QED
      BY <2>2, <2>5, <2>6
  <1>3. S \in SUBSET Actions
    BY <1>1
  <1>4. S = {}
    <2> HIDE DEF S
    <2>. QED
      BY <1>2, <1>3, Lowest
  <1>. QED
    BY <1>4

\* What all the actions do.
LEMMA SolvesAll == \E f : Solves(f, Actions)
  <1> DEFINE Good == {a \in Actions : \E f, D : Solves(f, D) /\ a \in D}
             val(a) == CHOOSE v : \E f, D : Solves(f, D) /\ a \in D /\ v = f[a]
             g == [a \in Actions |-> IF a \in Good THEN val(a) ELSE [s \in Effects |-> s]]
  <1>1. ASSUME NEW f, NEW D, Solves(f, D), NEW a \in D
        PROVE  a \in Good /\ g[a] = f[a]
    <2>1. a \in Good
      BY <1>1 DEF Solves
    <2>2. \E h, C : Solves(h, C) /\ a \in C /\ val(a) = h[a]
      <3>1. \E v : \E h, C : Solves(h, C) /\ a \in C /\ v = h[a]
        BY <1>1, Zenon
      <3>. QED
        BY <3>1, Zenon
    <2>3. val(a) = f[a]
      <3> HIDE DEF val
      <3>. QED
        BY <1>1, <2>2, SolvesOnce
    <2>4. g[a] = val(a)
      <3> HIDE DEF val
      <3>. QED
        BY <2>1
    <2>. QED
      BY <2>1, <2>3, <2>4
  <1>2. \A a \in Actions : a \in Good => \E f, D : Solves(f, D) /\ a \in D
    BY Zenon
  <1>3. Good \in SUBSET Actions /\ \A a \in Actions : a \notin Good => g[a] = [s \in Effects |-> s]
    BY Zenon
  <1>4. g = [a \in Actions |-> g[a]]
    BY Zenon
  <1> HIDE DEF g, Good
  <1>5. g \in Maps
    <2>1. ASSUME NEW a \in Actions PROVE g[a] \in [Effects -> Effects]
      <3>1. CASE a \in Good
        <4>1. PICK f, D : Solves(f, D) /\ a \in D
          BY <1>2, <3>1
        <4>2. g[a] = f[a]
          BY <1>1, <4>1
        <4>. QED
          BY <4>1, <4>2 DEF Solves, Maps
      <3>2. CASE a \notin Good
        BY <1>3, <3>2
      <3>. QED
        BY <3>1, <3>2
    <2>. QED
      BY <1>4, <2>1 DEF Maps
  <1>6. ASSUME NEW a \in Good
        PROVE  Under(a) \subseteq Good /\ \A s \in Effects : g[a][s] = Does(g, a, s)
    <2>1. PICK f, D : Solves(f, D) /\ a \in D
      BY <1>2, <1>3
    <2>2. Under(a) \subseteq D /\ f \in Maps /\ a \in Actions
      BY <1>3, <2>1 DEF Solves
    <2>3. \A b \in D : b \in Good /\ g[b] = f[b]
      BY <1>1, <2>1
    <2>4. \A b \in Under(a), e \in Effects : f[b][e] = g[b][e]
      BY <2>2, <2>3
    <2>5. \A s \in Effects : Does(f, a, s) = Does(g, a, s)
      BY <2>2, <2>4, MapsClosed, DoesSame
    <2>. QED
      BY <2>1, <2>2, <2>3, <2>5 DEF Solves
  <1>7. ASSUME NEW a \in Actions, a \notin Good, Under(a) \subseteq Good PROVE FALSE
    <2> DEFINE ga == [s \in Effects |-> Does(g, a, s)]
               h == [g EXCEPT ![a] = ga]
    <2>1. ga \in [Effects -> Effects]
      BY <1>5, MapsClosed, DoesWithin, EffectsClosed
    <2>2. \A s \in Effects : ga[s] = Does(g, a, s)
      OBVIOUS
    <2> HIDE DEF ga
    <2>3. /\ h \in Maps /\ h[a] = ga
          /\ \A b \in Actions : b # a => h[b] = g[b]
      BY <1>5, <2>1 DEF Maps
    <2> HIDE DEF h
    <2>4. ASSUME NEW b \in Good \union {a}
          PROVE  Under(b) \subseteq Good /\ \A s \in Effects : h[b][s] = Does(h, b, s)
      <3>1. b \in Actions /\ Under(b) \subseteq Good
        BY <1>3, <1>6, <1>7, <2>4
      <3>2. \A x \in Under(b), e \in Effects : g[x][e] = h[x][e]
        BY <1>3, <1>7, <2>3, <3>1
      <3>3. \A s \in Effects : Does(g, b, s) = Does(h, b, s)
        BY <1>5, <3>1, <3>2, MapsClosed, DoesSame
      <3>4. \A s \in Effects : h[b][s] = Does(g, b, s)
        BY <1>6, <1>7, <2>2, <2>3, <2>4, <3>1
      <3>. QED
        BY <3>1, <3>3, <3>4
    <2>5. Solves(h, Good \union {a})
      BY <1>3, <2>3, <2>4 DEF Solves
    <2>. QED
      BY <1>1, <1>7, <2>5
  <1>8. Good = Actions
    <2> DEFINE S == Actions \ Good
    <2>1. S # {} => \E a \in S : Under(a) \cap S = {}
      BY Lowest
    <2>2. \A a \in S : Under(a) \cap S = {} => Under(a) \subseteq Good
      BY UnderTypes
    <2>. QED
      BY <1>3, <1>7, <2>1, <2>2
  <1>9. Solves(g, Actions)
    BY <1>5, <1>6, <1>8 DEF Solves
  <1>. QED
    BY <1>9

\* Executed is what all the actions do.
LEMMA ExecutedSolves == Solves(Executed, Actions)
  <1> DEFINE Eqn(f) == f = [a \in Actions |-> [s \in Effects |-> Does(f, a, s)]]
  <1>1. PICK f : Solves(f, Actions)
    BY SolvesAll
  <1>2. Eqn(f)
    <2>1. f = [a \in Actions |-> f[a]] /\ \A a \in Actions : f[a] = [s \in Effects |-> f[a][s]]
      BY <1>1 DEF Solves, Maps
    <2>2. \A a \in Actions : f[a] = [s \in Effects |-> Does(f, a, s)]
      BY <1>1, <2>1 DEF Solves
    <2>. QED
      BY <2>1, <2>2
  <1>3. Executed = CHOOSE h : Eqn(h)
    BY Zenon DEF Executed
  <1>4. Eqn(Executed)
    <2> HIDE DEF Eqn
    <2>. QED
      BY <1>2, <1>3
  <1>5. \A a \in Actions, s \in Effects : Executed[a][s] = Does(Executed, a, s)
    BY <1>4
  <1>6. Executed \in Maps
    <2> DEFINE S == {a \in Actions : ~ \A s \in Effects : Executed[a][s] \in Effects}
    <2>1. ASSUME NEW a \in S, Under(a) \cap S = {} PROVE FALSE
      <3>1. \A b \in Under(a) : b \in Actions /\ b \notin S
        BY <2>1, UnderTypes
      <3>2. Closed(Executed, Effects, Under(a))
        BY <3>1 DEF Closed
      <3>3. \A s \in Effects : Does(Executed, a, s) \in Effects
        BY <3>2, DoesWithin, EffectsClosed
      <3>. QED
        BY <1>5, <3>3
    <2>2. S = {}
      <3>1. S \in SUBSET Actions
        OBVIOUS
      <3> HIDE DEF S
      <3>. QED
        BY <2>1, <3>1, Lowest
    <2>3. \A a \in Actions, s \in Effects : Executed[a][s] \in Effects
      BY <2>2
    <2>4. \A a \in Actions : Executed[a] \in [Effects -> Effects]
      <3>1. \A a \in Actions : Executed[a] = [s \in Effects |-> Does(Executed, a, s)]
        BY <1>4
      <3>. QED
        BY <1>5, <2>3, <3>1
    <2>5. Executed = [a \in Actions |-> Executed[a]]
      BY <1>4
    <2>. QED
      BY <2>4, <2>5 DEF Maps
  <1>. QED
    BY <1>5, <1>6, UnderTypes DEF Solves

-----------------------------------------------------------------------------
(* What is started stays started.                                          *)

\* The effects that come of s by starting more.
Grown(s) == {t \in Effects : Begins(s.started, t.started)}

\* What is started may stay as it is or be added to, and again.
LEMMA GrownFacts ==
  /\ \A s \in Effects : s \in Grown(s)
  /\ \A s, t, u \in Effects : t \in Grown(s) /\ u \in Grown(t) => u \in Grown(s)
  /\ \A s, t \in Effects : t.started = s.started => t \in Grown(s)
  /\ \A s \in Effects, a \in Actions, v \in Values :
       [s EXCEPT !.started = Append(@, <<a, v>>)] \in Grown(s)
  <1>1. \A s \in Effects : s.started \in Seq(Actions \X Values) /\ Len(s.started) \in Nat
    BY DEF Effects
  <1>2. \A s \in Effects : s \in Grown(s)
    BY <1>1 DEF Grown, Begins
  <1>3. \A s, t, u \in Effects : t \in Grown(s) /\ u \in Grown(t) => u \in Grown(s)
    BY <1>1 DEF Grown, Begins
  <1>4. \A s, t \in Effects : t.started = s.started => t \in Grown(s)
    BY <1>1 DEF Grown, Begins
  <1>5. ASSUME NEW s \in Effects, NEW a \in Actions, NEW v \in Values
        PROVE  [s EXCEPT !.started = Append(@, <<a, v>>)] \in Grown(s)
    <2> DEFINE t == [s EXCEPT !.started = Append(@, <<a, v>>)]
    <2>1. t \in Effects
      BY EffectsClosed
    <2>2. t.started = Append(s.started, <<a, v>>)
      BY DEF Effects
    <2> HIDE DEF t
    <2>3. <<a, v>> \in Actions \X Values
      OBVIOUS
    <2>4. Begins(s.started, t.started)
      BY <1>1, <2>2, <2>3, AppendFacts DEF Begins
    <2>. QED
      BY <2>1, <2>4 DEF Grown, t
  <1>. QED
    BY <1>2, <1>3, <1>4, <1>5

\* What F does to any effects is to add to them.
Grows(F, X) == \A x \in X, s \in Effects : F[x][s] \in Grown(s)

\* Whatever only adds does so along a list.
LEMMA GrowsClosed ==
  ASSUME NEW F, NEW X, Grows(F, X)
  PROVE  /\ Closed(F, Effects, X)
         /\ \A s \in Effects : Closed(F, Grown(s), X)
         /\ \A s \in Effects, list \in Seq(X) :
              Through(F, s, list) \in Effects /\ Through(F, s, list) \in Grown(s)
  <1>1. \A x \in X, s \in Effects : F[x][s] \in Grown(s)
    BY DEF Grows
  <1>2. \A s : Grown(s) \subseteq Effects
    BY DEF Grown
  <1>3. Closed(F, Effects, X)
    BY <1>1, <1>2 DEF Closed
  <1>4. ASSUME NEW s \in Effects PROVE Closed(F, Grown(s), X)
    <2>1. ASSUME NEW x \in X, NEW e \in Grown(s) PROVE F[x][e] \in Grown(s)
      <3>1. e \in Effects /\ F[x][e] \in Effects /\ F[x][e] \in Grown(e)
        BY <1>1, <1>2
      <3>. QED
        BY <3>1, GrownFacts
    <2>. QED
      BY <2>1 DEF Closed
  <1>5. ASSUME NEW s \in Effects, NEW list \in Seq(X)
        PROVE  Through(F, s, list) \in Grown(s)
    <2>1. s \in Grown(s) /\ Closed(F, Grown(s), X)
      BY <1>4, GrownFacts
    <2> DEFINE E == Grown(s)
    <2> HIDE DEF E
    <2>2. PICK f \in [0 .. Len(list) -> E] :
            Trace(f, F, s, list) /\ Through(F, s, list) = f[Len(list)]
      BY <2>1, ThroughTrace DEF E
    <2>. QED
      BY <2>2 DEF E
  <1>. QED
    BY <1>2, <1>3, <1>4, <1>5

\* Executing an action starts more or nothing, however deep the action is.
LEMMA ExecutedGrows == Grows(Executed, Actions)
  <1> DEFINE S == {a \in Actions : ~ \A s \in Effects : Executed[a][s] \in Grown(s)}
  <1>1. ASSUME NEW a \in S, Under(a) \cap S = {} PROVE FALSE
    <2>1. a \in Actions /\ \A b \in Under(a) : b \in Actions /\ b \notin S
      BY <1>1, UnderTypes
    <2>2. Grows(Executed, Under(a))
      BY <2>1 DEF Grows
    <2>3. ASSUME NEW s \in Effects PROVE Executed[a][s] \in Grown(s)
      <3>1. Closed(Executed, Grown(s), Under(a)) /\ s \in Grown(s) /\ Grown(s) \subseteq Effects
        BY <2>2, GrowsClosed, GrownFacts DEF Grown
      <3>2. \A e \in Grown(s), k \in Keys, v \in Values : SetTo(e, k, v) \in Grown(s)
        <4> TAKE e \in Grown(s), k \in Keys, v \in Values
        <4>1. e \in Effects /\ SetTo(e, k, v) \in Effects
          BY <3>1, EffectsClosed
        <4>2. SetTo(e, k, v).started = e.started
          BY <4>1 DEF SetTo, Effects
        <4>. QED
          BY <4>1, <4>2, GrownFacts
      <3>3. \A v \in Values : [s EXCEPT !.started = Append(@, <<a, v>>)] \in Grown(s)
        BY <2>1, GrownFacts
      <3>4. Does(Executed, a, s) \in Grown(s)
        <4> DEFINE E == Grown(s)
        <4> HIDE DEF E
        <4>. QED
          BY <2>1, <3>1, <3>2, <3>3, DoesWithin DEF E
      <3>. QED
        BY <2>1, <3>4, ExecutedSolves DEF Solves
    <2>. QED
      BY <1>1, <2>3
  <1>2. S = {}
    <2>1. S \in SUBSET Actions
      OBVIOUS
    <2> HIDE DEF S
    <2>. QED
      BY <1>1, <2>1, Lowest
  <1>. QED
    BY <1>2 DEF Grows

\* So does visiting one, giving an argument and visiting a description.
LEMMA OthersGrow ==
  /\ Grows(Visiting(Executed), Actions)
  /\ Grows(Given, Keys \X Exprs)
  /\ Grows(Described, Descriptions)
  <1>1. Grows(Visiting(Executed), Actions)
    <2>1. ASSUME NEW a \in Actions, NEW s \in Effects PROVE Visiting(Executed)[a][s] \in Grown(s)
      <3>1. Visiting(Executed)[a][s] = IF Truth(s, Act[a].guard) THEN Executed[a][s] ELSE s
        BY DEF Visiting
      <3>. QED
        BY <3>1, ExecutedGrows, GrownFacts DEF Grows
    <2>. QED
      BY <2>1 DEF Grows
  <1>2. Grows(Given, Keys \X Exprs)
    <2>1. ASSUME NEW p \in Keys \X Exprs, NEW s \in Effects PROVE Given[p][s] \in Grown(s)
      <3>1. Given[p][s] = IF p[2] = NoExpr THEN s ELSE SetTo(s, p[1], ValueIn(s, p[2]))
        BY DEF Given
      <3>2. ASSUME p[2] # NoExpr PROVE SetTo(s, p[1], ValueIn(s, p[2])) \in Grown(s)
        <4>1. ValueIn(s, p[2]) \in Values
          BY <3>2, ValueSame
        <4>2. SetTo(s, p[1], ValueIn(s, p[2])) \in Effects
          BY <4>1, EffectsClosed
        <4>3. SetTo(s, p[1], ValueIn(s, p[2])).started = s.started
          BY DEF SetTo, Effects
        <4>. QED
          BY <4>2, <4>3, GrownFacts
      <3>. QED
        BY <3>1, <3>2, GrownFacts
    <2>. QED
      BY <2>1 DEF Grows
  <1>3. Grows(Described, Descriptions)
    <2>1. ASSUME NEW d \in Descriptions, NEW s \in Effects PROVE Described[d][s] \in Grown(s)
      <3>1. Described[d][s] = Through(Visiting(Executed), s, Contents[d])
        BY DEF Described
      <3>2. Contents[d] \in Seq(Actions)
        BY LaunchServiceAssumption
      <3>. QED
        BY <1>1, <3>1, <3>2, GrowsClosed
    <2>. QED
      BY <2>1 DEF Grows
  <1>. QED
    BY <1>1, <1>2, <1>3

-----------------------------------------------------------------------------
(* The rest of the visit.                                                  *)

\* What an item of the agenda does.
Doing == [x \in Items |-> [s \in Effects |->
            CASE x[1] = "visit" -> Visiting(Executed)[x[2]][s]
              [] x[1] = "execute" -> Executed[x[2]][s]
              [] x[1] = "assign" ->
                   IF x[3] = NoExpr THEN s ELSE SetTo(s, x[2], ValueIn(s, x[3]))]]

\* The effect so far, with what the agenda adds, and with what the rest adds.
SoFar == [config |-> config, started |-> started]
AfterAgenda == Through(Doing, SoFar, agenda)
AtLast == Through(Described, AfterAgenda, SubSeq(snapshot, next + 1, Len(snapshot)))

\* What is done at each kind of item, by the action or the argument it stands for.
LEMMA DoingFacts ==
  /\ Grows(Doing, Items)
  /\ \A x \in Items, s \in Effects :
       /\ x[1] = "visit" => x[2] \in Actions /\ Doing[x][s] = Visiting(Executed)[x[2]][s]
       /\ x[1] = "execute" => x[2] \in Actions /\ Doing[x][s] = Executed[x[2]][s]
       /\ x[1] = "assign" =>
            \E p \in Keys \X Exprs : p[1] = x[2] /\ p[2] = x[3] /\ Doing[x][s] = Given[p][s]
       /\ x[1] \in {"visit", "execute", "assign"}
  <1>1. ASSUME NEW x \in Items, NEW s \in Effects, NEW a \in Actions, x = <<"visit", a>>
        PROVE  x[1] = "visit" /\ x[2] = a /\ Doing[x][s] = Visiting(Executed)[a][s]
    BY <1>1 DEF Doing
  <1>2. ASSUME NEW x \in Items, NEW s \in Effects, NEW a \in Actions, x = <<"execute", a>>
        PROVE  x[1] = "execute" /\ x[2] = a /\ Doing[x][s] = Executed[a][s]
    BY <1>2 DEF Doing
  <1>3. ASSUME NEW x \in Items, NEW s \in Effects, NEW p \in Keys \X Exprs,
               x = <<"assign", p[1], p[2]>>
        PROVE  x[1] = "assign" /\ x[2] = p[1] /\ x[3] = p[2] /\ Doing[x][s] = Given[p][s]
    <2>1. x[1] = "assign" /\ x[2] = p[1] /\ x[3] = p[2]
      BY <1>3
    <2>2. Given[p][s] = IF p[2] = NoExpr THEN s ELSE SetTo(s, p[1], ValueIn(s, p[2]))
      BY DEF Given
    <2>3. Doing[x][s] = IF x[3] = NoExpr THEN s ELSE SetTo(s, x[2], ValueIn(s, x[3]))
      BY <2>1 DEF Doing
    <2>. QED
      BY <2>1, <2>2, <2>3
  <1>4. ASSUME NEW x \in Items
        PROVE  \/ \E a \in Actions : x = <<"visit", a>>
               \/ \E a \in Actions : x = <<"execute", a>>
               \/ \E p \in Keys \X Exprs : x = <<"assign", p[1], p[2]>>
    <2>1. CASE x \in {"visit", "execute"} \X Actions
      BY <2>1
    <2>2. CASE x \in {"assign"} \X Keys \X Exprs
      <3>1. PICK k \in Keys, e \in Exprs : x = <<"assign", k, e>>
        BY <2>2
      <3>2. \E p \in Keys \X Exprs : p[1] = k /\ p[2] = e
        <4>1. <<k, e>> \in Keys \X Exprs /\ <<k, e>>[1] = k /\ <<k, e>>[2] = e
          OBVIOUS
        <4>. QED
          BY <4>1, Zenon
      <3>. QED
        BY <3>1, <3>2, Zenon
    <2>. QED
      BY <2>1, <2>2 DEF Items
  <1>5. ASSUME NEW x \in Items, NEW s \in Effects
        PROVE  /\ x[1] = "visit" => x[2] \in Actions /\ Doing[x][s] = Visiting(Executed)[x[2]][s]
               /\ x[1] = "execute" => x[2] \in Actions /\ Doing[x][s] = Executed[x[2]][s]
               /\ x[1] = "assign" =>
                    \E p \in Keys \X Exprs :
                      p[1] = x[2] /\ p[2] = x[3] /\ Doing[x][s] = Given[p][s]
               /\ x[1] \in {"visit", "execute", "assign"}
               /\ Doing[x][s] \in Grown(s)
    <2>1. CASE \E a \in Actions : x = <<"visit", a>>
      BY <1>1, <2>1, OthersGrow DEF Grows
    <2>2. CASE \E a \in Actions : x = <<"execute", a>>
      BY <1>2, <2>2, ExecutedGrows DEF Grows
    <2>3. ASSUME NEW p \in Keys \X Exprs, x = <<"assign", p[1], p[2]>>
          PROVE  /\ x[1] = "assign" /\ x[2] = p[1] /\ x[3] = p[2] /\ Doing[x][s] = Given[p][s]
                 /\ Doing[x][s] \in Grown(s)
      BY <1>3, <2>3, OthersGrow DEF Grows
    <2>. QED
      BY <1>4, <2>1, <2>2, <2>3
  <1>. QED
    BY <1>5 DEF Grows

\* Items put into the agenda do what the actions and arguments they stand for do.
LEMMA ListsDo ==
  ASSUME NEW s \in Effects
  PROVE  /\ \A list \in Seq(Actions) :
              /\ Through(Doing, s, Visits(list)) = Through(Visiting(Executed), s, list)
              /\ Through(Doing, s, Executes(list)) = Through(Executed, s, list)
         /\ \A args \in Seq(Keys \X Exprs) :
              Through(Doing, s, Assignments(args)) = Through(Given, s, args)
  <1>0. Closed(Doing, Effects, Items)
    BY DoingFacts, GrowsClosed
  <1>1. ASSUME NEW list \in Seq(Actions)
        PROVE  /\ Through(Doing, s, Visits(list)) = Through(Visiting(Executed), s, list)
               /\ Through(Doing, s, Executes(list)) = Through(Executed, s, list)
    <2>1. PICK u, w : u = Visits(list) /\ w = Executes(list)
      BY Zenon
    <2>2. u \in Seq(Items) /\ w \in Seq(Items) /\ Len(u) = Len(list) /\ Len(w) = Len(list)
      BY <2>1, ItemTypes
    <2>3. \A j \in 1 .. Len(list) :
            u[j][1] = "visit" /\ u[j][2] = list[j] /\ w[j][1] = "execute" /\ w[j][2] = list[j]
      BY <2>1, ItemTypes
    <2>4. \A j \in 1 .. Len(list) : u[j] \in Items /\ w[j] \in Items
      BY <2>2
    <2>5. \A j \in 1 .. Len(u) : \A e \in Effects : Doing[u[j]][e] = Visiting(Executed)[list[j]][e]
      BY <2>2, <2>3, <2>4, DoingFacts
    <2>6. \A j \in 1 .. Len(w) : \A e \in Effects : Doing[w[j]][e] = Executed[list[j]][e]
      BY <2>2, <2>3, <2>4, DoingFacts
    <2>7. /\ Alike(Doing, u, Visiting(Executed), list, Effects)
          /\ Alike(Doing, w, Executed, list, Effects)
      BY <2>2, <2>5, <2>6, Zenon DEF Alike
    <2>8. Through(Doing, s, u) = Through(Visiting(Executed), s, list)
      BY <1>0, <2>2, <2>7, ThroughSame
    <2>9. Through(Doing, s, w) = Through(Executed, s, list)
      BY <1>0, <2>2, <2>7, ThroughSame
    <2>. QED
      BY <2>1, <2>8, <2>9, Zenon
  <1>2. ASSUME NEW args \in Seq(Keys \X Exprs)
        PROVE  Through(Doing, s, Assignments(args)) = Through(Given, s, args)
    <2>1. PICK u : u = Assignments(args)
      BY Zenon
    <2>2. u \in Seq(Items) /\ Len(u) = Len(args)
      BY <2>1, ArgumentTypes
    <2>3. \A j \in 1 .. Len(args) :
            /\ u[j][1] = "assign" /\ u[j][2] = args[j][1] /\ u[j][3] = args[j][2]
            /\ args[j] \in Keys \X Exprs
      BY <2>1, ArgumentTypes, Positions
    <2>4. \A j \in 1 .. Len(args) : u[j] \in Items
      BY <2>2
    <2>5. \A p, q \in Keys \X Exprs : p[1] = q[1] /\ p[2] = q[2] => p = q
      OBVIOUS
    <2>6. \A j \in 1 .. Len(u) : \A e \in Effects : Doing[u[j]][e] = Given[args[j]][e]
      <3> TAKE j \in 1 .. Len(u)
      <3> TAKE e \in Effects
      <3>1. PICK p \in Keys \X Exprs :
              p[1] = u[j][2] /\ p[2] = u[j][3] /\ Doing[u[j]][e] = Given[p][e]
        BY <2>2, <2>3, <2>4, DoingFacts
      <3>2. p = args[j]
        BY <2>2, <2>3, <2>5, <3>1
      <3>. QED
        BY <3>1, <3>2
    <2>7. Alike(Doing, u, Given, args, Effects)
      BY <2>2, <2>6, Zenon DEF Alike
    <2>8. Through(Doing, s, u) = Through(Given, s, args)
      BY <1>0, <2>2, <2>7, ThroughSame
    <2>. QED
      BY <2>1, <2>8, Zenon
  <1>. QED
    BY <1>1, <1>2

\* Nothing has been visited yet.
NotBegun == result = None /\ \A th \in Threads : pc[th] \notin {"visiting", "closing", "closed"}

\* Until an error, the effect so far and what is still to be done make what the
\* descriptions mean; after one, what is started is the beginning of it.
OnCourse ==
  /\ SoFar \in Effects
  /\ NotBegun => SoFar = NoEffect /\ agenda = <<>> /\ ~failed
  /\ IF failed THEN agenda = <<>> /\ Begins(started, Meaning(snapshot).started)
     ELSE AtLast = Meaning(snapshot)

\* The fields of the effect so far.
LEMMA SoFarFacts ==
  /\ SoFar.config = config /\ SoFar.started = started
  /\ \A k, v : SetTo(SoFar, k, v) = [config |-> [config EXCEPT ![k] = v], started |-> started]
  /\ \A e : [SoFar EXCEPT !.started = Append(@, e)] =
              [config |-> config, started |-> Append(started, e)]
  BY DEF SoFar, SetTo

\* Taking the head away, and doing it.
LEMMA HeadDone ==
  ASSUME Types, SoFar \in Effects, agenda # <<>>,
         SoFar' = Doing[Head(agenda)][SoFar], agenda' = Tail(agenda)
  PROVE  SoFar' \in Effects /\ AfterAgenda' = AfterAgenda
  <1>1. agenda \in Seq(Items) /\ Head(agenda) \in Items
    BY DEF Types
  <1>2. Closed(Doing, Effects, Items)
    BY DoingFacts, GrowsClosed
  <1>3. AfterAgenda = Through(Doing, Doing[Head(agenda)][SoFar], Tail(agenda))
    BY <1>1, <1>2, ThroughFirst DEF AfterAgenda
  <1>4. AfterAgenda' = Through(Doing, SoFar', agenda')
    BY DEF AfterAgenda
  <1>. QED
    BY <1>1, <1>2, <1>3, <1>4 DEF Closed

\* Taking the head away, and putting others that do the same in its place.
LEMMA HeadUnfolds ==
  ASSUME Types, SoFar \in Effects, agenda # <<>>, NEW list \in Seq(Items),
         SoFar' = SoFar, agenda' = list \o Tail(agenda),
         Through(Doing, SoFar, list) = Doing[Head(agenda)][SoFar]
  PROVE  SoFar' \in Effects /\ AfterAgenda' = AfterAgenda
  <1>1. agenda \in Seq(Items) /\ Tail(agenda) \in Seq(Items)
    BY DEF Types
  <1>2. Closed(Doing, Effects, Items)
    BY DoingFacts, GrowsClosed
  <1>3. AfterAgenda = Through(Doing, Doing[Head(agenda)][SoFar], Tail(agenda))
    BY <1>1, <1>2, ThroughFirst DEF AfterAgenda
  <1>4. AfterAgenda' = Through(Doing, SoFar, list \o Tail(agenda))
    BY DEF AfterAgenda
  <1>5. Through(Doing, SoFar, list \o Tail(agenda)) =
          Through(Doing, Through(Doing, SoFar, list), Tail(agenda))
    <2>1. ASSUME NEW rest \in Seq(Items)
          PROVE  Through(Doing, SoFar, list \o rest) =
                   Through(Doing, Through(Doing, SoFar, list), rest)
      BY <1>2, ThroughConcat
    <2>. QED
      BY <1>1, <2>1
  <1>. QED
    BY <1>3, <1>4, <1>5

\* What the head of the agenda does when it is an action that is executed.
LEMMA HeadExecutes ==
  ASSUME Types, SoFar \in Effects, agenda # <<>>, NEW a \in Actions, NEW kind, Executing(a, kind)
  PROVE  Act[a].kind = kind /\ Doing[Head(agenda)][SoFar] = Does(Executed, a, SoFar)
  <1>1. Head(agenda) \in Items
    BY DEF Types
  <1>2. Doing[Head(agenda)][SoFar] = Executed[a][SoFar]
    <2>1. CASE Head(agenda)[1] = "execute"
      BY <1>1, <2>1, DoingFacts DEF Executing
    <2>2. CASE Head(agenda)[1] = "visit"
      <3>1. Act[a].guard \in Conditions
        BY LaunchActionsAssumption DEF ActionRecord
      <3>2. Truth(SoFar, Act[a].guard)
        BY <2>2, <3>1, SoFarFacts, TruthSame DEF Executing
      <3>3. Visiting(Executed)[a][SoFar] = Executed[a][SoFar]
        BY <3>2 DEF Visiting
      <3>. QED
        BY <1>1, <2>2, <3>3, DoingFacts DEF Executing
    <2>. QED
      BY <2>1, <2>2 DEF Executing
  <1>. QED
    BY <1>2, ExecutedSolves DEF Solves, Executing

\* A step of the agenda leaves what the agenda adds in all as it was, or is an
\* error after which nothing is left to do.
LEMMA StepOnCourse ==
  ASSUME Types, SoFar \in Effects, agenda # <<>>, Step
  PROVE  /\ SoFar' \in Effects
         /\ \/ failed' = failed /\ AfterAgenda' = AfterAgenda
            \/ failed' /\ agenda' = <<>> /\ started' = started
  <1>1. Head(agenda) \in Items
    BY DEF Types
  <1>2. \A e \in Exprs : e # NoExpr => Perform(e) = ValueIn(SoFar, e)
    BY ValueSame, SoFarFacts DEF Perform
  <1>3. CASE Skip
    <2> DEFINE a == Head(agenda)[2]
    <2>1. a \in Actions /\ Act[a].guard \in Conditions
      BY <1>1, <1>3, DoingFacts, LaunchActionsAssumption DEF Skip, ActionRecord
    <2>2. ~Truth(SoFar, Act[a].guard)
      BY <1>3, <2>1, SoFarFacts, TruthSame DEF Skip
    <2>3. Visiting(Executed)[a][SoFar] = SoFar
      BY <2>1, <2>2 DEF Visiting
    <2>4. Doing[Head(agenda)][SoFar] = SoFar /\ SoFar' = SoFar
      BY <1>1, <1>3, <2>3, DoingFacts DEF Skip, SoFar
    <2>. QED
      BY <1>3, <2>4, HeadDone DEF Skip, Done
  <1>4. CASE Assign
    <2>1. PICK p \in Keys \X Exprs :
            /\ p[1] = Head(agenda)[2] /\ p[2] = Head(agenda)[3]
            /\ Doing[Head(agenda)][SoFar] = Given[p][SoFar]
      BY <1>1, <1>4, DoingFacts DEF Assign
    <2>2. Given[p][SoFar] =
            IF p[2] = NoExpr THEN SoFar ELSE SetTo(SoFar, p[1], ValueIn(SoFar, p[2]))
      BY DEF Given
    <2>3. SoFar' = Doing[Head(agenda)][SoFar]
      <3>1. CASE p[2] = NoExpr
        BY <1>4, <2>1, <2>2, <3>1 DEF Assign, SoFar
      <3>2. CASE p[2] # NoExpr
        <4>1. config' = [config EXCEPT ![p[1]] = ValueIn(SoFar, p[2])] /\ started' = started
          BY <1>2, <1>4, <2>1, <3>2 DEF Assign
        <4>2. SoFar' = [config |-> config', started |-> started']
          BY DEF SoFar
        <4>. QED
          BY <2>1, <2>2, <3>2, <4>1, <4>2, SoFarFacts
      <3>. QED
        BY <3>1, <3>2
    <2>. QED
      BY <1>4, <2>3, HeadDone DEF Assign, Done
  <1>5. ASSUME NEW a \in Actions, Declare(a)
        PROVE  SoFar' \in Effects /\ failed' = failed /\ AfterAgenda' = AfterAgenda
    <2>1. /\ Act[a].kind = "declare" /\ Act[a].expr \in Exprs
          /\ Doing[Head(agenda)][SoFar] = Does(Executed, a, SoFar)
      BY <1>5, HeadExecutes, LaunchActionsAssumption DEF Declare, ActionRecord
    <2>2. Does(Executed, a, SoFar) =
            IF config[Act[a].key] = Unset /\ Act[a].expr # NoExpr
            THEN SetTo(SoFar, Act[a].key, ValueIn(SoFar, Act[a].expr)) ELSE SoFar
      BY <2>1, SoFarFacts DEF Does
    <2>3. SoFar' = Doing[Head(agenda)][SoFar]
      <3>1. CASE config[Act[a].key] # Unset \/ Act[a].expr = NoExpr
        BY <1>5, <2>1, <2>2, <3>1 DEF Declare, SoFar
      <3>2. CASE ~(config[Act[a].key] # Unset \/ Act[a].expr = NoExpr)
        <4>1. /\ config' = [config EXCEPT ![Act[a].key] = ValueIn(SoFar, Act[a].expr)]
              /\ started' = started
          BY <1>2, <1>5, <2>1, <3>2 DEF Declare
        <4>2. SoFar' = [config |-> config', started |-> started']
          BY DEF SoFar
        <4>. QED
          BY <2>1, <2>2, <3>2, <4>1, <4>2, SoFarFacts
      <3>. QED
        BY <3>1, <3>2
    <2>. QED
      BY <1>5, <2>3, HeadDone DEF Declare, Done
  <1>6. ASSUME NEW a \in Actions, Set(a)
        PROVE  SoFar' \in Effects /\ failed' = failed /\ AfterAgenda' = AfterAgenda
    <2> DEFINE v == IF Act[a].expr = NoExpr THEN Empty ELSE ValueIn(SoFar, Act[a].expr)
    <2>1. /\ Act[a].kind = "set" /\ Act[a].expr \in Exprs
          /\ Doing[Head(agenda)][SoFar] = Does(Executed, a, SoFar)
      BY <1>6, HeadExecutes, LaunchActionsAssumption DEF Set, ActionRecord
    <2>2. Does(Executed, a, SoFar) = SetTo(SoFar, Act[a].key, v)
      BY <2>1 DEF Does
    <2>3. config' = [config EXCEPT ![Act[a].key] = v] /\ started' = started
      BY <1>2, <1>6, <2>1 DEF Set
    <2>4. SoFar' = [config |-> config', started |-> started']
      BY DEF SoFar
    <2> HIDE DEF v
    <2>5. SoFar' = Doing[Head(agenda)][SoFar]
      BY <2>1, <2>2, <2>3, <2>4, SoFarFacts
    <2>. QED
      BY <1>6, <2>5, HeadDone DEF Set, Done
  <1>7. ASSUME NEW a \in Actions, Launch(a)
        PROVE  /\ SoFar' \in Effects
               /\ \/ failed' = failed /\ AfterAgenda' = AfterAgenda
                  \/ failed' /\ agenda' = <<>> /\ started' = started
    <2>1. CASE Fail /\ UNCHANGED started
      BY <1>7, <2>1 DEF Launch, Fail, SoFar
    <2>2. CASE Done /\ started' = Append(started, <<a, Perform(Act[a].expr)>>)
      <3>1. /\ Act[a].kind \in {"process", "custom"}
            /\ Act[a].expr \in Exprs /\ Act[a].expr # NoExpr
            /\ Doing[Head(agenda)][SoFar] = Does(Executed, a, SoFar)
        BY <1>7, HeadExecutes, LaunchActionsAssumption DEF Launch, ActionRecord
      <3>2. Does(Executed, a, SoFar) =
              [SoFar EXCEPT !.started = Append(@, <<a, ValueIn(SoFar, Act[a].expr)>>)]
        BY <3>1 DEF Does
      <3>3. SoFar' = [config |-> config,
                      started |-> Append(started, <<a, ValueIn(SoFar, Act[a].expr)>>)]
        BY <1>2, <1>7, <2>2, <3>1 DEF SoFar, Launch
      <3>4. SoFar' = Doing[Head(agenda)][SoFar]
        BY <3>1, <3>2, <3>3, SoFarFacts, Zenon
      <3>. QED
        BY <2>2, <3>4, HeadDone DEF Done
    <2>. QED
      BY <1>7, <2>1, <2>2 DEF Launch
  <1>8. ASSUME NEW a \in Actions, Group(a)
        PROVE  SoFar' \in Effects /\ failed' = failed /\ AfterAgenda' = AfterAgenda
    <2>1. /\ Act[a].kind = "group"
          /\ Act[a].actions \in Seq(Actions) /\ Act[a].cond \in Conditions
          /\ Doing[Head(agenda)][SoFar] = Does(Executed, a, SoFar)
      BY <1>8, HeadExecutes, LaunchActionsAssumption DEF Group, ActionRecord
    <2>2. Does(Executed, a, SoFar) =
            IF Evaluate(Act[a].cond) THEN Through(Executed, SoFar, Act[a].actions) ELSE SoFar
      BY <2>1, SoFarFacts, TruthSame DEF Does
    <2>3. SoFar' = SoFar
      BY <1>8 DEF Group, SoFar
    <2>4. CASE Evaluate(Act[a].cond)
      <3>1. /\ Through(Doing, SoFar, Executes(Act[a].actions)) = Doing[Head(agenda)][SoFar]
            /\ Executes(Act[a].actions) \in Seq(Items)
        BY <2>1, <2>2, <2>4, ListsDo, ItemTypes
      <3>. QED
        BY <1>8, <2>3, <2>4, <3>1, HeadUnfolds DEF Group
    <2>5. CASE ~Evaluate(Act[a].cond)
      BY <1>8, <2>1, <2>2, <2>3, <2>5, HeadDone DEF Group
    <2>. QED
      BY <2>4, <2>5
  <1>9. ASSUME NEW a \in Actions, Timer(a)
        PROVE  SoFar' \in Effects /\ failed' = failed /\ AfterAgenda' = AfterAgenda
    <2>1. /\ Act[a].kind = "timer" /\ Act[a].actions \in Seq(Actions)
          /\ Doing[Head(agenda)][SoFar] = Does(Executed, a, SoFar)
      BY <1>9, HeadExecutes, LaunchActionsAssumption DEF Timer, ActionRecord
    <2>2. Does(Executed, a, SoFar) = Through(Executed, SoFar, Act[a].actions)
      BY <2>1 DEF Does
    <2>3. SoFar' = SoFar
      BY <1>9 DEF Timer, SoFar
    <2>4. /\ Through(Doing, SoFar, Executes(Act[a].actions)) = Doing[Head(agenda)][SoFar]
          /\ Executes(Act[a].actions) \in Seq(Items)
      BY <2>1, <2>2, ListsDo, ItemTypes
    <2>. QED
      BY <1>9, <2>3, <2>4, HeadUnfolds DEF Timer
  <1>10. ASSUME NEW a \in Actions, Include(a)
         PROVE  /\ SoFar' \in Effects
                /\ \/ failed' = failed /\ AfterAgenda' = AfterAgenda
                   \/ failed' /\ agenda' = <<>> /\ started' = started
    <2>1. CASE Fail
      BY <1>10, <2>1 DEF Include, Fail, SoFar
    <2>2. CASE ~Fail
      <3>1. /\ Act[a].kind = "include" /\ Act[a].args \in Seq(Keys \X Exprs)
            /\ Act[a].file # Unset /\ Act[a].file \in Files /\ Body[Act[a].file] \in Seq(Actions)
            /\ Doing[Head(agenda)][SoFar] = Does(Executed, a, SoFar)
        BY <1>10, <2>2, HeadExecutes, ActionTypes, FileTypes DEF Include
      <3>2. PICK given, body : given = Assignments(Act[a].args) /\ body = Visits(Body[Act[a].file])
        BY Zenon
      <3>3. given \in Seq(Items) /\ body \in Seq(Items)
        BY <3>1, <3>2, ArgumentTypes, ItemTypes
      <3> DEFINE t == Through(Given, SoFar, Act[a].args)
      <3>4. Does(Executed, a, SoFar) = Through(Visiting(Executed), t, Body[Act[a].file])
        BY <3>1 DEF Does
      <3>5. t \in Effects
        BY <3>1, OthersGrow, GrowsClosed
      <3>6. Through(Doing, SoFar, given) = t
        BY <3>1, <3>2, ListsDo
      <3> HIDE DEF t
      <3>7. Through(Doing, t, body) = Through(Visiting(Executed), t, Body[Act[a].file])
        BY <3>1, <3>2, <3>5, ListsDo
      <3>8. Through(Doing, SoFar, given \o body) = Through(Doing, t, body)
        BY <3>3, <3>6, DoingFacts, GrowsClosed, ThroughConcat
      <3>9. given \o body \in Seq(Items) /\ agenda' = (given \o body) \o Tail(agenda)
            /\ failed' = failed
        <4>1. agenda' = given \o body \o Tail(agenda) /\ failed' = failed
          BY <1>10, <2>2, <3>2 DEF Include
        <4>2. given \o body \in Seq(Items)
          BY <3>3
        <4>. QED
          BY <4>1, <4>2, Zenon
      <3>10. SoFar' = SoFar
        BY <1>10 DEF Include, SoFar
      <3>11. Through(Doing, SoFar, given \o body) = Doing[Head(agenda)][SoFar]
        BY <3>1, <3>4, <3>7, <3>8
      <3>12. ASSUME NEW list \in Seq(Items), agenda' = list \o Tail(agenda),
                    Through(Doing, SoFar, list) = Doing[Head(agenda)][SoFar]
             PROVE  SoFar' \in Effects /\ AfterAgenda' = AfterAgenda
        BY <3>10, <3>12, HeadUnfolds
      <3>. QED
        BY <3>9, <3>11, <3>12
    <2>. QED
      BY <2>1, <2>2
  <1>. QED
    BY <1>3, <1>4, <1>5, <1>6, <1>7, <1>8, <1>9, <1>10 DEF Step

\* Before anything is done there is an effect too.
LEMMA NoEffectIsEffect == NoEffect \in Effects
  BY SubstitutionsAssumption DEF NoEffect, Effects

\* Nothing is started and nothing is meant.
LEMMA OnCourseInit == Init => OnCourse
  <1> SUFFICES ASSUME Init PROVE OnCourse
    OBVIOUS
  <1>1. /\ SoFar = NoEffect /\ agenda = <<>> /\ failed = FALSE
        /\ snapshot = <<>> /\ next = 0
    BY DEF Init, ActionsInit, SoFar, NoEffect
  <1>2. SubSeq(snapshot, next + 1, Len(snapshot)) = <<>>
    BY <1>1
  <1>3. AfterAgenda = NoEffect
    BY <1>1, NoEffectIsEffect, ThroughEmpty DEF AfterAgenda
  <1>4. AtLast = Meaning(snapshot)
    BY <1>1, <1>2, <1>3, Zenon DEF AtLast, Meaning
  <1>. QED
    BY <1>1, <1>4, NoEffectIsEffect DEF OnCourse

\* What is started is the beginning of what the descriptions mean.
LEMMA StartedBegins ==
  ASSUME Types, OnCourse
  PROVE  /\ Begins(started, Meaning(snapshot).started)
         /\ Meaning(snapshot) \in Effects
  <1>1. Meaning(snapshot) \in Effects
    BY NoEffectIsEffect, OthersGrow, GrowsClosed DEF Types, Meaning
  <1>2. ASSUME ~failed PROVE Begins(started, Meaning(snapshot).started)
    <2>1. SoFar \in Effects /\ AtLast = Meaning(snapshot)
      BY <1>2 DEF OnCourse
    <2>2. AfterAgenda \in Effects /\ AfterAgenda \in Grown(SoFar)
      BY <2>1, DoingFacts, GrowsClosed DEF Types, AfterAgenda
    <2>3. SubSeq(snapshot, next + 1, Len(snapshot)) \in Seq(Descriptions)
      BY DEF Types
    <2>4. AtLast \in Effects /\ AtLast \in Grown(AfterAgenda)
      BY <2>2, <2>3, OthersGrow, GrowsClosed DEF AtLast
    <2>5. AtLast \in Grown(SoFar)
      BY <2>1, <2>2, <2>4, GrownFacts
    <2>. QED
      BY <2>1, <2>5, SoFarFacts DEF Grown
  <1>. QED
    BY <1>1, <1>2 DEF OnCourse

\* Lists with the same elements.
LEMMA SameList ==
  ASSUME NEW S, NEW u \in Seq(S), NEW v \in Seq(S), Len(u) = Len(v),
         \A i \in 1 .. Len(u) : u[i] = v[i]
  PROVE  u = v
  OBVIOUS

\* What is left of a list from m on: the next element and what is left after it.
LEMMA NextAndRest ==
  ASSUME NEW S, NEW u \in Seq(S), NEW m \in Nat, m < Len(u),
         NEW v, v = SubSeq(u, m + 1, Len(u))
  PROVE  /\ v \in Seq(S) /\ v # <<>> /\ u[m + 1] \in S /\ Head(v) = u[m + 1]
         /\ Tail(v) = SubSeq(u, (m + 1) + 1, Len(u))
  <1>1. PICK w : w = SubSeq(u, (m + 1) + 1, Len(u))
    OBVIOUS
  <1>2. Len(u) \in Nat /\ m + 1 \in 1 .. Len(u)
    OBVIOUS
  <1>3. v \in Seq(S) /\ Len(v) = Len(u) - m /\ \A i \in 1 .. Len(v) : v[i] = u[m + i]
    BY <1>2
  <1>4. /\ w \in Seq(S) /\ Len(w) = Len(u) - (m + 1)
        /\ \A i \in 1 .. Len(w) : w[i] = u[(m + 1) + i]
    BY <1>1, <1>2
  <1>5. v # <<>> /\ Len(v) \in Nat /\ Len(v) > 0
    <2>1. Len(v) \in Nat /\ Len(v) > 0
      BY <1>2, <1>3
    <2>2. Len(<<>>) = 0
      OBVIOUS
    <2>3. Len(v) # 0
      BY <2>1
    <2>. QED
      BY <2>1, <2>2, <2>3, Zenon
  <1>6. PICK x : x = Tail(v)
    OBVIOUS
  <1>7. x \in Seq(S) /\ Len(x) = Len(v) - 1 /\ \A i \in 1 .. Len(x) : x[i] = v[i + 1]
    BY <1>3, <1>5, <1>6
  <1>8. ASSUME NEW i \in 1 .. Len(x) PROVE x[i] = w[i]
    <2>1. i \in 1 .. Len(w) /\ i + 1 \in 1 .. Len(v) /\ m + (i + 1) = (m + 1) + i
      BY <1>2, <1>3, <1>4, <1>7
    <2>. QED
      BY <1>3, <1>4, <1>7, <2>1
  <1>9. Len(x) = Len(w)
    BY <1>2, <1>3, <1>4, <1>7
  <1>10. x = w
    BY <1>4, <1>7, <1>8, <1>9, SameList
  <1>11. Head(v) = u[m + 1] /\ u[m + 1] \in S
    BY <1>2, <1>3, <1>5
  <1>. QED
    BY <1>1, <1>3, <1>5, <1>6, <1>10, <1>11

\* The copy of the descriptions is taken before anything is done; a description
\* taken up is put into the agenda whole; every step stays on course.
LEMMA OnCourseStep == ASSUME IInv, Types, OnCourse, [Next]_vars PROVE OnCourse'
  <1>1. ASSUME UNCHANGED <<config, started, agenda, failed, snapshot, next>>, NotBegun' => NotBegun
        PROVE  OnCourse'
    <2>1. SoFar' = SoFar /\ AtLast' = AtLast /\ Meaning(snapshot)' = Meaning(snapshot)
      BY <1>1 DEF SoFar, AtLast, AfterAgenda
    <2>. QED
      BY <1>1, <2>1 DEF OnCourse
  <1>2. ASSUME NEW th \in Threads, RunCopy(th) PROVE OnCourse'
    <2>1. NotBegun
      BY <1>2 DEF RunCopy, IInv, WonOnce, Inside, NotBegun
    <2>2. SoFar = NoEffect /\ agenda = <<>> /\ ~failed
      BY <2>1 DEF OnCourse
    <2>3. /\ SoFar' = NoEffect /\ agenda' = <<>> /\ ~failed'
          /\ snapshot' = descriptions /\ next' = 0
      BY <1>2, <2>2 DEF RunCopy, actionVars, SoFar
    <2>4. AfterAgenda' = NoEffect
      <3>1. AfterAgenda' = Through(Doing, SoFar', agenda')
        BY DEF AfterAgenda
      <3>. QED
        BY <2>3, <3>1, NoEffectIsEffect, ThroughEmpty
    <2>5. SubSeq(descriptions, 0 + 1, Len(descriptions)) = descriptions
      BY DEF Types
    <2>6. AtLast' = Meaning(snapshot)'
      <3>1. AtLast' = Through(Described, AfterAgenda', SubSeq(snapshot', next' + 1, Len(snapshot')))
        BY DEF AtLast
      <3>2. Meaning(snapshot)' = Through(Described, NoEffect, descriptions)
        BY <2>3 DEF Meaning
      <3>. QED
        BY <2>3, <2>4, <2>5, <3>1, <3>2, Zenon
    <2>7. ~NotBegun'
      BY <1>2 DEF RunCopy, Goto, NotBegun, IInv, ServiceTypeOK
    <2>. QED
      BY <2>3, <2>6, <2>7, NoEffectIsEffect DEF OnCourse
  <1>3. ASSUME NEW th \in Threads, RunVisit(th) PROVE OnCourse'
    <2>1. /\ pc[th] = "visiting" /\ pc' = pc /\ ~failed /\ ~failed' /\ snapshot' = snapshot
          /\ agenda = <<>> /\ next < Len(snapshot) /\ next' = next + 1
          /\ agenda' = Visits(Contents[snapshot[next + 1]]) /\ SoFar' = SoFar
      BY <1>3 DEF RunVisit, SoFar
    <2>2. SoFar \in Effects /\ AtLast = Meaning(snapshot)
      BY <2>1 DEF OnCourse
    <2>3. AfterAgenda = SoFar
      BY <2>1, <2>2, ThroughEmpty DEF AfterAgenda
    <2>4. PICK rest, d : rest = SubSeq(snapshot, next + 1, Len(snapshot)) /\ d = snapshot[next + 1]
      BY Zenon
    <2>5. /\ rest \in Seq(Descriptions) /\ rest # <<>> /\ d \in Descriptions /\ Head(rest) = d
          /\ Tail(rest) = SubSeq(snapshot, (next + 1) + 1, Len(snapshot))
      <3>1. next \in Nat /\ next < Len(snapshot) /\ snapshot \in Seq(Descriptions)
        BY <2>1 DEF Types
      <3>2. rest = SubSeq(snapshot, next + 1, Len(snapshot)) /\ d = snapshot[next + 1]
        BY <2>4
      <3>3. /\ rest \in Seq(Descriptions) /\ rest # <<>>
            /\ snapshot[next + 1] \in Descriptions /\ Head(rest) = snapshot[next + 1]
            /\ Tail(rest) = SubSeq(snapshot, (next + 1) + 1, Len(snapshot))
        BY <3>1, <3>2, NextAndRest, ZenonT(30)
      <3>. QED
        BY <3>2, <3>3
    <2>6. Closed(Described, Effects, Descriptions)
      BY OthersGrow, GrowsClosed
    <2>7. Through(Described, SoFar, rest) = Through(Described, Described[d][SoFar], Tail(rest))
      BY <2>2, <2>5, <2>6, ThroughFirst
    <2>8. Described[d][SoFar] = AfterAgenda'
      <3>1. Described[d][SoFar] = Through(Visiting(Executed), SoFar, Contents[d])
        BY <2>2, <2>5 DEF Described
      <3>2. Through(Doing, SoFar, Visits(Contents[d])) =
              Through(Visiting(Executed), SoFar, Contents[d])
        BY <2>2, <2>5, ListsDo, LaunchServiceAssumption
      <3>3. AfterAgenda' = Through(Doing, SoFar', agenda')
        BY DEF AfterAgenda
      <3>. QED
        BY <2>1, <2>4, <3>1, <3>2, <3>3
    <2>9. AtLast' = AtLast
      <3>1. AtLast' = Through(Described, AfterAgenda', SubSeq(snapshot', next' + 1, Len(snapshot')))
        BY DEF AtLast
      <3>2. AtLast = Through(Described, SoFar, rest)
        BY <2>3, <2>4, Zenon DEF AtLast
      <3>3. AtLast' = Through(Described, AfterAgenda', Tail(rest))
        BY <2>1, <2>5, <3>1, Zenon
      <3>. QED
        BY <2>7, <2>8, <3>2, <3>3, Zenon
    <2>10. ~NotBegun'
      BY <2>1 DEF NotBegun
    <2>. QED
      BY <2>1, <2>2, <2>9, <2>10 DEF OnCourse
  <1>4. ASSUME NEW th \in Threads, RunStep(th) PROVE OnCourse'
    <2>1. /\ pc[th] = "visiting" /\ pc' = pc /\ snapshot' = snapshot /\ next' = next
          /\ agenda # <<>> /\ Step /\ ~failed
      BY <1>4 DEF RunStep, serviceVars, OnCourse
    <2>2. SoFar \in Effects /\ AtLast = Meaning(snapshot)
      BY <2>1 DEF OnCourse
    <2>3. /\ SoFar' \in Effects
          /\ \/ failed' = failed /\ AfterAgenda' = AfterAgenda
             \/ failed' /\ agenda' = <<>> /\ started' = started
      BY <2>1, <2>2, StepOnCourse
    <2>4. ~NotBegun'
      BY <2>1 DEF NotBegun
    <2>5. CASE failed' = failed /\ AfterAgenda' = AfterAgenda
      <3>1. AtLast' = AtLast
        BY <2>1, <2>5 DEF AtLast
      <3>. QED
        BY <2>1, <2>2, <2>3, <2>4, <2>5, <3>1 DEF OnCourse
    <2>6. CASE failed' /\ agenda' = <<>> /\ started' = started
      <3>1. Begins(started, Meaning(snapshot).started)'
        BY <2>1, <2>6, StartedBegins
      <3>. QED
        BY <2>3, <2>4, <2>6, <3>1 DEF OnCourse
    <2>. QED
      BY <2>3, <2>5, <2>6
  <1>5. ASSUME NEW th \in Threads, RunFail(th) \/ RunSucceed(th) PROVE OnCourse'
    <2>1. ~NotBegun'
      BY <1>5, LaunchServiceAssumption DEF RunFail, RunSucceed, Goto, NotBegun, IInv, ServiceTypeOK
    <2>. QED
      BY <1>1, <1>5, <2>1 DEF RunFail, RunSucceed, actionVars
  <1>6. ASSUME NEW th \in Threads, ShutdownBegin(th) \/ ShutdownFinish(th) PROVE OnCourse'
    <2>1. NotBegun' => NotBegun
      BY <1>6, LaunchServiceAssumption
         DEF ShutdownBegin, ShutdownFinish, Return, Goto, NotBegun, IInv, ServiceTypeOK
    <2>. QED
      BY <1>1, <1>6, <2>1 DEF ShutdownBegin, ShutdownFinish, actionVars
  <1>7. ASSUME NEW th \in Threads, NEW d \in Descriptions, IncludeDescription(th, d)
        PROVE  OnCourse'
    BY <1>1, <1>7 DEF IncludeDescription, NotBegun, actionVars
  <1>8. ASSUME NEW th \in Threads, NEW whenIdle \in BOOLEAN, RunBegin(th, whenIdle)
        PROVE  OnCourse'
    BY <1>1, <1>8 DEF RunBegin, Goto, NotBegun, actionVars, IInv, ServiceTypeOK
  <1>9. CASE UNCHANGED vars
    BY <1>1, <1>9 DEF vars, actionVars, serviceVars, NotBegun
  <1>. QED
    BY <1>2, <1>3, <1>4, <1>5, <1>6, <1>7, <1>8, <1>9 DEF Next, Proceed, Call

\* A beginning, in the words of the community modules.
LEMMA BeginsIsPrefix ==
  ASSUME NEW S, NEW s \in Seq(S), NEW t \in Seq(S), Begins(s, t)
  PROVE  IsPrefix(s, t)
  <1>1. Len(s) \in Nat /\ Len(t) \in Nat /\ Len(s) <= Len(t)
    BY DEF Begins
  <1>2. /\ SubSeq(s, 1, Len(s)) \in Seq(S) /\ Len(SubSeq(s, 1, Len(s))) = Len(s)
        /\ \A i \in 1 .. Len(s) : SubSeq(s, 1, Len(s))[i] = s[i]
    BY <1>1
  <1>3. /\ SubSeq(t, 1, Len(s)) \in Seq(S) /\ Len(SubSeq(t, 1, Len(s))) = Len(s)
        /\ \A i \in 1 .. Len(s) : SubSeq(t, 1, Len(s))[i] = t[i]
    BY <1>1
  <1>4. SubSeq(s, 1, Len(s)) = SubSeq(t, 1, Len(s))
    BY <1>1, <1>2, <1>3 DEF Begins
  <1>. QED
    BY <1>1, <1>4 DEF IsPrefix

\* The run is on course in every reachable state.
THEOREM CourseInvariance == Spec => []OnCourse
  BY OnCourseInit, OnCourseStep, Invariance, ContextInvariance, PTL DEF Spec

\* What the visit leaves behind is what the copied descriptions mean.
LEMMA VisitedMeans ==
  ASSUME Types, OnCourse, Visited
  PROVE  SoFar = Meaning(snapshot)
  <1>1. SoFar \in Effects /\ AtLast = Meaning(snapshot)
    BY DEF OnCourse, Visited
  <1>2. AfterAgenda = SoFar
    BY <1>1, ThroughEmpty DEF AfterAgenda, Visited
  <1>3. SubSeq(snapshot, next + 1, Len(snapshot)) = <<>>
    BY DEF Types, Visited
  <1>. QED
    BY <1>1, <1>2, <1>3, ThroughEmpty DEF AtLast

\* What has been started is, in order and with the same arguments, the beginning of
\* what the copied descriptions mean, and all of it when run() returns 0, whatever
\* the actions, the groups in groups, the files and the conditions:
\* src/launch_service.cpp, run(), and src/actions/.
THEOREM StartedIsMeant == Spec => []StartedAsMeant
  <1>1. IInv /\ Types /\ TakenUp /\ OnCourse => StartedAsMeant
    <2> SUFFICES ASSUME IInv, Types, TakenUp, OnCourse PROVE StartedAsMeant
      OBVIOUS
    <2>1. Begins(started, Meaning(snapshot).started) /\ Meaning(snapshot) \in Effects
      BY StartedBegins
    <2>2. started \in Seq(Actions \X Values) /\ Meaning(snapshot).started \in Seq(Actions \X Values)
      BY <2>1, SoFarFacts DEF OnCourse, Effects
    <2>3. IsPrefix(started, Meaning(snapshot).started)
      BY <2>1, <2>2, BeginsIsPrefix
    <2>4. ASSUME result = 0
          PROVE  started = Meaning(snapshot).started /\ config = Meaning(snapshot).config
      BY <2>4, VisitedMeans, SoFarFacts DEF TakenUp
    <2>. QED
      BY <2>3, <2>4 DEF StartedAsMeant
  <1>. QED
    BY <1>1, Invariance, ContextInvariance, CourseInvariance, PTL

\* When run() returns 0, all the descriptions that had been included by the time it
\* took over have been launched, in the order they were included, whatever was
\* included after them: src/launch_service.cpp, include_launch_description() and run().
THEOREM AcceptedAreLaunched == Spec => []AcceptedIsLaunched
  <1>1. IInv /\ Types /\ TakenUp /\ OnCourse => AcceptedIsLaunched
    <2> SUFFICES ASSUME IInv, Types, TakenUp, OnCourse, result = 0
                 PROVE  IsPrefix(Meaning(accepted).started, started)
      BY DEF AcceptedIsLaunched
    <2>1. Begins(accepted, snapshot) /\ started = Meaning(snapshot).started
      BY VisitedMeans, SoFarFacts, LaunchServiceAssumption DEF TakenUp
    <2>2. PICK rest \in Seq(Descriptions) : snapshot = accepted \o rest
      <3>1. accepted \in Seq(Descriptions) /\ snapshot \in Seq(Descriptions)
        BY DEF Types
      <3>2. /\ Len(accepted) \in Nat /\ Len(snapshot) \in Nat /\ Len(accepted) <= Len(snapshot)
            /\ \A i \in 1 .. Len(accepted) : accepted[i] = snapshot[i]
        BY <2>1, <3>1 DEF Begins
      <3> DEFINE rest == SubSeq(snapshot, Len(accepted) + 1, Len(snapshot))
      <3>3. /\ rest \in Seq(Descriptions) /\ Len(rest) = Len(snapshot) - Len(accepted)
            /\ \A i \in 1 .. Len(rest) : rest[i] = snapshot[Len(accepted) + i]
        BY <3>1, <3>2
      <3> HIDE DEF rest
      <3>4. PICK both : both = accepted \o rest
        OBVIOUS
      <3>5. /\ both \in Seq(Descriptions) /\ Len(both) = Len(snapshot)
            /\ \A i \in 1 .. Len(accepted) : both[i] = accepted[i]
            /\ \A i \in 1 .. Len(rest) : both[Len(accepted) + i] = rest[i]
        BY <3>1, <3>2, <3>3, <3>4
      <3>6. ASSUME NEW i \in 1 .. Len(both) PROVE both[i] = snapshot[i]
        <4>1. i \in 1 .. Len(accepted) \/
                (i - Len(accepted) \in 1 .. Len(rest) /\ i = Len(accepted) + (i - Len(accepted)))
          BY <3>2, <3>3, <3>5
        <4>. QED
          BY <3>2, <3>3, <3>5, <4>1
      <3>7. snapshot = both
        BY <3>1, <3>5, <3>6, SameList
      <3>. QED
        BY <3>3, <3>4, <3>7
    <2>3. Closed(Described, Effects, Descriptions) /\ accepted \in Seq(Descriptions)
      BY OthersGrow, GrowsClosed DEF Types
    <2>4. Meaning(accepted) \in Effects
      BY <2>3, NoEffectIsEffect, OthersGrow, GrowsClosed DEF Meaning
    <2>5. Meaning(snapshot) = Through(Described, Meaning(accepted), rest)
      BY <2>2, <2>3, NoEffectIsEffect, ThroughConcat DEF Meaning
    <2>6. Meaning(snapshot) \in Grown(Meaning(accepted))
      BY <2>2, <2>4, <2>5, OthersGrow, GrowsClosed
    <2>7. Begins(Meaning(accepted).started, started)
      BY <2>1, <2>6 DEF Grown
    <2>8. Meaning(accepted).started \in Seq(Actions \X Values) /\ started \in Seq(Actions \X Values)
      BY <2>4, SoFarFacts DEF OnCourse, Effects
    <2>. QED
      BY <2>7, <2>8, BeginsIsPrefix
  <1>. QED
    BY <1>1, Invariance, ContextInvariance, CourseInvariance, PTL

=============================================================================
