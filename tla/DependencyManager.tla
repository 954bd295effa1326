-------------------------- MODULE DependencyManager --------------------------
(***************************************************************************)
(* DependencyManager: processes are added by name with the names they      *)
(* depend on, and execute_all() resolves these and executes the processes  *)
(* one after the other in the order that comes out.  It is used by one     *)
(* thread.  ExecuteProcess::execute either succeeds or fails here.         *)
(***************************************************************************)
EXTENDS DependencyResolver

CONSTANTS
  MaxDependencies    \* bound: the length of a dependency list

VARIABLES
  dependencies,  \* of each process added (processes_ has the same keys)
  executing,     \* whether the resolution that runs is that of execute_all()
  completed,     \* how much of the order execute_all() has gone through
  executed,      \* the processes it has executed with success, in order
  outcome        \* what execute_all() returned last: "unresolved", "not_found",
                 \* "not_ready", "failed" or "success", or "none"

managerVars == <<dependencies, executing, completed, executed, outcome>>
vars == <<resolverVars, managerVars>>

Lists == UNION {[1 .. k -> Names] : k \in 0 .. MaxDependencies}

Init ==
  /\ ResolverInit
  /\ dependencies = <<>>
  /\ executing = FALSE
  /\ completed = 0
  /\ executed = <<>>
  /\ outcome = "none"

Processes == DOMAIN dependencies

Idle == phase = "idle" /\ ~executing

\* What the last call worked with and returned is gone: these were its locals.
Forget ==
  /\ nodes' = <<>> /\ deps' = [n \in Names |-> <<>>] /\ phase' = "idle"
  /\ color' = [n \in Names |-> "white"] /\ path' = <<>> /\ visited' = <<>>
  /\ queue' = <<>> /\ inDegree' = [n \in Names |-> 0] /\ order' = <<>>
  /\ cycle' = <<>> /\ verdict' = "none"
  /\ completed' = 0 /\ executed' = <<>> /\ outcome' = "none"

-----------------------------------------------------------------------------
\* add_process(); a name that is taken, or empty, is refused.
AddProcess(n, list) ==
  /\ Idle
  /\ n \notin Processes
  /\ dependencies' = [m \in Processes \union {n} |->
                        IF m = n THEN list ELSE dependencies[m]]
  /\ Forget
  /\ UNCHANGED executing

Clear ==
  /\ Idle
  /\ dependencies' = <<>>
  /\ Forget
  /\ UNCHANGED executing

\* resolve_dependencies() lists the processes as the unordered map has them.
ResolveDependencies ==
  \E ns \in SetToSeqs(Processes) :
    Resolve(ns, [n \in Names |-> IF n \in Processes THEN dependencies[n] ELSE <<>>])

\* The caller may ask for the order alone.
AskOrder ==
  /\ Idle
  /\ ResolveDependencies
  /\ completed' = 0 /\ executed' = <<>> /\ outcome' = "none"
  /\ UNCHANGED <<dependencies, executing>>

ExecuteAll ==
  /\ Idle
  /\ ResolveDependencies
  /\ executing' = TRUE
  /\ completed' = 0 /\ executed' = <<>> /\ outcome' = "none"
  /\ UNCHANGED dependencies

Finish(what) == executing' = FALSE /\ outcome' = what

\* A resolution that failed, whatever the reason, is K_CYCLIC_DEPENDENCY.
Unresolved ==
  /\ executing /\ phase = "idle"
  /\ verdict # "success"
  /\ Finish("unresolved")
  /\ UNCHANGED <<resolverVars, dependencies, completed, executed>>

\* is_ready()
IsReady(n, done) == n \in Processes /\ ToSet(dependencies[n]) \subseteq done

\* Mutant of ExecuteNext: a process that fails is passed over.
ExecuteNextRegardless ==
  /\ executing /\ phase = "idle" /\ verdict = "success"
  /\ completed < Len(order)
  /\ completed' = completed + 1
  /\ executed' \in {executed, Append(executed, order[completed + 1])}
  /\ UNCHANGED <<resolverVars, dependencies, executing, outcome>>

\* The next process of the order: the two checks, then execute().
ExecuteNext ==
  /\ executing /\ phase = "idle" /\ verdict = "success"
  /\ completed < Len(order)
  /\ LET n == order[completed + 1]
     IN  IF n \notin Processes
         THEN Finish("not_found") /\ UNCHANGED <<completed, executed>>
         ELSE IF ~IsReady(n, ToSet(SubSeq(order, 1, completed)))
         THEN Finish("not_ready") /\ UNCHANGED <<completed, executed>>
         ELSE \/ /\ completed' = completed + 1
                 /\ executed' = Append(executed, n)
                 /\ UNCHANGED <<executing, outcome>>
              \/ Finish("failed") /\ UNCHANGED <<completed, executed>>
  /\ UNCHANGED <<resolverVars, dependencies>>

AllExecuted ==
  /\ executing /\ phase = "idle" /\ verdict = "success"
  /\ completed = Len(order)
  /\ Finish("success")
  /\ UNCHANGED <<resolverVars, dependencies, completed, executed>>

Proceed ==
  \/ ResolverStep /\ UNCHANGED managerVars
  \/ Unresolved \/ ExecuteNext \/ AllExecuted

Next ==
  \/ \E n \in Names, list \in Lists : AddProcess(n, list)
  \/ Clear \/ AskOrder \/ ExecuteAll
  \/ Proceed

Spec == Init /\ [][Next]_vars

\* One thread, whose calls run to their end.
FairSpec == Spec /\ WF_vars(Proceed)

=============================================================================
