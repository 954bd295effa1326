----------------------------- MODULE StartupOrder -----------------------------
(***************************************************************************)
(* What the dependency resolver and the dependency manager promise: the    *)
(* order they arrive at is one in which everything comes after what it     *)
(* depends on, and there is always a reason when there is none.            *)
(***************************************************************************)
EXTENDS DependencyManager

\* There is a cycle: some nodes each of which depends on one of them.
Cyclic ==
  \E S \in (SUBSET ToSet(nodes)) \ {{}} : \A n \in S : \E m \in S : DependsOn(n, m)

Repeats == \E n \in ToSet(nodes) : ~IsInjective(deps[n])

\* At every point of the sort, a node is in the order once at most, and each
\* node was free to start given those ahead of it.
OrderIsStartable ==
  /\ IsInjective(order)
  /\ \A i \in DOMAIN order : CanStart(order[i], ToSet(SubSeq(order, 1, i - 1)))

\* Each of the four verdicts has its reason: a name that is not there, a cycle
\* among names that all are, a list that repeats a name, or neither.
VerdictIsRight ==
  /\ verdict = "missing" <=> verdict # "none" /\ Missing(nodes, deps) # {}
  /\ verdict = "circular" => Cyclic
  /\ verdict = "incomplete" => ~Cyclic /\ Repeats
  /\ verdict = "success" => ~Cyclic /\ ToSet(order) = ToSet(nodes)
  /\ phase = "sort" => ~Cyclic

\* The circular path leads from a node along dependencies back to it, and
\* through no node twice.
CircularPathIsACycle ==
  cycle # <<>> =>
    /\ Len(cycle) > 1 /\ cycle[1] = Last(cycle)
    /\ \A i \in 1 .. Len(cycle) - 1 : DependsOn(cycle[i], cycle[i + 1])
    /\ IsInjective(Front(cycle))

\* execute_all() has executed what the order begins with, so each process after
\* all it depends on; it stops at the first failure, and says success only if
\* every process has been executed.  Its own two checks never find anything.
ExecutedInOrder ==
  /\ executed = SubSeq(order, 1, completed)
  /\ \A i \in DOMAIN executed :
       ToSet(dependencies[executed[i]]) \subseteq ToSet(SubSeq(executed, 1, i - 1))
  /\ outcome = "success" => ToSet(executed) = Processes
  /\ outcome = "failed" => completed < Len(order)
  /\ outcome \notin {"not_found", "not_ready"}

\* A resolution ends, and so does execute_all().
Returns == (phase # "idle" \/ executing) ~> Idle

-----------------------------------------------------------------------------
\* "topological sorting to determine the correct startup order": processes
\* whose dependencies are all there and not circular are given an order.
AcyclicIsResolved ==
  verdict \notin {"none", "success"} => Missing(nodes, deps) # {} \/ Cyclic

=============================================================================
