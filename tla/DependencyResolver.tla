-------------------------- MODULE DependencyResolver --------------------------
(***************************************************************************)
(* DependencyResolver::resolve: a search for missing dependencies, a       *)
(* depth-first search for a cycle and Kahn's algorithm for the order, one  *)
(* action per iteration of a loop or call of the recursion.                *)
(*                                                                         *)
(* Node names are distinct, as they are when DependencyManager makes the   *)
(* list; the dependencies of a node are a list that may repeat a name.     *)
(***************************************************************************)
EXTENDS Naturals, FiniteSets, SequencesExt

CONSTANTS
  Names,    \* node names
  Sorted    \* the same, as std::map orders them

ASSUME ResolverAssumption ==
  /\ IsFiniteSet(Names)
  /\ Sorted \in Seq(Names)
  /\ \A n \in Names : \E i \in DOMAIN Sorted : Sorted[i] = n
  /\ \A i, j \in DOMAIN Sorted : Sorted[i] = Sorted[j] => i = j

VARIABLES
  nodes,     \* the names in the order of the argument
  deps,      \* what each name depends on
  phase,     \* "idle", "search" (the cycle) or "sort"
  color,     \* of the search: "white", "gray" or "black"
  path,      \* the calls of dfs_visit() that are open, outermost first
  visited,   \* how many neighbors each of these calls has looked at
  queue,     \* nodes whose dependencies are all in the order
  inDegree,
  order,
  cycle,     \* circular_path
  verdict    \* how the last resolution ended: "missing", "circular", "incomplete"
             \* or "success", or "none" before there was one

resolverVars == <<nodes, deps, phase, color, path, visited, queue, inDegree, order,
                  cycle, verdict>>

ResolverInit ==
  /\ nodes = <<>>
  /\ deps = [n \in Names |-> <<>>]
  /\ phase = "idle"
  /\ color = [n \in Names |-> "white"]
  /\ path = <<>> /\ visited = <<>>
  /\ queue = <<>> /\ order = <<>>
  /\ inDegree = [n \in Names |-> 0]
  /\ cycle = <<>>
  /\ verdict = "none"

DependsOn(n, m) == m \in ToSet(deps[n])

\* get_missing_dependencies(), of a list of nodes ns that depend as ds says.
Missing(ns, ds) == (UNION {ToSet(ds[n]) : n \in ToSet(ns)}) \ ToSet(ns)

\* can_start_node() and get_ready_nodes().
CanStart(n, started) == n \in ToSet(nodes) /\ ToSet(deps[n]) \subseteq started
ReadyNodes(remaining, started) == {n \in remaining : CanStart(n, started)}

-----------------------------------------------------------------------------
(* What resolve() begins with.                                             *)

Resolve(ns, ds) ==
  /\ phase = "idle"
  /\ nodes' = ns /\ deps' = ds
  /\ color' = [n \in Names |-> "white"]
  /\ order' = <<>> /\ cycle' = <<>>
  /\ IF Missing(ns, ds) # {}
     THEN phase' = "idle" /\ verdict' = "missing"
     ELSE phase' = "search" /\ verdict' = "none"
  /\ UNCHANGED <<path, visited, queue, inDegree>>

-----------------------------------------------------------------------------
(* detect_cycle_dfs() and dfs_visit()                                      *)

\* The loop over the graph, in the order of the map.
SearchFrom(n) ==
  /\ phase = "search" /\ path = <<>>
  /\ \E i \in DOMAIN Sorted :
       /\ Sorted[i] = n
       /\ n \in ToSet(nodes) /\ color[n] = "white"
       /\ \A j \in 1 .. i - 1 : Sorted[j] \in ToSet(nodes) => color[Sorted[j]] # "white"
  /\ color' = [color EXCEPT ![n] = "gray"]
  /\ path' = <<n>> /\ visited' = <<0>>
  /\ UNCHANGED <<nodes, deps, phase, queue, inDegree, order, cycle, verdict>>

Current == Last(path)
Neighbor == deps[Current][Last(visited) + 1]
Looking == phase = "search" /\ path # <<>> /\ Last(visited) < Len(deps[Current])
CountNeighbor == [visited EXCEPT ![Len(visited)] = @ + 1]

\* A call on a white neighbor, after which the loop goes on to the next one.
Descend ==
  /\ Looking /\ color[Neighbor] = "white"
  /\ color' = [color EXCEPT ![Neighbor] = "gray"]
  /\ path' = Append(path, Neighbor)
  /\ visited' = Append(CountNeighbor, 0)
  /\ UNCHANGED <<nodes, deps, phase, queue, inDegree, order, cycle, verdict>>

PassBlack ==
  /\ Looking /\ color[Neighbor] = "black"
  /\ visited' = CountNeighbor
  /\ UNCHANGED <<nodes, deps, phase, color, path, queue, inDegree, order, cycle, verdict>>

\* Mutant of FindCycle: the whole path is taken for the cycle.
FindWholePath ==
  /\ Looking /\ color[Neighbor] = "gray"
  /\ cycle' = Append(path, Neighbor)
  /\ phase' = "idle" /\ verdict' = "circular"
  /\ path' = <<>> /\ visited' = <<>>
  /\ UNCHANGED <<nodes, deps, color, queue, inDegree, order>>

\* A gray neighbor closes a cycle: the path from it on, and it again.
FindCycle ==
  /\ Looking /\ color[Neighbor] = "gray"
  /\ \E i \in DOMAIN path :
       /\ path[i] = Neighbor
       /\ \A j \in i + 1 .. Len(path) : path[j] # Neighbor
       /\ cycle' = Append(SubSeq(path, i, Len(path)), Neighbor)
  /\ phase' = "idle" /\ verdict' = "circular"
  /\ path' = <<>> /\ visited' = <<>>
  /\ UNCHANGED <<nodes, deps, color, queue, inDegree, order>>

Returning == phase = "search" /\ path # <<>> /\ Last(visited) = Len(deps[Current])

\* Mutant of Return: the node is not painted black but left white.
ReturnWhite ==
  /\ Returning
  /\ color' = [color EXCEPT ![Current] = "white"]
  /\ path' = Front(path) /\ visited' = Front(visited)
  /\ UNCHANGED <<nodes, deps, phase, queue, inDegree, order, cycle, verdict>>

Return ==
  /\ Returning
  /\ color' = [color EXCEPT ![Current] = "black"]
  /\ path' = Front(path) /\ visited' = Front(visited)
  /\ UNCHANGED <<nodes, deps, phase, queue, inDegree, order, cycle, verdict>>

-----------------------------------------------------------------------------
(* Kahn's algorithm                                                        *)

\* build_in_degree_map(): a dependency that is listed twice counts twice.
InDegrees == [n \in Names |-> Len(deps[n])]

\* The members of S, in the order in which the list has them.
Listed(S, list) ==
  {s \in SetToSeqs(S) : \A i, j \in DOMAIN s : i < j =>
     \E p, q \in DOMAIN list : p < q /\ list[p] = s[i] /\ list[q] = s[j]}

\* No white node is left: the queue and the in-degrees are set up.
StartSort ==
  /\ phase = "search" /\ path = <<>>
  /\ \A n \in ToSet(nodes) : color[n] # "white"
  /\ phase' = "sort"
  /\ queue' \in Listed({n \in ToSet(nodes) : deps[n] = <<>>}, nodes)
  /\ inDegree' = InDegrees
  /\ UNCHANGED <<nodes, deps, color, path, visited, order, cycle, verdict>>

Dependents(n) == {m \in ToSet(nodes) : DependsOn(m, n)}

\* Mutant of TakeNode: a dependent joins the queue at its first dependency.
TakeNodeEarly ==
  /\ phase = "sort" /\ queue # <<>>
  /\ order' = Append(order, Head(queue))
  /\ LET dependents == Dependents(Head(queue))
     IN  /\ inDegree' = [n \in Names |-> IF n \in dependents THEN inDegree[n] - 1
                                                             ELSE inDegree[n]]
         /\ \E free \in Listed({n \in dependents : inDegree[n] = Len(deps[n])}, Sorted) :
              queue' = Tail(queue) \o free
  /\ UNCHANGED <<nodes, deps, phase, color, path, visited, cycle, verdict>>

\* One turn of the loop.  A dependent loses one degree, once, however often it
\* lists the node, and joins the queue when it has none left.
TakeNode ==
  /\ phase = "sort" /\ queue # <<>>
  /\ order' = Append(order, Head(queue))
  /\ LET dependents == Dependents(Head(queue))
     IN  /\ inDegree' = [n \in Names |-> IF n \in dependents THEN inDegree[n] - 1
                                                             ELSE inDegree[n]]
         /\ \E free \in Listed({n \in dependents : inDegree[n] = 1}, Sorted) :
              queue' = Tail(queue) \o free
  /\ UNCHANGED <<nodes, deps, phase, color, path, visited, cycle, verdict>>

\* Mutant of EndSort: the length of the order is not compared.
EndSortUnchecked ==
  /\ phase = "sort" /\ queue = <<>>
  /\ phase' = "idle" /\ verdict' = "success"
  /\ UNCHANGED <<nodes, deps, color, path, visited, queue, inDegree, order, cycle>>

EndSort ==
  /\ phase = "sort" /\ queue = <<>>
  /\ phase' = "idle"
  /\ IF Len(order) = Len(nodes)
     THEN verdict' = "success" /\ UNCHANGED order
     ELSE verdict' = "incomplete" /\ order' = <<>>
  /\ UNCHANGED <<nodes, deps, color, path, visited, queue, inDegree, cycle>>

ResolverStep ==
  \/ \E n \in Names : SearchFrom(n)
  \/ Descend \/ PassBlack \/ FindCycle \/ Return
  \/ StartSort \/ TakeNode \/ EndSort

=============================================================================
