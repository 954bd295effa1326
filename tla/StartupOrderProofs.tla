--------------------------- MODULE StartupOrderProofs ---------------------------
(***************************************************************************)
(* Proofs about StartupOrder, for any finite set of names in any order and *)
(* dependency lists of any length.                                         *)
(***************************************************************************)
EXTENDS StartupOrder, QueueFacts, SequenceTheorems, FiniteSetTheorems, TLAPS

-----------------------------------------------------------------------------
(* Facts about lists.                                                      *)

\* A list has at least as many elements as members, and as many if it repeats none.
LEMMA SizeFacts ==
  ASSUME NEW S, NEW s \in Seq(S)
  PROVE  /\ Len(s) \in Nat /\ IsFiniteSet(ToSet(s)) /\ Cardinality(ToSet(s)) \in Nat
         /\ Cardinality(ToSet(s)) <= Len(s)
         /\ Cardinality(ToSet(s)) = Len(s) <=> IsInjective(s)
  <1>1. Len(s) \in Nat /\ DOMAIN s = 1 .. Len(s)
    OBVIOUS
  <1>2. s \in Surjection(1 .. Len(s), ToSet(s))
    BY <1>1 DEF Surjection, ToSet
  <1>3. IsFiniteSet(1 .. Len(s)) /\ Cardinality(1 .. Len(s)) = Len(s)
    BY <1>1, FS_Interval
  <1>4. s \in Injection(1 .. Len(s), ToSet(s)) <=> IsInjective(s)
    BY <1>1, <1>2 DEF Injection, IsInjective, Surjection
  <1>. QED
    BY <1>1, <1>2, <1>3, <1>4, FS_Surjection, FS_CardinalityType

\* A list with a list behind it that shares nothing with it.
LEMMA ConcatFacts ==
  ASSUME NEW S, NEW s \in Seq(S), NEW t \in Seq(S)
  PROVE  /\ s \o t \in Seq(S)
         /\ ToSet(s \o t) = ToSet(s) \union ToSet(t)
         /\ IsInjective(s) /\ IsInjective(t) /\ ToSet(s) \intersect ToSet(t) = {}
              => IsInjective(s \o t)
  <1>1. /\ Len(s) \in Nat /\ Len(t) \in Nat /\ s \o t \in Seq(S)
        /\ DOMAIN s = 1 .. Len(s) /\ DOMAIN t = 1 .. Len(t)
        /\ DOMAIN (s \o t) = 1 .. Len(s) + Len(t)
    OBVIOUS
  <1>2. /\ \A i \in 1 .. Len(s) : (s \o t)[i] = s[i]
        /\ \A i \in Len(s) + 1 .. Len(s) + Len(t) : (s \o t)[i] = t[i - Len(s)]
        /\ \A i \in 1 .. Len(t) : (s \o t)[i + Len(s)] = t[i]
    OBVIOUS
  <1>3. ToSet(s \o t) = ToSet(s) \union ToSet(t)
    <2>1. ToSet(s \o t) \subseteq ToSet(s) \union ToSet(t)
      <3> SUFFICES ASSUME NEW i \in 1 .. Len(s) + Len(t)
                   PROVE  (s \o t)[i] \in ToSet(s) \union ToSet(t)
        BY <1>1 DEF ToSet
      <3>1. CASE i <= Len(s)
        BY <1>1, <1>2, <3>1 DEF ToSet
      <3>2. CASE i > Len(s)
        <4>1. i - Len(s) \in 1 .. Len(t) /\ (s \o t)[i] = t[i - Len(s)]
          BY <1>1, <1>2, <3>2
        <4>. QED
          BY <1>1, <4>1 DEF ToSet
      <3>. QED
        BY <1>1, <3>1, <3>2
    <2>2. ToSet(s) \subseteq ToSet(s \o t)
      BY <1>1, <1>2 DEF ToSet
    <2>3. ToSet(t) \subseteq ToSet(s \o t)
      <3> SUFFICES ASSUME NEW i \in 1 .. Len(t) PROVE t[i] \in ToSet(s \o t)
        BY <1>1 DEF ToSet
      <3>1. i + Len(s) \in 1 .. Len(s) + Len(t) /\ (s \o t)[i + Len(s)] = t[i]
        BY <1>1, <1>2
      <3>. QED
        BY <1>1, <3>1 DEF ToSet
    <2>. QED
      BY <2>1, <2>2, <2>3
  <1>4. ASSUME IsInjective(s), IsInjective(t), ToSet(s) \intersect ToSet(t) = {}
        PROVE  IsInjective(s \o t)
    <2> SUFFICES ASSUME NEW i \in 1 .. Len(s) + Len(t), NEW j \in 1 .. Len(s) + Len(t),
                        i < j, (s \o t)[i] = (s \o t)[j]
                 PROVE  FALSE
      BY <1>1 DEF IsInjective
    <2>1. CASE j <= Len(s)
      BY <1>1, <1>2, <1>4, <2>1 DEF IsInjective
    <2>2. CASE i > Len(s)
      <3>1. /\ i - Len(s) \in 1 .. Len(t) /\ j - Len(s) \in 1 .. Len(t)
            /\ t[i - Len(s)] = t[j - Len(s)]
        BY <1>1, <1>2, <2>2
      <3>2. i - Len(s) = j - Len(s)
        BY <1>1, <1>4, <3>1 DEF IsInjective
      <3>. QED
        BY <1>1, <3>2
    <2>3. CASE i <= Len(s) /\ j > Len(s)
      <3>1. /\ i \in 1 .. Len(s) /\ j - Len(s) \in 1 .. Len(t)
            /\ s[i] = t[j - Len(s)]
        BY <1>1, <1>2, <2>3
      <3>2. s[i] \in ToSet(s) /\ t[j - Len(s)] \in ToSet(t)
        BY <1>1, <3>1 DEF ToSet
      <3>. QED
        BY <1>4, <3>1, <3>2
    <2>. QED
      BY <1>1, <2>1, <2>2, <2>3
  <1>. QED
    BY <1>1, <1>3, <1>4

\* Listing a set repeats nothing and leaves nothing out.
LEMMA ListingFacts ==
  ASSUME NEW S, NEW s \in SetToSeqs(S), IsFiniteSet(S)
  PROVE  s \in Seq(S) /\ IsInjective(s) /\ ToSet(s) = S
  <1> DEFINE D == 1 .. Cardinality(S)
  <1>1. Cardinality(S) \in Nat /\ IsFiniteSet(D) /\ Cardinality(D) = Cardinality(S)
    BY FS_CardinalityType, FS_Interval
  <1>2. s \in [D -> S] /\ IsInjective(s)
    BY Zenon DEF SetToSeqs, IsInjective
  <1>3. s \in Injection(D, S)
    BY <1>2 DEF Injection, IsInjective
  <1>4. s \in Surjection(D, S)
    <2> HIDE DEF D
    <2>. QED
      BY <1>1, <1>3, FS_Injection
  <1>5. ToSet(s) = S
    BY <1>2, <1>4 DEF ToSet, Surjection
  <1>6. s \in Seq(S)
    BY <1>1, <1>2
  <1>. QED
    BY <1>2, <1>5, <1>6

LEMMA ListedFacts ==
  ASSUME NEW S, NEW list, NEW s \in Listed(S, list), IsFiniteSet(S)
  PROVE  s \in Seq(S) /\ IsInjective(s) /\ ToSet(s) = S
  <1>1. s \in SetToSeqs(S)
    BY Zenon DEF Listed
  <1>. QED
    BY <1>1, ListingFacts

-----------------------------------------------------------------------------
(* The inductive invariant of the resolver.                                *)

Colors == {"white", "gray", "black"}
Verdicts == {"none", "missing", "circular", "incomplete", "success"}

ResolverTypes ==
  /\ nodes \in Seq(Names) /\ IsInjective(nodes)
  /\ deps \in [Names -> Seq(Names)]
  /\ phase \in {"idle", "search", "sort"}
  /\ color \in [Names -> Colors]
  /\ path \in Seq(Names) /\ visited \in Seq(Nat) /\ Len(visited) = Len(path)
  /\ queue \in Seq(Names) /\ order \in Seq(Names)
  /\ inDegree \in [Names -> Int]
  /\ cycle \in Seq(Names)
  /\ verdict \in Verdicts

\* What each part of resolve() finds, and leaves to the next one.
Handover ==
  /\ phase # "search" => path = <<>>
  /\ phase = "search" => order = <<>>
  /\ phase # "idle" => verdict = "none" /\ cycle = <<>>
  /\ phase # "idle" \/ verdict \in {"circular", "incomplete", "success"}
       => Missing(nodes, deps) = {}
  /\ verdict = "missing" => Missing(nodes, deps) # {}

\* The open calls of dfs_visit() lead along dependencies, each of them through
\* dependencies that are done with to the one that is open.
Path ==
  /\ IsInjective(path) /\ ToSet(path) \subseteq ToSet(nodes)
  /\ \A i \in 1 .. Len(path) - 1 : DependsOn(path[i], path[i + 1])
  /\ \A i \in DOMAIN path : \A k \in 1 .. visited[i] :
       /\ k <= Len(deps[path[i]])
       /\ \/ color[deps[path[i]][k]] = "black"
          \/ i < Len(path) /\ deps[path[i]][k] = path[i + 1]

\* Gray nodes are those on the path, black ones depend on black ones alone, and
\* among these there is no cycle.
Colored ==
  /\ \A n \in Names : color[n] = "gray" <=> n \in ToSet(path)
  /\ \A n, m \in Names : color[n] = "black" /\ DependsOn(n, m) => color[m] = "black"
  /\ \A S \in SUBSET {n \in Names : color[n] = "black"} :
       S # {} => \E n \in S : \A m \in S : ~DependsOn(n, m)

\* The in-degree of a node is what its list is longer than its dependencies in the
\* order are many, and it is queued once there is no difference left.
Done(n) == {m \in ToSet(order) : DependsOn(n, m)}
Sorting ==
  /\ IsInjective(queue)
  /\ ToSet(queue) \union ToSet(order) \subseteq ToSet(nodes)
  /\ ToSet(queue) \intersect ToSet(order) = {}
  /\ \A n \in ToSet(nodes) :
       /\ inDegree[n] + Cardinality(Done(n)) = Len(deps[n])
       /\ inDegree[n] = 0 <=> n \in ToSet(queue) \union ToSet(order)

ResolverInv ==
  /\ ResolverTypes /\ Handover
  /\ phase = "search" => Path /\ Colored
  /\ phase = "sort" => Sorting
  /\ OrderIsStartable /\ VerdictIsRight /\ CircularPathIsACycle

\* Nothing is resolved.
LEMMA NothingResolved == ResolverInit => ResolverInv
  <1> SUFFICES ASSUME ResolverInit PROVE ResolverInv
    OBVIOUS
  <1> USE DEF ResolverInit
  <1>1. ResolverTypes
    BY DEF ResolverTypes, Colors, Verdicts, IsInjective
  <1>2. Handover
    BY DEF Handover
  <1>3. OrderIsStartable /\ CircularPathIsACycle
    BY DEF OrderIsStartable, CircularPathIsACycle, IsInjective
  <1>4. VerdictIsRight
    BY Zenon DEF VerdictIsRight
  <1>. QED
    BY <1>1, <1>2, <1>3, <1>4 DEF ResolverInv

LEMMA ForgetStep == Forget => ResolverInv'
  <1>1. Forget => ResolverInit'
    BY DEF Forget, ResolverInit
  <1>. QED
    BY <1>1, NothingResolved, PTL

\* What resolve() does first.
LEMMA ResolveStep ==
  ASSUME ResolverInv, NEW ns \in Seq(Names), IsInjective(ns),
         NEW ds \in [Names -> Seq(Names)], Resolve(ns, ds)
  PROVE  ResolverInv'
  <1> USE DEF Resolve, ResolverInv
  <1>1. ResolverTypes'
    BY DEF ResolverTypes, Colors, Verdicts
  <1>2. Handover'
    BY DEF Handover
  <1>3. phase' = "search" => Path' /\ Colored'
    <2>1. path' = <<>> /\ \A n \in Names : color'[n] = "white"
      BY DEF Handover
    <2>2. Path'
      BY <2>1 DEF Path, ToSet, IsInjective
    <2>3. Colored'
      BY <2>1 DEF Colored, ToSet
    <2>. QED
      BY <2>2, <2>3
  <1>4. order' = <<>> /\ cycle' = <<>> /\ phase' # "sort"
    OBVIOUS
  <1>5. OrderIsStartable' /\ CircularPathIsACycle'
    BY <1>4 DEF OrderIsStartable, CircularPathIsACycle, IsInjective
  <1>6. verdict' \in {"missing", "none"} /\ (verdict' = "missing" <=> Missing(nodes, deps)' # {})
    BY DEF Missing
  <1>7. VerdictIsRight'
    BY <1>4, <1>6, Zenon DEF VerdictIsRight
  <1>. QED
    BY <1>1, <1>2, <1>3, <1>4, <1>5, <1>7

-----------------------------------------------------------------------------
(* The search for a cycle.                                                 *)

\* A step of the search that finds nothing leaves what was established before it.
LEMMA SearchGoesOn ==
  ASSUME ResolverInv, phase = "search",
         UNCHANGED <<nodes, deps, phase, queue, inDegree, order, cycle, verdict>>,
         ResolverTypes', Path', Colored'
  PROVE  ResolverInv'
  <1> USE DEF ResolverInv
  <1>1. Handover'
    BY DEF Handover, Missing
  <1>2. OrderIsStartable'
    BY DEF OrderIsStartable, CanStart
  <1>3. CircularPathIsACycle'
    BY DEF CircularPathIsACycle, DependsOn
  <1>4. verdict' = "none" /\ phase' = "search"
    BY DEF Handover
  <1>5. VerdictIsRight'
    BY <1>4, Zenon DEF VerdictIsRight
  <1>. QED
    BY <1>1, <1>2, <1>3, <1>4, <1>5

LEMMA SearchFromStep ==
  ASSUME ResolverInv, NEW n \in Names, SearchFrom(n)
  PROVE  ResolverInv'
  <1> USE DEF ResolverInv, SearchFrom
  <1>1. phase = "search" /\ path = <<>> /\ color[n] = "white" /\ n \in ToSet(nodes)
    OBVIOUS
  <1>2. ResolverTypes'
    BY DEF ResolverTypes, Colors
  <1>3. path' = <<n>> /\ visited' = <<0>> /\ ToSet(path') = {n} /\ ToSet(path) = {}
    BY <1>1 DEF ToSet
  <1>4. Path'
    BY <1>1, <1>3 DEF Path, IsInjective
  <1>5. Colored'
    <2>1. color \in [Names -> Colors]
      BY DEF ResolverTypes
    <2>2. \A m \in Names : color'[m] = IF m = n THEN "gray" ELSE color[m]
      BY <2>1
    <2>3. \A m \in Names : color'[m] = "gray" <=> m \in ToSet(path')
      BY <1>1, <1>3, <2>2 DEF Colored
    <2>4. \A m \in Names : color'[m] = "black" <=> color[m] = "black"
      BY <1>1, <2>2
    <2>. QED
      BY <1>1, <2>3, <2>4 DEF Colored, DependsOn
  <1>. QED
    BY <1>1, <1>2, <1>4, <1>5, SearchGoesOn

\* When no dependency is missing, nodes depend on nodes.
LEMMA NoneMissing ==
  ASSUME Missing(nodes, deps) = {}, NEW n \in ToSet(nodes), NEW m, DependsOn(n, m)
  PROVE  m \in ToSet(nodes)
  <1> SUFFICES ASSUME m \notin ToSet(nodes) PROVE m \in Missing(nodes, deps)
    OBVIOUS
  <1>1. m \in UNION {ToSet(deps[k]) : k \in ToSet(nodes)}
    BY Zenon DEF DependsOn
  <1>. QED
    BY <1>1, Zenon DEF Missing

\* The innermost open call of dfs_visit(), and the neighbor it comes to next.
LEMMA OpenCall ==
  ASSUME ResolverInv, phase = "search", path # <<>>
  PROVE  /\ Len(path) \in Nat /\ Len(path) > 0 /\ Len(visited) = Len(path)
         /\ DOMAIN path = 1 .. Len(path) /\ DOMAIN visited = 1 .. Len(path)
         /\ Current \in Names /\ Current = path[Len(path)] /\ Current \in ToSet(path)
         /\ Last(visited) \in Nat /\ Last(visited) = visited[Len(path)]
         /\ color[Current] = "gray" /\ deps[Current] \in Seq(Names)
  <1> USE DEF ResolverInv, ResolverTypes
  <1>1. /\ Len(path) \in Nat /\ Len(path) > 0 /\ Len(visited) = Len(path)
        /\ DOMAIN path = 1 .. Len(path) /\ DOMAIN visited = 1 .. Len(path)
    OBVIOUS
  <1>2. /\ Current \in Names /\ Current = path[Len(path)] /\ Current \in ToSet(path)
        /\ Last(visited) \in Nat /\ Last(visited) = visited[Len(path)]
    <2>1. path[Len(path)] \in Names /\ visited[Len(path)] \in Nat
      BY <1>1
    <2>2. path[Len(path)] \in ToSet(path)
      <3>1. Len(path) \in DOMAIN path
        BY <1>1
      <3>. QED
        BY <3>1, Zenon DEF ToSet
    <2>. QED
      BY <1>1, <2>1, <2>2 DEF Current, Last
  <1>3. color[Current] = "gray" /\ deps[Current] \in Seq(Names)
    BY <1>2 DEF Colored
  <1>. QED
    BY <1>1, <1>2, <1>3

LEMMA NextNeighbor ==
  ASSUME ResolverInv, Looking
  PROVE  /\ Last(visited) + 1 \in 1 .. Len(deps[Current]) /\ Len(deps[Current]) \in Nat
         /\ Neighbor = deps[Current][Last(visited) + 1]
         /\ Neighbor \in Names /\ Neighbor \in ToSet(nodes) /\ DependsOn(Current, Neighbor)
         /\ CountNeighbor \in Seq(Nat) /\ Len(CountNeighbor) = Len(path)
         /\ CountNeighbor[Len(path)] = Last(visited) + 1
         /\ \A i \in 1 .. Len(path) - 1 : CountNeighbor[i] = visited[i]
  <1>1. /\ phase = "search" /\ path # <<>> /\ Last(visited) < Len(deps[Current])
        /\ visited \in Seq(Nat) /\ Len(visited) = Len(path)
    BY DEF Looking, ResolverInv, ResolverTypes
  <1>2. /\ Last(visited) + 1 \in 1 .. Len(deps[Current]) /\ Len(deps[Current]) \in Nat
        /\ Neighbor = deps[Current][Last(visited) + 1] /\ Neighbor \in Names
    BY <1>1, OpenCall DEF Neighbor
  <1>3. DependsOn(Current, Neighbor)
    BY <1>1, <1>2, OpenCall DEF DependsOn, ToSet
  <1>4. Neighbor \in ToSet(nodes)
    <2>1. Missing(nodes, deps) = {} /\ Current \in ToSet(nodes)
      BY <1>1, OpenCall DEF ResolverInv, Handover, Path
    <2>. QED
      BY <1>3, <2>1, NoneMissing
  <1>5. /\ CountNeighbor \in Seq(Nat) /\ Len(CountNeighbor) = Len(path)
        /\ CountNeighbor[Len(path)] = Last(visited) + 1
        /\ \A i \in 1 .. Len(path) - 1 : CountNeighbor[i] = visited[i]
    BY <1>1, OpenCall DEF CountNeighbor
  <1>. QED
    BY <1>2, <1>3, <1>4, <1>5

LEMMA PassBlackStep == ASSUME ResolverInv, PassBlack PROVE ResolverInv'
  <1>1. Looking /\ phase = "search" /\ path # <<>> /\ color[Neighbor] = "black"
        /\ visited' = CountNeighbor /\ UNCHANGED <<path, color, deps, nodes>>
    BY DEF PassBlack, Looking
  <1>2. ResolverTypes'
    BY <1>1, NextNeighbor DEF PassBlack, ResolverInv, ResolverTypes
  <1>3. Path'
    <2>1. ASSUME NEW i \in DOMAIN path, NEW k \in 1 .. visited'[i]
          PROVE  /\ k <= Len(deps[path[i]])
                 /\ \/ color[deps[path[i]][k]] = "black"
                    \/ i < Len(path) /\ deps[path[i]][k] = path[i + 1]
      <3>1. i \in 1 .. Len(path) /\ Len(path) \in Nat
        BY <1>1, OpenCall
      <3>2. Path
        BY <1>1 DEF ResolverInv
      <3>3. CASE i < Len(path)
        <4>1. visited'[i] = visited[i]
          BY <1>1, <3>1, <3>3, NextNeighbor
        <4>. QED
          BY <3>2, <4>1 DEF Path
      <3>4. CASE i = Len(path)
        <4>1. path[i] = Current /\ Last(visited) = visited[i] /\ Last(visited) \in Nat
          BY <1>1, <3>4, OpenCall
        <4>2. visited'[i] = visited[i] + 1
          BY <1>1, <3>4, <4>1, NextNeighbor
        <4>3. CASE k = visited[i] + 1
          BY <1>1, <4>1, <4>3, NextNeighbor
        <4>4. CASE k \in 1 .. visited[i]
          BY <3>2, <4>4 DEF Path
        <4>. QED
          BY <4>1, <4>2, <4>3, <4>4
      <3>. QED
        BY <3>1, <3>3, <3>4
    <2>. QED
      BY <1>1, <2>1 DEF Path, ResolverInv, DependsOn
  <1>4. Colored'
    BY <1>1 DEF Colored, ResolverInv, DependsOn
  <1>. QED
    BY <1>1, <1>2, <1>3, <1>4, SearchGoesOn DEF PassBlack

LEMMA DescendStep == ASSUME ResolverInv, Descend PROVE ResolverInv'
  <1>1. /\ Looking /\ phase = "search" /\ path # <<>> /\ color[Neighbor] = "white"
        /\ color' = [color EXCEPT ![Neighbor] = "gray"]
        /\ path' = Append(path, Neighbor) /\ visited' = Append(CountNeighbor, 0)
        /\ UNCHANGED <<deps, nodes>>
    BY DEF Descend, Looking
  <1>2. /\ path \in Seq(Names) /\ color \in [Names -> Colors] /\ Len(path) \in Nat
        /\ DOMAIN path = 1 .. Len(path) /\ Path /\ Colored /\ Neighbor \in Names
    BY <1>1, OpenCall, NextNeighbor DEF ResolverInv, ResolverTypes
  <1>3. /\ path' \in Seq(Names) /\ Len(path') = Len(path) + 1
        /\ DOMAIN path' = 1 .. Len(path) + 1
        /\ path'[Len(path) + 1] = Neighbor
        /\ \A i \in 1 .. Len(path) : path'[i] = path[i]
    BY <1>1, <1>2
  <1>4. /\ visited' \in Seq(Nat) /\ Len(visited') = Len(path) + 1
        /\ visited'[Len(path) + 1] = 0
        /\ visited'[Len(path)] = Last(visited) + 1
        /\ \A i \in 1 .. Len(path) - 1 : visited'[i] = visited[i]
    <2>1. /\ CountNeighbor \in Seq(Nat) /\ Len(CountNeighbor) = Len(path)
          /\ CountNeighbor[Len(path)] = Last(visited) + 1 /\ Len(path) > 0
          /\ \A i \in 1 .. Len(path) - 1 : CountNeighbor[i] = visited[i]
      BY <1>1, OpenCall, NextNeighbor
    <2>2. /\ visited' \in Seq(Nat) /\ Len(visited') = Len(CountNeighbor) + 1
          /\ visited'[Len(CountNeighbor) + 1] = 0
          /\ \A i \in 1 .. Len(CountNeighbor) : visited'[i] = CountNeighbor[i]
      BY <1>1, <2>1, AppendFacts
    <2>. QED
      BY <1>2, <2>1, <2>2
  <1>5. /\ \A n \in Names : color'[n] = IF n = Neighbor THEN "gray" ELSE color[n]
        /\ color' \in [Names -> Colors]
    BY <1>1, <1>2 DEF Colors
  <1>6. ResolverTypes'
    BY <1>3, <1>4, <1>5 DEF Descend, ResolverInv, ResolverTypes
  <1>7. ToSet(path') = ToSet(path) \union {Neighbor} /\ Neighbor \notin ToSet(path)
        /\ (IsInjective(path) => IsInjective(path'))
    <2>1. Neighbor \notin ToSet(path)
      BY <1>1, <1>2 DEF Colored
    <2>. QED
      BY <1>1, <1>2, <2>1, PushFacts
  <1>8. Path'
    <2>1. IsInjective(path') /\ ToSet(path') \subseteq ToSet(nodes')
      BY <1>1, <1>2, <1>7, NextNeighbor DEF Path
    <2>2. ASSUME NEW i \in 1 .. Len(path') - 1 PROVE DependsOn(path'[i], path'[i + 1])
      <3>1. CASE i < Len(path)
        BY <1>1, <1>2, <1>3, <3>1 DEF Path, DependsOn
      <3>2. CASE i = Len(path)
        BY <1>1, <1>2, <1>3, <3>2, OpenCall, NextNeighbor DEF DependsOn
      <3>. QED
        BY <1>2, <1>3, <3>1, <3>2
    <2>3. ASSUME NEW i \in 1 .. Len(path) + 1, NEW k \in 1 .. visited'[i]
          PROVE  /\ k <= Len(deps[path'[i]])
                 /\ \/ color'[deps[path'[i]][k]] = "black"
                    \/ i < Len(path') /\ deps[path'[i]][k] = path'[i + 1]
      <3>1. CASE i < Len(path)
        <4>0. i \in 1 .. Len(path) - 1 /\ i \in 1 .. Len(path) /\ i + 1 \in 1 .. Len(path)
          BY <1>2, <3>1
        <4>1. /\ path'[i] = path[i] /\ path'[i + 1] = path[i + 1] /\ visited'[i] = visited[i]
              /\ path[i] \in Names /\ deps[path[i]] \in Seq(Names)
          <5>1. path'[i] = path[i] /\ path'[i + 1] = path[i + 1] /\ visited'[i] = visited[i]
            BY <1>3, <1>4, <4>0
          <5>2. path[i] \in Names /\ deps[path[i]] \in Seq(Names)
            BY <1>2, <4>0 DEF ResolverInv, ResolverTypes
          <5>. QED
            BY <5>1, <5>2
        <4>2. /\ k <= Len(deps[path[i]])
              /\ \/ color[deps[path[i]][k]] = "black"
                 \/ deps[path[i]][k] = path[i + 1]
          <5>1. i \in DOMAIN path /\ k \in 1 .. visited[i]
            BY <1>2, <4>0, <4>1
          <5>2. Path
            BY <1>2
          <5>. QED
            BY <5>1, <5>2 DEF Path
        <4>3. deps[path[i]][k] \in Names
          BY <4>1, <4>2
        <4>. QED
          BY <1>1, <1>2, <1>3, <1>5, <3>1, <4>1, <4>2, <4>3
      <3>2. CASE i = Len(path)
        <4>1. /\ path'[i] = Current /\ path'[i + 1] = Neighbor /\ path[i] = Current
              /\ visited'[i] = Last(visited) + 1
              /\ Last(visited) = visited[i] /\ Last(visited) \in Nat
          <5>1. path[i] = Current /\ Last(visited) = visited[i] /\ Last(visited) \in Nat
            BY <1>1, <3>2, OpenCall
          <5>2. path'[i] = path[i] /\ path'[i + 1] = Neighbor /\ visited'[i] = Last(visited) + 1
            BY <1>2, <1>3, <1>4, <3>2
          <5>. QED
            BY <5>1, <5>2
        <4>2. CASE k = Last(visited) + 1
          BY <1>1, <1>3, <3>2, <4>1, <4>2, NextNeighbor
        <4>3. CASE k \in 1 .. visited[i]
          <5>1. k <= Len(deps[Current]) /\ color[deps[Current][k]] = "black"
            BY <1>2, <3>2, <4>1, <4>3 DEF Path
          <5>2. deps[Current][k] \in Names
            BY <1>1, <5>1, OpenCall
          <5>. QED
            BY <1>1, <1>5, <4>1, <5>1, <5>2
        <4>. QED
          BY <4>1, <4>2, <4>3
      <3>3. CASE i = Len(path) + 1
        BY <1>4, <3>3
      <3>. QED
        BY <1>2, <3>1, <3>2, <3>3
    <2>4. \A i \in 1 .. Len(path') - 1 : DependsOn(path[i], path[i + 1])'
      BY <1>1, <2>2 DEF DependsOn
    <2>5. \A i \in DOMAIN path' : \A k \in 1 .. visited'[i] :
            /\ k <= Len(deps'[path'[i]])
            /\ \/ color'[deps'[path'[i]][k]] = "black"
               \/ i < Len(path') /\ deps'[path'[i]][k] = path'[i + 1]
      <3>1. deps' = deps /\ DOMAIN path' = 1 .. Len(path) + 1
        BY <1>1, <1>3
      <3>. QED
        BY <2>3, <3>1, Zenon
    <2>. QED
      BY <2>1, <2>4, <2>5 DEF Path, DependsOn
  <1>9. Colored'
    <2>1. \A n \in Names : color'[n] = "gray" <=> n \in ToSet(path')
      BY <1>2, <1>5, <1>7 DEF Colored
    <2>2. \A n \in Names : color'[n] = "black" <=> color[n] = "black"
      BY <1>1, <1>2, <1>5
    <2>. QED
      BY <1>1, <1>2, <2>1, <2>2 DEF Colored, DependsOn
  <1>. QED
    BY <1>1, <1>6, <1>8, <1>9, SearchGoesOn DEF Descend

\* Where the neighbor is gray the path closes, and from there on it is a cycle.
LEMMA FindCycleStep == ASSUME ResolverInv, FindCycle PROVE ResolverInv'
  <1>1. /\ Looking /\ phase = "search" /\ path # <<>>
        /\ path' = <<>> /\ visited' = <<>> /\ phase' = "idle" /\ verdict' = "circular"
        /\ UNCHANGED <<nodes, deps, color, queue, inDegree, order>>
    BY DEF FindCycle, Looking
  <1>2. /\ path \in Seq(Names) /\ Len(path) \in Nat /\ Len(path) > 0
        /\ DOMAIN path = 1 .. Len(path) /\ Path
        /\ Neighbor \in Names /\ DependsOn(Current, Neighbor) /\ Current = path[Len(path)]
    BY <1>1, OpenCall, NextNeighbor DEF ResolverInv, ResolverTypes
  <1>3. PICK i \in 1 .. Len(path) :
          path[i] = Neighbor /\ cycle' = Append(SubSeq(path, i, Len(path)), Neighbor)
    BY <1>2 DEF FindCycle
  <1> DEFINE part == SubSeq(path, i, Len(path))
             k == Len(path) - i + 1
  <1>4. /\ part \in Seq(Names) /\ Len(part) = k /\ k \in Nat /\ k > 0
        /\ \A j \in 1 .. k : part[j] = path[i + j - 1]
    BY <1>2
  <1>5. /\ cycle' \in Seq(Names) /\ Len(cycle') = k + 1 /\ cycle'[k + 1] = Neighbor
        /\ \A j \in 1 .. k : cycle'[j] = path[i + j - 1]
    <2> HIDE DEF part
    <2>1. cycle' = Append(part, Neighbor)
      BY <1>3 DEF part
    <2>2. part \in Seq(Names) /\ Neighbor \in Names
      BY <1>2, <1>4
    <2>3. /\ cycle' \in Seq(Names) /\ Len(cycle') = Len(part) + 1
          /\ cycle'[Len(part) + 1] = Neighbor
          /\ \A j \in 1 .. Len(part) : cycle'[j] = part[j]
      BY <2>1, <2>2, AppendFacts
    <2> HIDE DEF k
    <2>. QED
      BY <1>4, <2>3
  <1>6. ResolverTypes'
    <2>1. path' \in Seq(Names) /\ visited' \in Seq(Nat) /\ Len(visited') = Len(path')
      BY <1>1
    <2>2. cycle' \in Seq(Names) /\ verdict' \in Verdicts /\ phase' \in {"idle", "search", "sort"}
      BY <1>1, <1>5 DEF Verdicts
    <2>3. UNCHANGED <<nodes, deps, color, queue, inDegree, order>> /\ ResolverTypes
      BY <1>1 DEF ResolverInv
    <2>. QED
      BY <2>1, <2>2, <2>3 DEF ResolverTypes, Colors, Verdicts
  <1>7. Missing(nodes, deps)' = {} /\ verdict' # "missing"
    BY <1>1 DEF ResolverInv, Handover, Missing
  <1>8. Handover'
    BY <1>1, <1>7 DEF Handover
  <1>9. OrderIsStartable'
    BY <1>1 DEF ResolverInv, OrderIsStartable, CanStart
  <1>10. CircularPathIsACycle'
    <2>1. Len(cycle') > 1 /\ cycle'[1] = Last(cycle')
      BY <1>2, <1>3, <1>4, <1>5 DEF Last
    <2>2. ASSUME NEW j \in 1 .. Len(cycle') - 1 PROVE cycle'[j + 1] \in ToSet(deps[cycle'[j]])
      <3>1. j \in 1 .. k /\ cycle'[j] = path[i + j - 1]
        BY <1>4, <1>5
      <3>2. CASE j < k
        <4>1. /\ i + j - 1 \in 1 .. Len(path) - 1 /\ j + 1 \in 1 .. k
              /\ i + (j + 1) - 1 = (i + j - 1) + 1
          BY <1>2, <1>4, <3>1, <3>2
        <4>2. cycle'[j + 1] = path[(i + j - 1) + 1]
          BY <1>5, <4>1
        <4>. QED
          BY <1>2, <3>1, <4>1, <4>2 DEF Path, DependsOn
      <3>3. CASE j = k
        BY <1>2, <1>5, <3>1, <3>3 DEF DependsOn
      <3>. QED
        BY <1>4, <3>1, <3>2, <3>3
    <2>3. IsInjective(Front(cycle'))
      <3>1. Front(cycle') = SubSeq(cycle', 1, k)
        BY <1>4, <1>5 DEF Front
      <3>2. /\ DOMAIN Front(cycle') = 1 .. k
            /\ \A j \in 1 .. k : Front(cycle')[j] = path[i + j - 1]
        BY <1>4, <1>5, <3>1
      <3> SUFFICES ASSUME NEW j \in 1 .. k, NEW h \in 1 .. k,
                          path[i + j - 1] = path[i + h - 1]
                   PROVE  j = h
        BY <3>2 DEF IsInjective
      <3>3. i + j - 1 \in 1 .. Len(path) /\ i + h - 1 \in 1 .. Len(path)
        BY <1>2
      <3>4. i + j - 1 = i + h - 1
        BY <1>2, <3>3 DEF Path, IsInjective
      <3>. QED
        BY <1>4, <3>4
    <2>4. \A j \in 1 .. Len(cycle') - 1 : DependsOn(cycle[j], cycle[j + 1])'
      BY <1>1, <2>2 DEF DependsOn
    <2>. QED
      BY <2>1, <2>3, <2>4, Zenon DEF CircularPathIsACycle, Front
  <1>11. Cyclic'
    <2> DEFINE S == {path[j] : j \in i .. Len(path)}
    <2>1. S \in SUBSET ToSet(nodes) /\ S # {}
      <3>1. S \subseteq ToSet(path)
        BY <1>2 DEF ToSet
      <3>2. path[i] \in S
        BY <1>2
      <3>. QED
        BY <1>2, <3>1, <3>2 DEF Path
    <2>2. ASSUME NEW j \in i .. Len(path) PROVE \E m \in S : DependsOn(path[j], m)
      <3>1. CASE j < Len(path)
        <4>1. j \in 1 .. Len(path) - 1 /\ path[j + 1] \in S
          BY <1>2, <3>1
        <4>. QED
          BY <1>2, <4>1 DEF Path
      <3>2. CASE j = Len(path)
        <4>1. path[i] \in S
          BY <1>2
        <4>. QED
          BY <1>2, <1>3, <3>2, <4>1
      <3>. QED
        BY <1>2, <3>1, <3>2
    <2>3. \A n \in S : \E m \in S : DependsOn(n, m)
      BY <2>2
    <2> HIDE DEF S
    <2>4. Cyclic
      BY <2>1, <2>3, Zenon DEF Cyclic
    <2>. QED
      BY <1>1, <2>4 DEF Cyclic, DependsOn
  <1>12. VerdictIsRight'
    BY <1>1, <1>7, <1>11, Zenon DEF VerdictIsRight
  <1>. QED
    BY <1>1, <1>6, <1>8, <1>9, <1>10, <1>12 DEF ResolverInv

\* A node is left when all it depends on is black, so no cycle goes through it.
LEMMA ReturnStep == ASSUME ResolverInv, Return PROVE ResolverInv'
  <1>1. /\ phase = "search" /\ path # <<>> /\ Last(visited) = Len(deps[Current])
        /\ color' = [color EXCEPT ![Current] = "black"]
        /\ path' = Front(path) /\ visited' = Front(visited)
        /\ UNCHANGED <<nodes, deps, phase, queue, inDegree, order, cycle, verdict>>
    BY DEF Return, Returning
  <1>2. /\ path \in Seq(Names) /\ visited \in Seq(Nat) /\ color \in [Names -> Colors]
        /\ Len(path) \in Nat /\ Len(path) > 0 /\ Len(visited) = Len(path)
        /\ DOMAIN path = 1 .. Len(path) /\ Path /\ Colored
        /\ Current \in Names /\ Current = path[Len(path)] /\ color[Current] = "gray"
    BY <1>1, OpenCall DEF ResolverInv, ResolverTypes
  <1>3. /\ path' \in Seq(Names) /\ Len(path') = Len(path) - 1
        /\ DOMAIN path' = 1 .. Len(path) - 1
        /\ \A i \in 1 .. Len(path) - 1 : path'[i] = path[i]
    BY <1>1, <1>2 DEF Front
  <1>4. /\ visited' \in Seq(Nat) /\ Len(visited') = Len(path) - 1
        /\ \A i \in 1 .. Len(path) - 1 : visited'[i] = visited[i]
    BY <1>1, <1>2 DEF Front
  <1>5. /\ \A n \in Names : color'[n] = IF n = Current THEN "black" ELSE color[n]
        /\ color' \in [Names -> Colors]
    BY <1>1, <1>2 DEF Colors
  <1>6. ResolverTypes'
    BY <1>1, <1>3, <1>4, <1>5 DEF ResolverInv, ResolverTypes, Colors, Verdicts
  <1>7. IsInjective(path') /\ ToSet(path') = ToSet(path) \ {Current}
    <2>1. IsInjective(path')
      <3> SUFFICES ASSUME NEW i \in 1 .. Len(path) - 1, NEW j \in 1 .. Len(path) - 1,
                          path'[i] = path'[j]
                   PROVE  i = j
        BY <1>3 DEF IsInjective
      <3>1. i \in DOMAIN path /\ j \in DOMAIN path /\ path[i] = path[j]
        BY <1>2, <1>3
      <3>. QED
        BY <1>2, <3>1 DEF Path, IsInjective
    <2>2. ToSet(path') \subseteq ToSet(path) \ {Current}
      <3> SUFFICES ASSUME NEW i \in 1 .. Len(path) - 1
                   PROVE  path'[i] \in ToSet(path) /\ path'[i] # Current
        BY <1>3 DEF ToSet
      <3>1. i \in DOMAIN path /\ Len(path) \in DOMAIN path /\ i # Len(path)
        BY <1>2
      <3>. QED
        BY <1>2, <1>3, <3>1 DEF Path, IsInjective, ToSet
    <2>3. ToSet(path) \ {Current} \subseteq ToSet(path')
      <3> SUFFICES ASSUME NEW i \in 1 .. Len(path), path[i] # Current
                   PROVE  path[i] \in ToSet(path')
        BY <1>2 DEF ToSet
      <3>1. i \in 1 .. Len(path) - 1
        BY <1>2
      <3>. QED
        BY <1>3, <3>1 DEF ToSet
    <2>. QED
      BY <2>1, <2>2, <2>3
  <1>8. Path'
    <2>1. IsInjective(path') /\ ToSet(path') \subseteq ToSet(nodes')
      BY <1>1, <1>2, <1>7 DEF Path
    <2>2. ASSUME NEW i \in 1 .. Len(path') - 1 PROVE path'[i + 1] \in ToSet(deps'[path'[i]])
      <3>1. i \in 1 .. Len(path) - 1 /\ i + 1 \in 1 .. Len(path) - 1
        BY <1>2, <1>3
      <3>. QED
        BY <1>1, <1>2, <1>3, <3>1 DEF Path, DependsOn
    <2>3. ASSUME NEW i \in 1 .. Len(path) - 1, NEW k \in 1 .. visited'[i]
          PROVE  /\ k <= Len(deps[path'[i]])
                 /\ \/ color'[deps[path'[i]][k]] = "black"
                    \/ i < Len(path') /\ deps[path'[i]][k] = path'[i + 1]
      <3>1. /\ i \in 1 .. Len(path) /\ path'[i] = path[i] /\ visited'[i] = visited[i]
            /\ visited[i] \in Nat /\ path[i] \in Names /\ deps[path[i]] \in Seq(Names)
        <4>0. i \in 1 .. Len(path)
          BY <1>2
        <4>1. i \in 1 .. Len(path) /\ path'[i] = path[i] /\ visited'[i] = visited[i]
          BY <1>3, <1>4, <4>0
        <4>2. visited[i] \in Nat /\ path[i] \in Names
          BY <1>2, <4>1
        <4>3. deps[path[i]] \in Seq(Names)
          BY <4>2 DEF ResolverInv, ResolverTypes
        <4>. QED
          BY <4>1, <4>2, <4>3
      <3>2. /\ k <= Len(deps[path[i]])
            /\ color[deps[path[i]][k]] = "black" \/ deps[path[i]][k] = path[i + 1]
        BY <1>2, <3>1 DEF Path
      <3>3. deps[path[i]][k] \in Names
        BY <3>1, <3>2
      <3>4. CASE i = Len(path) - 1
        BY <1>2, <1>5, <3>1, <3>2, <3>3, <3>4
      <3>5. CASE i < Len(path) - 1
        <4>1. i < Len(path') /\ path'[i + 1] = path[i + 1]
          BY <1>2, <1>3, <3>5
        <4>. QED
          BY <1>5, <3>1, <3>2, <3>3, <4>1
      <3>. QED
        BY <1>2, <3>4, <3>5
    <2>4. \A i \in 1 .. Len(path') - 1 : DependsOn(path[i], path[i + 1])'
      BY <2>2 DEF DependsOn
    <2>5. \A i \in DOMAIN path' : \A k \in 1 .. visited'[i] :
            /\ k <= Len(deps'[path'[i]])
            /\ \/ color'[deps'[path'[i]][k]] = "black"
               \/ i < Len(path') /\ deps'[path'[i]][k] = path'[i + 1]
      <3>1. deps' = deps /\ DOMAIN path' = 1 .. Len(path) - 1
        BY <1>1, <1>3
      <3>. QED
        BY <2>3, <3>1, Zenon
    <2>. QED
      BY <2>1, <2>4, <2>5 DEF Path, DependsOn
  <1>9. \A m \in Names : DependsOn(Current, m) => color[m] = "black"
    <2> SUFFICES ASSUME NEW k \in DOMAIN deps[Current] PROVE color[deps[Current][k]] = "black"
      BY Zenon DEF DependsOn, ToSet
    <2>1. k \in 1 .. visited[Len(path)] /\ Len(path) \in DOMAIN path
      BY <1>1, <1>2, OpenCall DEF Last
    <2>2. color[deps[path[Len(path)]][k]] = "black" \/ Len(path) < Len(path)
      BY <1>2, <2>1 DEF Path
    <2>. QED
      BY <1>2, <2>2
  <1>10. Colored'
    <2>1. \A n \in Names : color'[n] = "gray" <=> n \in ToSet(path')
      BY <1>2, <1>5, <1>7 DEF Colored
    <2>2. ASSUME NEW n \in Names, NEW m \in Names, color'[n] = "black", DependsOn(n, m)
          PROVE  color'[m] = "black" /\ color[m] = "black"
      BY <1>2, <1>5, <1>9, <2>2 DEF Colored
    <2>3. ASSUME NEW S \in SUBSET {n \in Names : color'[n] = "black"}, S # {},
                 \A n \in S : \E m \in S : DependsOn(n, m)
          PROVE  FALSE
      <3> DEFINE T == S \ {Current}
      <3>1. T \in SUBSET {n \in Names : color[n] = "black"}
        BY <1>5
      <3>2. \A n \in S : \E m \in T : DependsOn(n, m)
        BY <1>2, <2>2, <2>3
      <3>. QED
        BY <1>2, <2>3, <3>1, <3>2 DEF Colored
    <2>4. \A S \in SUBSET {n \in Names : color'[n] = "black"} :
            S # {} => \E n \in S : \A m \in S : ~DependsOn(n, m)
      BY <2>3, Zenon
    <2>. QED
      BY <1>1, <2>1, <2>2, <2>4 DEF Colored, DependsOn
  <1>. QED
    BY <1>1, <1>6, <1>8, <1>10, SearchGoesOn

-----------------------------------------------------------------------------
(* Kahn's algorithm.                                                       *)

LEMMA DoneFacts ==
  ASSUME ResolverTypes, NEW n \in Names
  PROVE  /\ IsFiniteSet(Done(n)) /\ Cardinality(Done(n)) \in Nat
         /\ Done(n) \subseteq ToSet(deps[n]) /\ Done(n) \subseteq ToSet(order)
         /\ deps[n] \in Seq(Names) /\ Len(deps[n]) \in Nat
  <1>1. Done(n) \subseteq ToSet(deps[n]) /\ Done(n) \subseteq ToSet(order)
    BY DEF Done, DependsOn
  <1>2. deps[n] \in Seq(Names) /\ Len(deps[n]) \in Nat
    BY DEF ResolverTypes
  <1>3. IsFiniteSet(ToSet(deps[n]))
    BY <1>2, SizeFacts
  <1>. QED
    BY <1>1, <1>2, <1>3, FS_Subset, FS_CardinalityType

\* Whatever is queued or in the order has all it depends on in the order: its list
\* would be longer than its dependencies in the order are many.
LEMMA QueuedIsFree ==
  ASSUME ResolverTypes, Sorting, NEW n \in ToSet(queue) \union ToSet(order)
  PROVE  ToSet(deps[n]) \subseteq ToSet(order)
  <1>1. n \in ToSet(nodes) /\ n \in Names
    <2>1. n \in ToSet(nodes) /\ nodes \in Seq(Names)
      BY DEF Sorting, ResolverTypes
    <2>. QED
      BY <2>1, ElementFacts
  <1>2. inDegree[n] \in Int /\ inDegree[n] = 0 /\ inDegree[n] + Cardinality(Done(n)) = Len(deps[n])
    BY <1>1 DEF Sorting, ResolverTypes
  <1>3. /\ IsFiniteSet(ToSet(deps[n])) /\ Cardinality(ToSet(deps[n])) \in Nat
        /\ Cardinality(ToSet(deps[n])) <= Len(deps[n])
    BY <1>1, DoneFacts, SizeFacts
  <1>4. Cardinality(Done(n)) <= Cardinality(ToSet(deps[n]))
    BY <1>1, <1>3, DoneFacts, FS_Subset
  <1>5. Cardinality(ToSet(deps[n])) = Cardinality(Done(n))
    BY <1>1, <1>2, <1>3, <1>4, DoneFacts
  <1>6. ToSet(deps[n]) = Done(n)
    BY <1>1, <1>3, <1>5, DoneFacts, FS_Subset
  <1>. QED
    BY <1>1, <1>6, DoneFacts

\* The search has painted every node black, so there is no cycle.
LEMMA StartSortStep == ASSUME ResolverInv, StartSort PROVE ResolverInv'
  <1>1. /\ phase = "search" /\ path = <<>> /\ phase' = "sort" /\ order = <<>>
        /\ inDegree' = [n \in Names |-> Len(deps[n])]
        /\ UNCHANGED <<nodes, deps, color, path, visited, order, cycle, verdict>>
    BY DEF StartSort, InDegrees, ResolverInv, Handover
  <1>2. /\ nodes \in Seq(Names) /\ ToSet(nodes) \subseteq Names /\ deps \in [Names -> Seq(Names)]
        /\ color \in [Names -> Colors] /\ IsFiniteSet(ToSet(nodes))
    BY ElementFacts, SizeFacts DEF ResolverInv, ResolverTypes
  <1> DEFINE free == {n \in ToSet(nodes) : deps[n] = <<>>}
  <1>3. queue' \in Seq(Names) /\ IsInjective(queue') /\ ToSet(queue') = free
    <2>1. queue' \in Listed(free, nodes)
      BY DEF StartSort
    <2>2. IsFiniteSet(free) /\ free \subseteq Names
      BY <1>2, FS_Subset
    <2> HIDE DEF free
    <2>3. queue' \in Seq(free) /\ IsInjective(queue') /\ ToSet(queue') = free
      BY <2>1, <2>2, ListedFacts
    <2>. QED
      BY <2>2, <2>3
  <1>4. \A n \in Names : Len(deps[n]) \in Nat /\ (Len(deps[n]) = 0 <=> deps[n] = <<>>)
    BY <1>2
  <1>5. ResolverTypes'
    BY <1>1, <1>3, <1>4 DEF ResolverInv, ResolverTypes, Colors, Verdicts
  <1>6. Sorting'
    <2>1. ToSet(order') = {} /\ order' = <<>>
      BY <1>1 DEF ToSet
    <2>2. ASSUME NEW n \in ToSet(nodes')
          PROVE  /\ inDegree'[n] + Cardinality(Done(n)') = Len(deps'[n])
                 /\ inDegree'[n] = 0 <=> n \in ToSet(queue') \union ToSet(order')
      <3>1. n \in Names /\ n \in ToSet(nodes) /\ inDegree'[n] = Len(deps[n]) /\ deps' = deps
        BY <1>1, <1>2
      <3>2. Done(n)' = {}
        BY <2>1 DEF Done
      <3>3. Cardinality(Done(n)') = 0
        BY <3>2, FS_EmptySet
      <3>. QED
        BY <1>3, <1>4, <2>1, <3>1, <3>3
    <2>. QED
      BY <1>1, <1>3, <2>1, <2>2 DEF Sorting
  <1>7. ~Cyclic
    <2> SUFFICES ASSUME NEW S \in (SUBSET ToSet(nodes)) \ {{}},
                        \A n \in S : \E m \in S : DependsOn(n, m)
                 PROVE  FALSE
      BY Zenon DEF Cyclic
    <2>1. \A n \in ToSet(nodes) : color[n] = "black"
      <3>1. ToSet(path) = {}
        BY <1>1 DEF ToSet
      <3>. QED
        BY <1>1, <1>2, <3>1 DEF StartSort, ResolverInv, Colored, Colors
    <2>2. S \in SUBSET {n \in Names : color[n] = "black"} /\ S # {}
      BY <1>2, <2>1
    <2>. QED
      BY <1>1, <2>2 DEF ResolverInv, Colored
  <1>8. Handover' /\ verdict' = "none"
    BY <1>1 DEF ResolverInv, Handover, Missing
  <1>9. OrderIsStartable' /\ CircularPathIsACycle'
    BY <1>1 DEF ResolverInv, OrderIsStartable, CircularPathIsACycle, CanStart, DependsOn
  <1>10. ~Cyclic'
    BY <1>1, <1>7 DEF Cyclic, DependsOn
  <1>11. VerdictIsRight'
    BY <1>8, <1>10, Zenon DEF VerdictIsRight
  <1>. QED
    BY <1>1, <1>5, <1>6, <1>8, <1>9, <1>11 DEF ResolverInv

\* A node that goes from the queue to the order was free to, and each dependent
\* that it leaves free is queued, for the first time.
LEMMA TakeNodeStep == ASSUME ResolverInv, TakeNode PROVE ResolverInv'
  <1> DEFINE n == Head(queue)
             next == {m \in Dependents(n) : inDegree[m] = 1}
  <1>1. /\ phase = "sort" /\ queue # <<>> /\ order' = Append(order, n)
        /\ inDegree' = [m \in Names |-> IF m \in Dependents(n) THEN inDegree[m] - 1
                                                              ELSE inDegree[m]]
        /\ UNCHANGED <<nodes, deps, phase, color, path, visited, cycle, verdict>>
    BY DEF TakeNode
  <1>2. PICK free \in Listed(next, Sorted) : queue' = Tail(queue) \o free
    BY DEF TakeNode
  <1>3. /\ ResolverTypes /\ Sorting /\ OrderIsStartable /\ VerdictIsRight
        /\ nodes \in Seq(Names) /\ ToSet(nodes) \subseteq Names /\ IsFiniteSet(ToSet(nodes))
        /\ queue \in Seq(Names) /\ order \in Seq(Names) /\ inDegree \in [Names -> Int]
    BY <1>1, ElementFacts, SizeFacts DEF ResolverInv, ResolverTypes
  <1>4. /\ n \in Names /\ Tail(queue) \in Seq(Names)
        /\ ToSet(queue) = {n} \union ToSet(Tail(queue))
        /\ IsInjective(Tail(queue)) /\ n \notin ToSet(Tail(queue))
    BY <1>1, <1>3, PopFacts DEF Sorting
  <1>5. free \in Seq(Names) /\ IsInjective(free) /\ ToSet(free) = next
    <2>1. next \subseteq ToSet(nodes)
      BY DEF Dependents
    <2>2. IsFiniteSet(next)
      BY <1>3, <2>1, FS_Subset
    <2> HIDE DEF next
    <2>3. free \in Seq(next) /\ IsInjective(free) /\ ToSet(free) = next
      BY <1>2, <2>2, ListedFacts
    <2>4. next \subseteq Names
      BY <1>3, <2>1
    <2>. QED
      BY <2>3, <2>4
  <1>6. /\ n \in ToSet(nodes) /\ n \notin ToSet(order) /\ ToSet(deps[n]) \subseteq ToSet(order)
        /\ \A m \in ToSet(queue) \union ToSet(order) : m \notin Dependents(n)
    <2>1. n \in ToSet(queue) /\ n \in ToSet(nodes) /\ n \notin ToSet(order)
      BY <1>3, <1>4 DEF Sorting
    <2>2. \A m \in ToSet(queue) \union ToSet(order) : ToSet(deps[m]) \subseteq ToSet(order)
      BY <1>3, QueuedIsFree
    <2>. QED
      BY <2>1, <2>2 DEF Dependents, DependsOn
  <1>7. /\ order' \in Seq(Names) /\ ToSet(order') = ToSet(order) \union {n}
        /\ IsInjective(order')
    <2>1. IsInjective(order)
      BY <1>3 DEF OrderIsStartable
    <2> HIDE DEF n
    <2>. QED
      BY <1>1, <1>3, <1>4, <1>6, <2>1, PushFacts
  <1>8. \A m \in next : m \in ToSet(nodes) /\ m \notin ToSet(queue) \union ToSet(order)
    BY <1>3 DEF Dependents, Sorting
  <1>9. /\ queue' \in Seq(Names) /\ ToSet(queue') = ToSet(Tail(queue)) \union next
        /\ IsInjective(queue')
    <2>1. ToSet(Tail(queue)) \intersect ToSet(free) = {}
      BY <1>4, <1>5, <1>8
    <2> DEFINE rest == Tail(queue)
    <2>2. /\ rest \in Seq(Names) /\ IsInjective(rest)
          /\ ToSet(rest) \intersect ToSet(free) = {}
      BY <1>4, <2>1
    <2>3. queue' = rest \o free
      BY <1>2
    <2> HIDE DEF next, rest
    <2>4. /\ rest \o free \in Seq(Names) /\ ToSet(rest \o free) = ToSet(rest) \union ToSet(free)
          /\ IsInjective(rest \o free)
      BY <1>5, <2>2, ConcatFacts
    <2>. QED
      BY <1>5, <2>3, <2>4 DEF rest
  <1>10. \A m \in Names : inDegree'[m] = IF m \in Dependents(n) THEN inDegree[m] - 1
                                                               ELSE inDegree[m]
    BY <1>1
  <1>11. ResolverTypes'
    <2>1. inDegree' \in [Names -> Int]
      BY <1>1, <1>3
    <2>. QED
      BY <1>1, <1>3, <1>7, <1>9, <2>1 DEF ResolverTypes, Colors, Verdicts
  <1>12. Sorting'
    <2>1. ToSet(queue') \union ToSet(order') \subseteq ToSet(nodes')
      BY <1>1, <1>3, <1>4, <1>6, <1>7, <1>8, <1>9 DEF Sorting
    <2>2. ToSet(queue') \intersect ToSet(order') = {}
      BY <1>3, <1>4, <1>6, <1>7, <1>8, <1>9 DEF Sorting
    <2>3. ASSUME NEW m \in ToSet(nodes)
          PROVE  /\ inDegree'[m] + Cardinality(Done(m)') = Len(deps'[m])
                 /\ inDegree'[m] = 0 <=> m \in ToSet(queue') \union ToSet(order')
      <3>1. /\ m \in Names /\ deps' = deps /\ inDegree[m] \in Int
            /\ inDegree[m] + Cardinality(Done(m)) = Len(deps[m])
            /\ inDegree[m] = 0 <=> m \in ToSet(queue) \union ToSet(order)
            /\ IsFiniteSet(Done(m)) /\ Cardinality(Done(m)) \in Nat
        BY <1>1, <1>3, DoneFacts DEF Sorting
      <3>2. CASE m \in Dependents(n)
        <4>1. Done(m)' = Done(m) \union {n} /\ n \notin Done(m)
          BY <1>6, <1>7, <3>1, <3>2 DEF Done, Dependents, DependsOn
        <4>2. Cardinality(Done(m)') = Cardinality(Done(m)) + 1
          BY <3>1, <4>1, FS_AddElement
        <4>3. inDegree'[m] = inDegree[m] - 1 /\ m \notin ToSet(queue) \union ToSet(order)
          BY <1>6, <1>10, <3>1, <3>2
        <4>4. m \in ToSet(queue') \union ToSet(order') <=> inDegree[m] = 1
          BY <1>4, <1>7, <1>9, <3>2, <4>3
        <4>. QED
          BY <3>1, <4>2, <4>3, <4>4
      <3>3. CASE m \notin Dependents(n)
        <4>1. Done(m)' = Done(m)
          BY <1>7, <3>1, <3>3 DEF Done, Dependents, DependsOn
        <4>2. inDegree'[m] = inDegree[m]
          BY <1>10, <3>1, <3>3
        <4>3. m \in ToSet(queue') \union ToSet(order') <=> m \in ToSet(queue) \union ToSet(order)
          BY <1>4, <1>7, <1>9, <3>3
        <4>. QED
          BY <3>1, <4>1, <4>2, <4>3
      <3>. QED
        BY <3>2, <3>3
    <2>. QED
      BY <1>1, <1>9, <2>1, <2>2, <2>3 DEF Sorting
  <1>13. OrderIsStartable'
    <2>1. /\ Len(order) \in Nat /\ DOMAIN order = 1 .. Len(order)
          /\ DOMAIN order' = 1 .. Len(order) + 1 /\ order'[Len(order) + 1] = n
          /\ \A i \in 1 .. Len(order) : order'[i] = order[i]
      BY <1>1, <1>3, <1>4
    <2>2. \A i \in 1 .. Len(order) + 1 : SubSeq(order', 1, i - 1) = SubSeq(order, 1, i - 1)
      <3> SUFFICES ASSUME NEW i \in 1 .. Len(order) + 1
                   PROVE  SubSeq(order', 1, i - 1) = SubSeq(order, 1, i - 1)
        OBVIOUS
      <3>1. /\ i - 1 \in Nat /\ i - 1 <= Len(order) /\ i - 1 <= Len(order')
            /\ \A j \in 1 .. i - 1 : order'[j] = order[j]
        BY <1>3, <1>7, <2>1
      <3>2. /\ SubSeq(order', 1, i - 1) \in Seq(Names) /\ SubSeq(order, 1, i - 1) \in Seq(Names)
            /\ Len(SubSeq(order', 1, i - 1)) = i - 1 /\ Len(SubSeq(order, 1, i - 1)) = i - 1
            /\ \A j \in 1 .. i - 1 : /\ SubSeq(order', 1, i - 1)[j] = order'[j]
                                     /\ SubSeq(order, 1, i - 1)[j] = order[j]
        BY <1>3, <1>7, <3>1
      <3>. QED
        BY <3>1, <3>2, SeqEqual
    <2>3. ASSUME NEW i \in 1 .. Len(order) + 1
          PROVE  /\ order'[i] \in ToSet(nodes)
                 /\ ToSet(deps[order'[i]]) \subseteq ToSet(SubSeq(order, 1, i - 1))
      <3>1. CASE i \in 1 .. Len(order)
        BY <1>3, <2>1, <3>1 DEF OrderIsStartable, CanStart
      <3>2. CASE i = Len(order) + 1
        <4>1. SubSeq(order, 1, i - 1) = order
          BY <1>3, <2>1, <3>2
        <4>. QED
          BY <1>6, <2>1, <3>2, <4>1
      <3>. QED
        BY <2>1, <3>1, <3>2
    <2>. QED
      BY <1>1, <1>7, <2>1, <2>2, <2>3 DEF OrderIsStartable, CanStart
  <1>14. Handover' /\ CircularPathIsACycle' /\ verdict' = "none" /\ phase' = "sort"
    BY <1>1 DEF ResolverInv, Handover, CircularPathIsACycle, Missing, DependsOn
  <1>15. ~Cyclic'
    <2>1. ~Cyclic
      BY <1>1, <1>3, Zenon DEF VerdictIsRight
    <2>. QED
      BY <1>1, <2>1 DEF Cyclic, DependsOn
  <1>16. VerdictIsRight'
    BY <1>14, <1>15, Zenon DEF VerdictIsRight
  <1>. QED
    BY <1>11, <1>12, <1>13, <1>14, <1>16 DEF ResolverInv

\* What the sort leaves out, when there is no cycle, has a list that repeats a name:
\* some node left out depends on none of these, and its degree would be zero.
LEMMA LeftOutRepeats ==
  ASSUME ResolverInv, phase = "sort", queue = <<>>, ToSet(order) # ToSet(nodes)
  PROVE  Repeats
  <1> SUFFICES ASSUME ~Repeats PROVE FALSE
    OBVIOUS
  <1> DEFINE left == ToSet(nodes) \ ToSet(order)
  <1>1. /\ ResolverTypes /\ Sorting /\ ~Cyclic /\ Missing(nodes, deps) = {}
        /\ ToSet(nodes) \subseteq Names /\ ToSet(queue) = {}
    BY ElementFacts DEF ResolverInv, ResolverTypes, Handover, VerdictIsRight, ToSet
  <1>2. left \in (SUBSET ToSet(nodes)) \ {{}}
    BY <1>1 DEF Sorting
  <1>3. PICK n \in left : \A m \in left : ~DependsOn(n, m)
    <2> HIDE DEF left
    <2>. QED
      BY <1>1, <1>2, Zenon DEF Cyclic
  <1>4. n \in Names /\ n \in ToSet(nodes) /\ n \notin ToSet(order)
    BY <1>1, <1>3
  <1>5. ToSet(deps[n]) \subseteq ToSet(order)
    <2> SUFFICES ASSUME NEW m \in ToSet(deps[n]) PROVE m \in ToSet(order)
      OBVIOUS
    <2>1. DependsOn(n, m)
      BY DEF DependsOn
    <2>2. m \in ToSet(nodes)
      BY <1>1, <1>4, <2>1, NoneMissing
    <2>. QED
      BY <1>3, <2>1, <2>2
  <1>6. Done(n) = ToSet(deps[n])
    BY <1>5 DEF Done, DependsOn
  <1>7. Cardinality(ToSet(deps[n])) = Len(deps[n])
    <2>1. deps[n] \in Seq(Names) /\ IsInjective(deps[n])
      BY <1>1, <1>4, DoneFacts DEF Repeats
    <2>. QED
      BY <2>1, SizeFacts
  <1>8. /\ inDegree[n] + Cardinality(Done(n)) = Len(deps[n]) /\ inDegree[n] \in Int
        /\ Len(deps[n]) \in Nat
        /\ inDegree[n] = 0 <=> n \in ToSet(queue) \union ToSet(order)
    BY <1>1, <1>4, DoneFacts DEF Sorting, ResolverTypes
  <1>. QED
    BY <1>1, <1>4, <1>6, <1>7, <1>8

LEMMA EndSortStep == ASSUME ResolverInv, EndSort PROVE ResolverInv'
  <1>1. /\ phase = "sort" /\ queue = <<>> /\ phase' = "idle"
        /\ UNCHANGED <<nodes, deps, color, path, visited, queue, inDegree, cycle>>
        /\ \/ Len(order) = Len(nodes) /\ verdict' = "success" /\ order' = order
           \/ Len(order) # Len(nodes) /\ verdict' = "incomplete" /\ order' = <<>>
    BY DEF EndSort
  <1>2. /\ ResolverTypes /\ Sorting /\ OrderIsStartable /\ VerdictIsRight
        /\ IsInjective(nodes) /\ IsInjective(order)
        /\ nodes \in Seq(Names) /\ order \in Seq(Names)
        /\ Missing(nodes, deps) = {} /\ ~Cyclic /\ cycle = <<>> /\ path = <<>>
    BY <1>1 DEF ResolverInv, ResolverTypes, Handover, OrderIsStartable, VerdictIsRight
  <1>3. ToSet(order) = ToSet(nodes) <=> Len(order) = Len(nodes)
    <2>1. /\ ToSet(order) \subseteq ToSet(nodes) /\ IsFiniteSet(ToSet(nodes))
          /\ Cardinality(ToSet(order)) = Len(order)
          /\ Cardinality(ToSet(nodes)) = Len(nodes)
      BY <1>2, SizeFacts DEF Sorting
    <2>. QED
      BY <2>1, FS_Subset
  <1>4. verdict' = "incomplete" => Repeats
    BY <1>1, <1>3, LeftOutRepeats
  <1>5. ResolverTypes'
    BY <1>1 DEF ResolverInv, ResolverTypes, Colors, Verdicts
  <1>6. UNCHANGED <<Missing(nodes, deps), Cyclic, Repeats>>
    BY <1>1 DEF Missing, Cyclic, Repeats, DependsOn
  <1>7. Handover' /\ CircularPathIsACycle'
    BY <1>1, <1>2, <1>6 DEF Handover, CircularPathIsACycle
  <1>8. OrderIsStartable'
    BY <1>1, <1>2 DEF OrderIsStartable, CanStart, IsInjective
  <1>9. verdict' = "success" => ToSet(order') = ToSet(nodes')
    BY <1>1, <1>3
  <1>10. ~Cyclic' /\ (verdict' = "incomplete" => Repeats') /\ Missing(nodes, deps)' = {}
    BY <1>2, <1>4, <1>6
  <1>11. verdict' \in {"success", "incomplete"} /\ phase' = "idle"
    BY <1>1
  <1>12. VerdictIsRight'
    BY <1>9, <1>10, <1>11, Zenon DEF VerdictIsRight
  <1>. QED
    BY <1>1, <1>5, <1>7, <1>8, <1>12 DEF ResolverInv

LEMMA ResolverStepKeeps == ASSUME ResolverInv, ResolverStep PROVE ResolverInv'
  BY SearchFromStep, DescendStep, PassBlackStep, FindCycleStep, ReturnStep, StartSortStep,
     TakeNodeStep, EndSortStep
  DEF ResolverStep

\* What the manager does meanwhile does not concern the resolver.
LEMMA ResolverUntouched == ASSUME ResolverInv, UNCHANGED resolverVars PROVE ResolverInv'
  <1> USE DEF resolverVars, ResolverInv
  <1>1. ResolverTypes' /\ Handover'
    BY DEF ResolverTypes, Colors, Verdicts, Handover, Missing
  <1>2. phase = "search" => Path' /\ Colored'
    BY DEF Path, Colored, DependsOn
  <1>3. phase = "sort" => Sorting'
    BY DEF Sorting, Done, DependsOn
  <1>4. OrderIsStartable' /\ CircularPathIsACycle'
    BY DEF OrderIsStartable, CanStart, CircularPathIsACycle, DependsOn
  <1>5. VerdictIsRight'
    BY Zenon DEF VerdictIsRight, Missing, Cyclic, Repeats, DependsOn
  <1>. QED
    BY <1>1, <1>2, <1>3, <1>4, <1>5

-----------------------------------------------------------------------------
(* The dependency manager.                                                 *)

\* What was resolved is what was added, and execute_all() goes through the order of
\* a resolution that has succeeded.
ManagerInv ==
  /\ Processes \subseteq Names
  /\ \A n \in Processes : dependencies[n] \in Seq(Names)
  /\ completed \in Nat /\ completed <= Len(order)
  /\ phase # "idle" \/ verdict # "none" =>
       ToSet(nodes) = Processes /\ \A n \in Processes : deps[n] = dependencies[n]
  /\ completed > 0 => verdict = "success"
  /\ phase # "idle" => completed = 0
  /\ phase # "idle" \/ executing => outcome = "none"

IInv == ResolverInv /\ ManagerInv /\ ExecutedInOrder

\* Nothing has been executed.
LEMMA NothingExecuted ==
  executed = <<>> /\ completed = 0 /\ outcome = "none" => ExecutedInOrder
  BY DEF ExecutedInOrder, ToSet

LEMMA StartsWell == Init => IInv
  <1> SUFFICES ASSUME Init PROVE IInv
    OBVIOUS
  <1>1. ResolverInv
    BY NothingResolved DEF Init
  <1>2. ManagerInv
    BY <1>1 DEF Init, ResolverInit, ManagerInv, Processes
  <1>. QED
    BY <1>1, <1>2, NothingExecuted DEF Init, IInv

LEMMA ForgetStepManager ==
  ASSUME Forget, ~executing, UNCHANGED executing, Processes' \subseteq Names,
         \A n \in Processes' : dependencies'[n] \in Seq(Names)
  PROVE  IInv'
  <1> USE DEF Forget
  <1>1. ResolverInv'
    BY ForgetStep
  <1>2. executed' = <<>> /\ completed' = 0 /\ outcome' = "none"
    OBVIOUS
  <1>3. ExecutedInOrder'
    BY <1>2 DEF ExecutedInOrder, ToSet
  <1>4. ManagerInv'
    BY DEF ManagerInv
  <1>. QED
    BY <1>1, <1>3, <1>4 DEF IInv

LEMMA AddStep ==
  ASSUME IInv, NEW n \in Names, NEW list \in Lists, AddProcess(n, list)
  PROVE  IInv'
  <1>1. list \in Seq(Names)
    BY DEF Lists
  <1>2. /\ Forget /\ ~executing /\ UNCHANGED executing
        /\ dependencies' = [m \in Processes \union {n} |->
                              IF m = n THEN list ELSE dependencies[m]]
    BY DEF AddProcess, Idle
  <1>3. Processes' = Processes \union {n}
    BY <1>2 DEF Processes
  <1>4. \A m \in Processes' : dependencies'[m] \in Seq(Names)
    BY <1>1, <1>2, <1>3 DEF IInv, ManagerInv
  <1>5. Processes' \subseteq Names
    BY <1>3 DEF IInv, ManagerInv
  <1>. QED
    BY <1>2, <1>4, <1>5, ForgetStepManager

LEMMA ClearStep == ASSUME IInv, Clear PROVE IInv'
  <1>1. Forget /\ ~executing /\ UNCHANGED executing /\ dependencies' = <<>>
    BY DEF Clear, Idle
  <1>2. Processes' = {}
    BY <1>1 DEF Processes
  <1>. QED
    BY <1>1, <1>2, ForgetStepManager

\* A resolution begins, by itself or for execute_all().
LEMMA BeginStep ==
  ASSUME IInv, ResolveDependencies, completed' = 0, executed' = <<>>, outcome' = "none",
         UNCHANGED dependencies
  PROVE  IInv'
  <1> DEFINE ds == [n \in Names |-> IF n \in Processes THEN dependencies[n] ELSE <<>>]
  <1>1. PICK ns \in SetToSeqs(Processes) : Resolve(ns, ds)
    BY DEF ResolveDependencies
  <1>2. ManagerInv /\ ResolverInv /\ Processes \subseteq Names
    BY DEF IInv, ManagerInv
  <1>3. ns \in Seq(Names) /\ IsInjective(ns) /\ ToSet(ns) = Processes
    <2>1. IsFiniteSet(Processes)
      BY <1>2, ResolverAssumption, FS_Subset
    <2>2. ns \in Seq(Processes) /\ IsInjective(ns) /\ ToSet(ns) = Processes
      BY <2>1, ListingFacts
    <2>. QED
      BY <1>2, <2>2
  <1>4. ds \in [Names -> Seq(Names)]
    BY <1>2 DEF ManagerInv
  <1>5. ResolverInv'
    <2> HIDE DEF ds
    <2>. QED
      BY <1>1, <1>2, <1>3, <1>4, ResolveStep
  <1>6. ExecutedInOrder'
    BY DEF ExecutedInOrder, ToSet
  <1>7. nodes' = ns /\ deps' = ds /\ order' = <<>> /\ Processes' = Processes
    BY <1>1 DEF Resolve, Processes
  <1>8. ManagerInv'
    BY <1>2, <1>3, <1>7 DEF ManagerInv
  <1>. QED
    BY <1>5, <1>6, <1>8 DEF IInv

\* While the resolver works, nothing has been executed.
LEMMA ResolvingStep == ASSUME IInv, ResolverStep, UNCHANGED managerVars PROVE IInv'
  <1>1. phase # "idle" /\ UNCHANGED <<nodes, deps>>
    BY DEF ResolverStep, SearchFrom, Descend, PassBlack, FindCycle, Return, Looking, Returning,
           StartSort, TakeNode, EndSort
  <1>2. ManagerInv /\ ResolverInv /\ ExecutedInOrder /\ ResolverInv'
    BY ResolverStepKeeps DEF IInv
  <1>3. completed = 0 /\ outcome = "none" /\ Len(order) \in Nat /\ Len(order') \in Nat
        /\ UNCHANGED <<dependencies, executing, completed, executed, outcome, Processes>>
    BY <1>1, <1>2 DEF ManagerInv, ResolverInv, ResolverTypes, managerVars, Processes
  <1>4. executed = <<>>
    BY <1>2, <1>3 DEF ExecutedInOrder
  <1>5. ExecutedInOrder'
    BY <1>3, <1>4 DEF ExecutedInOrder, ToSet
  <1>6. ManagerInv'
    BY <1>1, <1>2, <1>3 DEF ManagerInv
  <1>. QED
    BY <1>2, <1>5, <1>6 DEF IInv

\* The steps of execute_all() once the order is there.
LEMMA ExecutingStep ==
  ASSUME IInv, Unresolved \/ ExecuteNext \/ AllExecuted
  PROVE  IInv'
  <1>1. /\ executing /\ phase = "idle" /\ UNCHANGED <<resolverVars, dependencies>>
        /\ UNCHANGED <<nodes, deps, phase, order, verdict, Processes>>
    BY DEF Unresolved, ExecuteNext, AllExecuted, resolverVars, Processes
  <1>2. ManagerInv /\ ResolverInv /\ ExecutedInOrder /\ ResolverInv' /\ outcome = "none"
    BY <1>1, ResolverUntouched DEF IInv, ManagerInv
  <1>3. /\ order \in Seq(Names) /\ Len(order) \in Nat /\ completed \in Nat
        /\ completed <= Len(order) /\ executed = SubSeq(order, 1, completed)
    BY <1>2 DEF ResolverInv, ResolverTypes, ManagerInv, ExecutedInOrder
  <1>4. CASE Unresolved
    <2>1. ManagerInv'
      BY <1>1, <1>2, <1>4 DEF Unresolved, Finish, ManagerInv
    <2>2. ExecutedInOrder'
      BY <1>1, <1>2, <1>4 DEF Unresolved, Finish, ExecutedInOrder
    <2>. QED
      BY <1>2, <2>1, <2>2 DEF IInv
  <1>5. CASE AllExecuted
    <2>1. ManagerInv'
      BY <1>1, <1>2, <1>5 DEF AllExecuted, Finish, ManagerInv
    <2>2. executed = order /\ ToSet(order) = ToSet(nodes) /\ ToSet(nodes) = Processes
      BY <1>2, <1>3, <1>5 DEF AllExecuted, ResolverInv, VerdictIsRight, ManagerInv
    <2>3. ExecutedInOrder'
      BY <1>1, <1>2, <1>5, <2>2 DEF AllExecuted, Finish, ExecutedInOrder
    <2>. QED
      BY <1>2, <2>1, <2>3 DEF IInv
  <1>6. CASE ExecuteNext
    <2> DEFINE n == order[completed + 1]
    <2>1. verdict = "success" /\ completed + 1 \in 1 .. Len(order)
      BY <1>3, <1>6 DEF ExecuteNext
    <2>2. n \in Processes /\ ToSet(dependencies[n]) \subseteq ToSet(SubSeq(order, 1, completed))
      <3>1. CanStart(n, ToSet(SubSeq(order, 1, (completed + 1) - 1)))
        BY <1>2, <1>3, <2>1 DEF ResolverInv, OrderIsStartable
      <3>2. (completed + 1) - 1 = completed
        BY <1>3
      <3>3. n \in ToSet(nodes) /\ ToSet(deps[n]) \subseteq ToSet(SubSeq(order, 1, completed))
        BY <3>1, <3>2 DEF CanStart
      <3>. QED
        BY <1>2, <2>1, <3>3 DEF ManagerInv
    <2>3. IsReady(n, ToSet(SubSeq(order, 1, completed)))
      BY <2>2 DEF IsReady
    <2>4. \/ /\ completed' = completed + 1 /\ executed' = Append(executed, n)
             /\ UNCHANGED <<executing, outcome>>
          \/ executing' = FALSE /\ outcome' = "failed" /\ UNCHANGED <<completed, executed>>
      BY <1>6, <2>2, <2>3 DEF ExecuteNext, Finish
    <2>5. ManagerInv'
      <3>1. completed' \in Nat /\ completed' <= Len(order')
        <4>1. completed' = completed \/ completed' = completed + 1
          BY <2>4
        <4>2. order' = order
          BY <1>1
        <4>. QED
          BY <1>3, <2>1, <4>1, <4>2
      <3>2. verdict' = "success" /\ phase' = "idle" /\ (executing' => outcome' = "none")
        BY <1>1, <1>2, <2>1, <2>4
      <3>3. UNCHANGED <<nodes, deps, dependencies, Processes>>
        BY <1>1
      <3>. QED
        BY <1>2, <2>1, <3>1, <3>2, <3>3 DEF ManagerInv
    <2>6. CASE executing' = FALSE /\ outcome' = "failed" /\ UNCHANGED <<completed, executed>>
      BY <1>1, <1>2, <1>3, <2>1, <2>5, <2>6 DEF IInv, ExecutedInOrder
    <2>7. CASE /\ completed' = completed + 1 /\ executed' = Append(executed, n)
               /\ UNCHANGED <<executing, outcome>>
      <3>1. executed' = SubSeq(order', 1, completed')
        BY <1>1, <1>3, <2>1, <2>7
      <3>2. /\ executed \in Seq(Names) /\ Len(executed) = completed
            /\ DOMAIN executed' = 1 .. completed + 1 /\ executed'[completed + 1] = n
            /\ DOMAIN executed = 1 .. completed
            /\ \A i \in 1 .. completed : executed'[i] = executed[i]
        BY <1>3, <2>1, <2>7
      <3>3. ASSUME NEW i \in 1 .. completed + 1
            PROVE  ToSet(dependencies[executed'[i]]) \subseteq ToSet(SubSeq(executed', 1, i - 1))
        <4>1. SubSeq(executed', 1, i - 1) = SubSeq(executed, 1, i - 1)
          BY <1>3, <2>7, <3>2
        <4>2. CASE i \in 1 .. completed
          BY <1>2, <3>2, <4>1, <4>2 DEF ExecutedInOrder
        <4>3. CASE i = completed + 1
          <5>1. SubSeq(executed, 1, i - 1) = SubSeq(order, 1, completed)
            BY <1>3, <3>2, <4>3
          <5>. QED
            BY <2>2, <3>2, <4>1, <4>3, <5>1
        <4>. QED
          BY <1>3, <4>2, <4>3
      <3>4. ExecutedInOrder'
        BY <1>1, <1>2, <2>7, <3>1, <3>2, <3>3 DEF ExecutedInOrder
      <3>. QED
        BY <1>2, <2>5, <3>4 DEF IInv
    <2>. QED
      BY <2>4, <2>6, <2>7
  <1>. QED
    BY <1>4, <1>5, <1>6

LEMMA EveryStep == IInv /\ [Next]_vars => IInv'
  <1> SUFFICES ASSUME IInv, [Next]_vars PROVE IInv'
    OBVIOUS
  <1>1. CASE UNCHANGED vars
    <2>1. ResolverInv' /\ UNCHANGED managerVars /\ UNCHANGED resolverVars
      BY <1>1, ResolverUntouched DEF vars, IInv
    <2>2. ManagerInv'
      BY <2>1 DEF IInv, ManagerInv, managerVars, resolverVars, Processes
    <2>3. ExecutedInOrder'
      <3>1. UNCHANGED <<order, completed, executed, outcome, dependencies, Processes>>
        BY <2>1 DEF managerVars, resolverVars, Processes
      <3>. QED
        BY <3>1 DEF IInv, ExecutedInOrder
    <2>. QED
      BY <2>1, <2>2, <2>3 DEF IInv
  <1>2. CASE AskOrder \/ ExecuteAll
    BY <1>2, BeginStep DEF AskOrder, ExecuteAll
  <1>3. CASE Proceed
    BY <1>3, ResolvingStep, ExecutingStep DEF Proceed
  <1>. QED
    BY <1>1, <1>2, <1>3, AddStep, ClearStep DEF Next

\* The inductive invariant holds of every run.
THEOREM Invariance == Spec => []IInv
  BY StartsWell, EveryStep, PTL DEF Spec

-----------------------------------------------------------------------------
(* What the resolver and the manager promise.                              *)

\* DependencyResolver::resolve() puts nothing into the order before all that it
\* depends on, and nothing twice: include/launch_cpp/safety/dependency_resolver.hpp.
THEOREM StartableAlways == Spec => []OrderIsStartable
  <1>1. IInv => OrderIsStartable
    BY DEF IInv, ResolverInv
  <1>. QED
    BY <1>1, Invariance, PTL

\* It reports a missing name, a cycle or an order only where there is one, and is at
\* a loss only with a list that repeats a name.
THEOREM VerdictsAreRight == Spec => []VerdictIsRight
  <1>1. IInv => VerdictIsRight
    BY DEF IInv, ResolverInv
  <1>. QED
    BY <1>1, Invariance, PTL

\* get_circular_path() is a cycle and passes no node twice.
THEOREM CyclesAreCycles == Spec => []CircularPathIsACycle
  <1>1. IInv => CircularPathIsACycle
    BY DEF IInv, ResolverInv
  <1>. QED
    BY <1>1, Invariance, PTL

\* DependencyManager::execute_all() executes each process after those it depends on,
\* says success only if it has executed all, and neither of its own two checks ever
\* finds anything: src/dependency_manager.cpp.
THEOREM ExecutedAlwaysInOrder == Spec => []ExecutedInOrder
  <1>1. IInv => ExecutedInOrder
    BY DEF IInv
  <1>. QED
    BY <1>1, Invariance, PTL

=============================================================================
