---------------------------- MODULE NetlistProofs ----------------------------
(***************************************************************************)
(* Theorems about circuit graphs, for all directories, all statements and  *)
(* all limits: what the depth-first visit of _reference_closure leaves is  *)
(* the closure of the top, its refusals are true, and two scopes share     *)
(* exactly the global nets.  The visit terminates in what it must by the   *)
(* invariant of depth-first search: the visited scopes are closed, and the *)
(* running visits are a chain whose pending references lead to what is     *)
(* visited or to the next visit of the chain.                              *)
(***************************************************************************)
EXTENDS Netlist, Foundations

(***************************************************************************)
(* Finite graphs.                                                          *)
(***************************************************************************)

\* The last element of a sequence and what is before it.
LEMMA LastFacts ==
  ASSUME NEW S, NEW q \in Seq(S), q # <<>>
  PROVE  LET n == Len(q)
             front == SubSeq(q, 1, n - 1)
         IN  /\ n \in Nat \ {0} /\ DOMAIN q = 1..n /\ q[n] \in S
             /\ front \in Seq(S) /\ Len(front) = n - 1 /\ DOMAIN front = 1..(n - 1)
             /\ \A i \in 1..(n - 1) : front[i] = q[i]
<1> DEFINE n == Len(q)
<1>1. n \in Nat \ {0} /\ DOMAIN q = 1..n
  OBVIOUS
<1>2. n \in 1..n /\ q[n] \in S
  BY <1>1
<1>3. QED
  BY <1>1, <1>2

\* What can be reached from a vertex that can be reached can be reached.
LEMMA ReachableChain ==
  ASSUME NEW V, IsFiniteSet(V), NEW succ \in [V -> SUBSET V], NEW roots \in SUBSET V,
         NEW more \in SUBSET Reachable(succ, roots)
  PROVE  more \in SUBSET V /\ Reachable(succ, more) \subseteq Reachable(succ, roots)
<1> DEFINE R == Reachable(succ, roots)
<1>1. R \subseteq V /\ \A v \in R : succ[v] \subseteq R
  BY ReachableFacts
<1>2. more \in SUBSET V
  BY <1>1
<1> HIDE DEF R
<1>3. \A T : more \subseteq T /\ (\A v \in T \cap V : succ[v] \subseteq T) => Reachable(succ, more) \subseteq T
  BY <1>2, ReachableFacts
<1>4. more \subseteq R
  BY DEF R
<1>5. Reachable(succ, more) \subseteq R
  BY <1>1, <1>3, <1>4
<1>6. QED
  BY <1>2, <1>5 DEF R

\* Where every vertex has a predecessor, every vertex is reached from a cycle.
LEMMA EndlessAncestry ==
  ASSUME NEW V, IsFiniteSet(V), NEW succ \in [V -> SUBSET V], NEW W \in SUBSET V,
         \A w \in W : \E p \in W : w \in succ[p], NEW s \in W
  PROVE  \E r \in W : r \in Reachable(succ, succ[r]) /\ s \in Reachable(succ, {r})
<1> DEFINE reach(x) == Reachable(succ, {x})
           B == {w \in W : s \in reach(w)}
           n == Cardinality(V)
           T == {n - Cardinality(reach(w)) : w \in B}
<1>1. \A w \in V : w \in reach(w) /\ reach(w) \in SUBSET V /\ succ[w] \subseteq reach(w)
  <2>1. SUFFICES ASSUME NEW w \in V PROVE w \in reach(w) /\ reach(w) \in SUBSET V /\ succ[w] \subseteq reach(w)
    OBVIOUS
  <2>2. {w} \in SUBSET V
    OBVIOUS
  <2>3. QED
    BY <2>2, ReachableFacts
<1>2. \A w \in V : \A x \in reach(w) : reach(x) \subseteq reach(w)
  <2>1. SUFFICES ASSUME NEW w \in V, NEW x \in reach(w) PROVE reach(x) \subseteq reach(w)
    OBVIOUS
  <2>2. {w} \in SUBSET V /\ {x} \in SUBSET Reachable(succ, {w})
    OBVIOUS
  <2>3. QED
    BY <2>2, ReachableChain
<1>3. \A w \in V : Cardinality(reach(w)) \in 0..n /\ IsFiniteSet(reach(w))
  <2>1. SUFFICES ASSUME NEW w \in V PROVE Cardinality(reach(w)) \in 0..n /\ IsFiniteSet(reach(w))
    OBVIOUS
  <2>2. reach(w) \in SUBSET V
    BY <1>1
  <2> HIDE DEF reach
  <2>3. IsFiniteSet(reach(w)) /\ Cardinality(reach(w)) <= Cardinality(V)
    BY <2>2, FS_Subset
  <2>4. Cardinality(reach(w)) \in Nat /\ Cardinality(V) \in Nat
    BY <2>3, FS_CardinalityType
  <2>5. QED
    BY <2>3, <2>4
<1>4. s \in B
  BY <1>1
<1>5. n \in Nat
  BY FS_CardinalityType
<1> HIDE DEF reach, n
<1>6. T \in SUBSET Nat /\ T # {}
  BY <1>3, <1>4, <1>5
<1>7. PICK b \in B : \A w \in B : n - Cardinality(reach(b)) <= n - Cardinality(reach(w))
  <2>1. PICK t \in T : \A u \in T : t <= u
    <3> HIDE DEF T
    <3>1. QED
      BY <1>6, LeastNatural
  <2>2. PICK b \in B : t = n - Cardinality(reach(b))
    BY <2>1
  <2>3. QED
    BY <2>1, <2>2
<1>8. PICK p \in W : b \in succ[p]
  BY <1>7
<1>9. b \in reach(p) /\ reach(b) \subseteq reach(p) /\ p \in B
  BY <1>1, <1>2, <1>7, <1>8
<1>10. reach(p) = reach(b)
  <2>1. Cardinality(reach(p)) <= Cardinality(reach(b))
    BY <1>3, <1>5, <1>7, <1>9
  <2>2. IsFiniteSet(reach(p)) /\ reach(b) \in SUBSET reach(p)
    BY <1>3, <1>9
  <2>3. Cardinality(reach(b)) <= Cardinality(reach(p))
    BY <2>2, FS_Subset
  <2>4. Cardinality(reach(b)) = Cardinality(reach(p))
    BY <1>3, <1>7, <2>1, <2>3
  <2>5. QED
    BY <2>2, <2>4, FS_Subset
<1>11. p \in Reachable(succ, succ[p])
  <2>1. succ[p] \in SUBSET V
    OBVIOUS
  <2>2. {b} \in SUBSET Reachable(succ, succ[p])
    BY <1>8, <2>1, ReachableFacts
  <2>3. reach(b) \subseteq Reachable(succ, succ[p])
    BY <2>1, <2>2, ReachableChain DEF reach
  <2>4. QED
    BY <1>1, <1>10, <2>3
<1>12. QED
  BY <1>9, <1>11 DEF reach
(***************************************************************************)
(* The references of a library.                                            *)
(***************************************************************************)
LibraryFinite ==
  /\ Root \in Scopes /\ IsFiniteSet(Scopes)
  /\ \A s \in Scopes : IsFiniteSet(DOMAIN InstancesOf(s))

Names == Scopes \cup Referenced

LEMMA NamesAreFinite == LibraryFinite => IsFiniteSet(Names)
<1>1. SUFFICES ASSUME LibraryFinite PROVE IsFiniteSet(Names)
  OBVIOUS
<1> DEFINE refs == [s \in Scopes |-> ReferencesOf(s)]
<1>2. ASSUME NEW s \in Scopes PROVE IsFiniteSet(ReferencesOf(s))
  <2> DEFINE of == [x \in DOMAIN InstancesOf(s) |-> InstancesOf(s)[x].of]
  <2>1. ReferencesOf(s) = {of[x] : x \in DOMAIN InstancesOf(s)}
    BY DEF ReferencesOf
  <2>2. DOMAIN of = DOMAIN InstancesOf(s) /\ of = [x \in DOMAIN InstancesOf(s) |-> of[x]]
    OBVIOUS
  <2>3. IsFiniteSet(DOMAIN InstancesOf(s))
    BY <1>1 DEF LibraryFinite
  <2> HIDE DEF of
  <2>4. QED
    BY <2>1, <2>2, <2>3, ImageIsFinite
<1>3. Referenced = UNION {refs[s] : s \in Scopes} /\ refs = [s \in Scopes |-> refs[s]]
  BY DEF Referenced
<1>4. IsFiniteSet(Scopes) /\ \A s \in Scopes : IsFiniteSet(refs[s])
  BY <1>1, <1>2 DEF LibraryFinite
<1> HIDE DEF refs
<1>5. IsFiniteSet(Referenced)
  BY <1>3, <1>4, UnionIsFinite
<1>6. QED
  BY <1>4, <1>5, FS_Union DEF Names

LEMMA ReferencesFacts ==
  /\ References \in [Names -> SUBSET Names]
  /\ \A s \in Scopes : References[s] = ReferencesOf(s)
  /\ \A s \in Names \ Scopes : References[s] = {}
  /\ \A s \in Scopes : \A x \in DOMAIN InstancesOf(s) : InstancesOf(s)[x].of \in References[s]
<1>1. /\ DOMAIN References = Names /\ References = [s \in Names |-> References[s]]
      /\ \A s \in Scopes : s \in Names /\ References[s] = ReferencesOf(s)
      /\ \A s \in Names \ Scopes : References[s] = {}
  BY DEF References, Names
<1>2. \A s \in Scopes : ReferencesOf(s) \subseteq Names
  BY DEF Names, Referenced
<1>3. \A s \in Names : References[s] \in SUBSET Names
  BY <1>1, <1>2
<1>4. \A s \in Scopes : \A x \in DOMAIN InstancesOf(s) : InstancesOf(s)[x].of \in ReferencesOf(s)
  BY DEF ReferencesOf
<1>5. References \in [Names -> SUBSET Names]
  BY <1>1, <1>3
<1>6. QED
  BY <1>1, <1>4, <1>5

LEMMA ClosureFacts ==
  ASSUME LibraryFinite, top \in Names
  PROVE  /\ top \in Closure /\ Closure \in SUBSET Names
         /\ \A s \in Closure : References[s] \subseteq Closure
         /\ \A T : top \in T /\ (\A s \in T \cap Names : References[s] \subseteq T) => Closure \subseteq T
<1>1. IsFiniteSet(Names) /\ References \in [Names -> SUBSET Names] /\ {top} \in SUBSET Names
  BY NamesAreFinite, ReferencesFacts
<1> HIDE DEF Names, References, LibraryFinite
<1>2. LET R == Reachable(References, {top})
      IN  /\ {top} \subseteq R /\ R \subseteq Names /\ \A v \in R : References[v] \subseteq R
          /\ \A T : {top} \subseteq T /\ (\A v \in T \cap Names : References[v] \subseteq T) => R \subseteq T
  BY <1>1, ReachableFacts
<1>3. QED
  BY <1>2 DEF Closure

\* What is reached in one or more steps.
LEMMA BelowFacts ==
  ASSUME LibraryFinite, NEW s \in Names
  PROVE  LET R == Reachable(References, References[s])
         IN  /\ References[s] \subseteq R /\ R \in SUBSET Names /\ \A v \in R : References[v] \subseteq R
             /\ \A T : References[s] \subseteq T /\ (\A v \in T \cap Names : References[v] \subseteq T) => R \subseteq T
<1>1. IsFiniteSet(Names) /\ References \in [Names -> SUBSET Names]
  BY NamesAreFinite, ReferencesFacts
<1> HIDE DEF Names, References, LibraryFinite
<1>2. References[s] \in SUBSET Names
  BY <1>1
<1>3. QED
  BY <1>1, <1>2, ReachableFacts
(***************************************************************************)
(* The depth-first visit.                                                  *)
(***************************************************************************)
\* The top that was selected, and what is known when nobody asked for it.
Selected ==
  /\ top \in Scopes
  /\ requested = NoTop /\ top # Root => ReferencesOf(Root) = {} /\ Candidates = {top}

Elements == UNION {DOMAIN InstancesOf(s) : s \in Scopes}

\* The running visits are a chain of references from the top, of scopes that
\* differ.  What the loop of a visit has passed is visited, or is the next of
\* the chain, or is about to be visited.
Running ==
  /\ visits \in Seq([name : Closure \cap Scopes, left : SUBSET Elements])
  /\ \A i, j \in DOMAIN visits : visits[i].name = visits[j].name => i = j
  /\ \A i \in DOMAIN visits :
       visits[i].name \notin visited /\ visits[i].left \subseteq DOMAIN InstancesOf(visits[i].name)
  /\ visits # <<>> => visits[1].name = top
  /\ \A i \in 1..(Len(visits) - 1) : visits[i + 1].name \in References[visits[i].name]
Passing ==
  \A i \in DOMAIN visits : \A x \in DOMAIN InstancesOf(visits[i].name) \ visits[i].left :
    \/ InstancesOf(visits[i].name)[x].of \in visited
    \/ i < Len(visits) /\ InstancesOf(visits[i].name)[x].of = visits[i + 1].name
    \/ i = Len(visits) /\ visiting = <<InstancesOf(visits[i].name)[x].of>>

\* The visit that is about to run.
Pending ==
  /\ visiting # <<>> =>
       /\ visiting[1] \in Closure /\ visiting = <<visiting[1]>>
       /\ IF visits = <<>> THEN visiting[1] = top /\ visited = {}
          ELSE visiting[1] \in References[Last(visits).name]
  /\ visits = <<>> => visiting # <<>>

\* What is visited is closed and has no recursion.
Behind ==
  /\ visited \subseteq Closure \cap Scopes
  /\ \A s \in visited : References[s] \subseteq visited /\ ~IsRecursive(s)

Visiting == Running /\ Passing /\ Pending /\ Behind

LEMMA SameLibrary ==
  ASSUME library' = library
  PROVE  /\ Scopes' = Scopes /\ Names' = Names /\ References' = References /\ Elements' = Elements
         /\ (LibraryFinite <=> LibraryFinite') /\ \A s : InstancesOf(s)' = InstancesOf(s)
         /\ (top' = top => Closure' = Closure) /\ \A s : (IsRecursive(s)' <=> IsRecursive(s))
         /\ (top' = top /\ requested' = requested => (Selected <=> Selected'))
<1>1. /\ Scopes' = Scopes /\ (\A s : InstancesOf(s)' = InstancesOf(s))
      /\ (\A s : ReferencesOf(s)' = ReferencesOf(s))
  BY DEF Scopes, InstancesOf, ReferencesOf
<1>2. Referenced' = Referenced
  BY <1>1 DEF Referenced
<1>3. References' = References /\ Names' = Names /\ Elements' = Elements
  BY <1>1, <1>2 DEF References, Names, Elements
<1>4. Candidates' = Candidates
  BY <1>1, <1>2 DEF Candidates
<1>5. (top' = top => Closure' = Closure) /\ \A s : (IsRecursive(s)' <=> IsRecursive(s))
  BY <1>3 DEF Closure, IsRecursive
<1>6. LibraryFinite <=> LibraryFinite'
  BY <1>1 DEF LibraryFinite
<1>7. top' = top /\ requested' = requested => (Selected <=> Selected')
  BY <1>1, <1>4 DEF Selected
<1>8. QED
  BY <1>1, <1>3, <1>5, <1>6, <1>7

LEMMA TopReasons ==
  ASSUME LibraryFinite, TopFailure(requested) = Passed
  PROVE  LET t == SelectedTop(requested)
         IN  t \in Scopes /\ (requested = NoTop /\ t # Root => ReferencesOf(Root) = {} /\ Candidates = {t})
<1> DEFINE a1 == requested # NoTop /\ requested \notin Scopes
           a2 == requested = NoTop /\ ~HasElements(Root) /\ Cardinality(Candidates) # 1
           x1 == "unknown top"
           x2 == "ambiguous"
<1>1. TopFailure(requested) = FirstFailure(<< <<a1, x1>>, <<a2, x2>> >>)
  BY Zenon DEF TopFailure
<1>2. x1 # Passed /\ x2 # Passed
  BY DEF Passed
<1> HIDE DEF a1, a2, x1, x2
<1>3. ~a1 /\ ~a2
  BY <1>1, <1>2, TwoChecks
<1>4. CASE requested # NoTop
  BY <1>3, <1>4 DEF a1, SelectedTop
<1>5. CASE requested = NoTop /\ HasElements(Root)
  BY <1>5 DEF SelectedTop, LibraryFinite
<1>6. CASE requested = NoTop /\ ~HasElements(Root)
  <2>1. Cardinality(Candidates) = 1 /\ IsFiniteSet(Candidates) /\ Candidates \subseteq Scopes
    <3>1. Candidates \in SUBSET Scopes
      BY DEF Candidates
    <3>2. QED
      BY <1>3, <1>6, <3>1, FS_Subset DEF a2, LibraryFinite
  <2>2. PICK c : Candidates = {c}
    BY <2>1, FS_Singleton
  <2>3. SelectedTop(requested) = c
    BY <1>6, <2>2 DEF SelectedTop
  <2>4. ReferencesOf(Root) = {}
    BY <1>6 DEF HasElements, ReferencesOf
  <2>5. QED
    BY <2>1, <2>2, <2>3, <2>4
<1>7. QED
  BY <1>4, <1>5, <1>6

LEMMA SelectStarts ==
  ASSUME LibraryFinite, builder = "selecting", visits = <<>>, visited = {}, visiting = <<>>, SelectTop
  PROVE  \/ builder' \in {"unknown top", "ambiguous"}
         \/ builder' = "closing" /\ Selected' /\ Visiting'
<1> DEFINE a1 == requested # NoTop /\ requested \notin Scopes
           a2 == requested = NoTop /\ ~HasElements(Root) /\ Cardinality(Candidates) # 1
           x1 == "unknown top"
           x2 == "ambiguous"
<1>1. TopFailure(requested) = FirstFailure(<< <<a1, x1>>, <<a2, x2>> >>)
  BY Zenon DEF TopFailure
<1>2. x1 # Passed /\ x2 # Passed
  BY DEF Passed
<1>3. CASE TopFailure(requested) # Passed
  <2>1. builder' = TopFailure(requested)
    BY <1>3 DEF SelectTop
  <2> HIDE DEF a1, a2, x1, x2
  <2>2. a1 \/ a2
    BY <1>1, <1>2, <1>3, TwoChecks
  <2>3. (a1 => FirstFailure(<< <<a1, x1>>, <<a2, x2>> >>) = x1)
        /\ (~a1 /\ a2 => FirstFailure(<< <<a1, x1>>, <<a2, x2>> >>) = x2)
    BY TwoReasons
  <2>4. builder' = x1 \/ builder' = x2
    BY <1>1, <2>1, <2>2, <2>3
  <2>5. QED
    BY <2>4, Zenon DEF x1, x2
<1>4. CASE TopFailure(requested) = Passed
  <2>1. /\ top' = SelectedTop(requested) /\ visiting' = <<top'>> /\ builder' = "closing"
        /\ library' = library /\ requested' = requested /\ visits' = <<>> /\ visited' = {}
    BY <1>4 DEF SelectTop
  <2>2. LibraryFinite' /\ Scopes' = Scopes /\ Names' = Names
    BY <2>1, SameLibrary
  <2>3. top' \in Scopes' /\ Selected'
    <3>1. \A s : ReferencesOf(s)' = ReferencesOf(s)
      BY <2>1 DEF ReferencesOf, InstancesOf
    <3>2. Candidates' = Candidates
      BY <2>1, <2>2, <3>1 DEF Candidates, Referenced
    <3>3. QED
      BY <1>4, <2>1, <2>2, <3>1, <3>2, TopReasons DEF Selected
  <2>4. top' \in Closure'
    <3>1. LibraryFinite /\ top \in Names => top \in Closure
      BY ClosureFacts
    <3>2. (LibraryFinite /\ top \in Names => top \in Closure)'
      BY ClosureFacts, PTL
    <3>3. QED
      BY <2>2, <2>3, <3>2 DEF Names
  <2>5. Running' /\ Passing' /\ Behind'
    BY <2>1 DEF Running, Passing, Behind
  <2>6. Pending'
    BY <2>1, <2>4 DEF Pending
  <2>7. QED
    BY <2>1, <2>3, <2>5, <2>6 DEF Visiting
<1>5. QED
  BY <1>3, <1>4

\* The reason for which a visit is refused.
LEMMA VisitReasons ==
  ASSUME NEW name
  PROVE  LET deep == name \notin visited /\ Len(visits) >= limits.hierarchy_depth
         IN  /\ VisitFailure(name) = Passed <=> ~IsActive(name) /\ ~deep /\ name \in Scopes
             /\ IsActive(name) => VisitFailure(name) = "recursive"
             /\ ~IsActive(name) /\ deep => VisitFailure(name) = "depth"
             /\ ~IsActive(name) /\ ~deep /\ name \notin Scopes => VisitFailure(name) = "undefined"
<1> DEFINE a1 == IsActive(name)
           a2 == name \notin visited /\ Len(visits) >= limits.hierarchy_depth
           a3 == name \notin Scopes
           x1 == "recursive"
           x2 == "depth"
           x3 == "undefined"
<1>1. VisitFailure(name) = FirstFailure(<< <<a1, x1>>, <<a2, x2>>, <<a3, x3>> >>)
  BY Zenon DEF VisitFailure
<1>2. x1 # Passed /\ x2 # Passed /\ x3 # Passed
  BY DEF Passed
<1> HIDE DEF a1, a2, a3, x1, x2, x3
<1>3. FirstFailure(<< <<a1, x1>>, <<a2, x2>>, <<a3, x3>> >>) = Passed <=> ~a1 /\ ~a2 /\ ~a3
  BY <1>2, ThreeChecks
<1>4. LET f == FirstFailure(<< <<a1, x1>>, <<a2, x2>>, <<a3, x3>> >>)
      IN  (a1 => f = x1) /\ (~a1 /\ a2 => f = x2) /\ (~a1 /\ ~a2 /\ a3 => f = x3)
  BY ThreeReasons
<1>5. QED
  BY <1>1, <1>3, <1>4 DEF a1, a2, a3, x1, x2, x3
LEMMA VisitKeeps ==
  ASSUME LibraryFinite, Selected, Visiting, Visit
  PROVE  Visiting'
<1> DEFINE x == visiting[1]
           frame == [name |-> x, left |-> DOMAIN InstancesOf(x)]
           n == Len(visits)
<1>1. /\ x \in Scopes /\ ~IsActive(x) /\ visiting # <<>> /\ visiting' = <<>>
      /\ visits' = IF x \in visited THEN visits ELSE Append(visits, frame)
      /\ library' = library /\ top' = top /\ visited' = visited
  BY VisitReasons DEF Visit
<1>2. /\ x \in Closure /\ visiting = <<x>>
      /\ (visits = <<>> => x = top /\ visited = {}) /\ (visits # <<>> => x \in References[Last(visits).name])
  BY <1>1 DEF Visiting, Pending
<1>3. /\ Scopes' = Scopes /\ References' = References /\ Elements' = Elements /\ Closure' = Closure
      /\ (\A s : InstancesOf(s)' = InstancesOf(s)) /\ (\A s : (IsRecursive(s)' <=> IsRecursive(s)))
  BY <1>1, SameLibrary
<1>4. Behind'
  BY <1>1, <1>3 DEF Visiting, Behind
<1>5. CASE x \in visited
  <2>1. visits' = visits /\ visits # <<>>
    BY <1>1, <1>2, <1>5
  <2>2. Running'
    BY <1>1, <1>3, <2>1 DEF Visiting, Running
  <2>3. Passing'
    BY <1>1, <1>2, <1>3, <1>5, <2>1 DEF Visiting, Passing
  <2>4. Pending'
    BY <1>1, <2>1 DEF Pending
  <2>5. QED
    BY <1>4, <2>2, <2>3, <2>4 DEF Visiting
<1>6. CASE x \notin visited
  <2>1. visits \in Seq([name : Closure \cap Scopes, left : SUBSET Elements])
    BY DEF Visiting, Running
  <2>2. frame \in [name : Closure \cap Scopes, left : SUBSET Elements]
    BY <1>1, <1>2 DEF Elements
  <2> HIDE DEF frame
  <2>3. /\ visits' = Append(visits, frame) /\ n \in Nat /\ Len(visits') = n + 1 /\ visits'[n + 1] = frame
        /\ visits' \in Seq([name : Closure \cap Scopes, left : SUBSET Elements])
        /\ \A i \in 1..n : visits'[i] = visits[i]
        /\ DOMAIN visits = 1..n /\ DOMAIN visits' = 1..(n + 1)
    BY <1>1, <1>6, <2>1, <2>2
  <2>4. frame.name = x /\ frame.left = DOMAIN InstancesOf(x)
    BY DEF frame
  <2>5. \A i \in 1..(n + 1) : i \in 1..n \/ i = n + 1
    BY <2>3
  <2>6. \A i \in 1..n : visits[i].name # x
    BY <1>1, <2>3 DEF IsActive
  <2> HIDE DEF x, n
  <2>7. Running'
    <3>1. \A i, j \in 1..(n + 1) : visits'[i].name = visits'[j].name => i = j
      BY <2>3, <2>4, <2>5, <2>6 DEF Visiting, Running
    <3>2. \A i \in 1..(n + 1) :
            visits'[i].name \notin visited /\ visits'[i].left \subseteq DOMAIN InstancesOf(visits'[i].name)
      BY <1>6, <2>3, <2>4, <2>5 DEF Visiting, Running
    <3>3. visits'[1].name = top
      <4>1. CASE n = 0
        <5>1. visits = <<>>
          BY <2>1, <4>1 DEF n
        <5>2. QED
          BY <1>2, <2>3, <2>4, <4>1, <5>1
      <4>2. CASE n # 0
        BY <2>3, <4>2 DEF Visiting, Running, n
      <4>3. QED
        BY <4>1, <4>2
    <3>4. \A i \in 1..n : visits'[i + 1].name \in References[visits'[i].name]
      <4>1. SUFFICES ASSUME NEW i \in 1..n PROVE visits'[i + 1].name \in References[visits'[i].name]
        OBVIOUS
      <4>2. CASE i = n
        <5>1. visits # <<>> /\ Last(visits) = visits'[i]
          BY <2>3, <4>2 DEF Last, n
        <5>2. QED
          BY <1>2, <2>3, <2>4, <4>2, <5>1
      <4>3. CASE i # n
        <5>1. i \in 1..(n - 1) /\ i + 1 \in 1..n
          BY <2>3, <4>3
        <5>2. visits[i + 1].name \in References[visits[i].name]
          BY <5>1 DEF Visiting, Running, n
        <5>3. QED
          BY <2>3, <5>1, <5>2
      <4>4. QED
        BY <4>2, <4>3
    <3>5. QED
      BY <1>1, <1>3, <2>3, <3>1, <3>2, <3>3, <3>4 DEF Running
  <2>8. Passing'
    <3>1. ASSUME NEW i \in 1..(n + 1), NEW e \in DOMAIN InstancesOf(visits'[i].name) \ visits'[i].left
          PROVE  \/ InstancesOf(visits'[i].name)[e].of \in visited
                 \/ i < n + 1 /\ InstancesOf(visits'[i].name)[e].of = visits'[i + 1].name
      <4>1. i \in 1..n /\ visits'[i] = visits[i]
        BY <2>3, <2>4, <2>5, <3>1
      <4>2. \/ InstancesOf(visits[i].name)[e].of \in visited
            \/ i < n /\ InstancesOf(visits[i].name)[e].of = visits[i + 1].name
            \/ i = n /\ visiting = <<InstancesOf(visits[i].name)[e].of>>
        BY <2>3, <3>1, <4>1 DEF Visiting, Passing, n
      <4>3. i < n => visits'[i + 1] = visits[i + 1]
        BY <2>3, <4>1
      <4>4. i = n /\ visiting = <<InstancesOf(visits[i].name)[e].of>>
              => InstancesOf(visits[i].name)[e].of = visits'[i + 1].name
        BY <1>2, <2>3, <2>4
      <4>5. QED
        BY <2>3, <4>1, <4>2, <4>3, <4>4
    <3>2. QED
      BY <1>1, <1>3, <2>3, <3>1 DEF Passing
  <2>9. Pending'
    <3>1. visits' # <<>>
      BY <2>3
    <3>2. QED
      BY <1>1, <3>1 DEF Pending
  <2>10. QED
    BY <1>4, <2>7, <2>8, <2>9 DEF Visiting
<1>7. QED
  BY <1>5, <1>6
LEMMA NextInstanceKeeps ==
  ASSUME LibraryFinite, Selected, Visiting, NextInstance
  PROVE  Visiting'
<1> DEFINE n == Len(visits)
           s == Last(visits).name
<1>1. /\ visiting = <<>> /\ visits # <<>> /\ library' = library /\ top' = top /\ visited' = visited
      /\ visits \in Seq([name : Closure \cap Scopes, left : SUBSET Elements])
  BY DEF NextInstance, Visiting, Running
<1>2. PICK e \in Last(visits).left :
        visiting' = <<InstancesOf(s)[e].of>> /\ visits' = [visits EXCEPT ![n].left = @ \ {e}]
  BY DEF NextInstance
<1>3. /\ n \in Nat \ {0} /\ DOMAIN visits = 1..n /\ DOMAIN visits' = 1..n /\ Len(visits') = n
      /\ visits' \in Seq([name : Closure \cap Scopes, left : SUBSET Elements])
      /\ \A i \in 1..(n - 1) : visits'[i] = visits[i]
      /\ visits'[n].name = visits[n].name /\ visits'[n].left = visits[n].left \ {e}
      /\ s = visits[n].name /\ e \in visits[n].left /\ visits' # <<>>
  <2>1. n \in Nat \ {0} /\ DOMAIN visits = 1..n /\ visits[n] \in [name : Closure \cap Scopes, left : SUBSET Elements]
    BY <1>1, LastFacts
  <2>2. visits' = [visits EXCEPT ![n] = [visits[n] EXCEPT !.left = visits[n].left \ {e}]]
    BY <1>1, <1>2
  <2>3. [visits[n] EXCEPT !.left = visits[n].left \ {e}] \in [name : Closure \cap Scopes, left : SUBSET Elements]
    BY <2>1
  <2>4. /\ visits' \in Seq([name : Closure \cap Scopes, left : SUBSET Elements]) /\ Len(visits') = n
        /\ DOMAIN visits' = 1..n
    BY <1>1, <2>1, <2>2, <2>3
  <2>5. \A i \in 1..(n - 1) : visits'[i] = visits[i]
    BY <2>1, <2>2
  <2>6. visits'[n].name = visits[n].name /\ visits'[n].left = visits[n].left \ {e}
    BY <2>1, <2>2
  <2>7. visits' # <<>>
    BY <2>1, <2>4
  <2>8. s = visits[n].name /\ e \in visits[n].left
    BY <1>2 DEF Last
  <2>9. QED
    BY <2>1, <2>4, <2>5, <2>6, <2>7, <2>8
<1> HIDE DEF n, s
<1>4. /\ Scopes' = Scopes /\ References' = References /\ Elements' = Elements /\ Closure' = Closure
      /\ (\A t : InstancesOf(t)' = InstancesOf(t)) /\ (\A t : (IsRecursive(t)' <=> IsRecursive(t)))
  BY <1>1, SameLibrary
<1>5. Behind'
  BY <1>1, <1>4 DEF Visiting, Behind
<1>6. \A i \in 1..n : visits'[i].name = visits[i].name /\ visits'[i].left \subseteq visits[i].left
  <2>1. \A i \in 1..n : i \in 1..(n - 1) \/ i = n
    BY <1>3
  <2>2. QED
    BY <1>3, <2>1
<1>7. Running'
  <2>1. /\ \A i, j \in 1..n : visits[i].name = visits[j].name => i = j
        /\ \A i \in 1..n : visits[i].name \notin visited /\ visits[i].left \subseteq DOMAIN InstancesOf(visits[i].name)
        /\ visits[1].name = top
        /\ \A i \in 1..(n - 1) : visits[i + 1].name \in References[visits[i].name]
    BY <1>1, <1>3 DEF Visiting, Running, n
  <2>2. \A i \in 1..(n - 1) : i + 1 \in 1..n /\ i \in 1..n
    BY <1>3
  <2>3. /\ \A i, j \in 1..n : visits'[i].name = visits'[j].name => i = j
        /\ \A i \in 1..n :
             visits'[i].name \notin visited /\ visits'[i].left \subseteq DOMAIN InstancesOf(visits'[i].name)
        /\ visits'[1].name = top
        /\ \A i \in 1..(n - 1) : visits'[i + 1].name \in References[visits'[i].name]
    BY <1>3, <1>6, <2>1, <2>2
  <2>4. QED
    BY <1>1, <1>3, <1>4, <2>3 DEF Running
<1>8. Passing'
  <2>1. ASSUME NEW i \in 1..n, NEW x \in DOMAIN InstancesOf(visits[i].name) \ visits'[i].left
        PROVE  \/ InstancesOf(visits[i].name)[x].of \in visited
               \/ i < n /\ InstancesOf(visits[i].name)[x].of = visits'[i + 1].name
               \/ i = n /\ visiting' = <<InstancesOf(visits[i].name)[x].of>>
    <3>1. CASE x \in visits[i].left
      <4>1. i = n /\ x = e
        BY <1>3, <2>1, <3>1
      <4>2. QED
        BY <1>2, <1>3, <4>1
    <3>2. CASE x \notin visits[i].left
      <4>1. \/ InstancesOf(visits[i].name)[x].of \in visited
            \/ i < n /\ InstancesOf(visits[i].name)[x].of = visits[i + 1].name
        BY <1>1, <1>3, <2>1, <3>2 DEF Visiting, Passing, n
      <4>2. i < n => visits'[i + 1].name = visits[i + 1].name
        BY <1>3, <1>6
      <4>3. QED
        BY <4>1, <4>2
    <3>3. QED
      BY <3>1, <3>2
  <2>2. QED
    BY <1>1, <1>3, <1>4, <1>6, <2>1 DEF Passing
<1>9. Pending'
  <2>1. e \in DOMAIN InstancesOf(s) /\ s \in Closure \cap Scopes
    <3>1. n \in DOMAIN visits /\ visits[n].name \in Closure \cap Scopes
      <4>1. visits[n] \in [name : Closure \cap Scopes, left : SUBSET Elements]
        BY <1>1, LastFacts DEF n
      <4>2. QED
        BY <1>3, <4>1
    <3>2. visits[n].left \subseteq DOMAIN InstancesOf(visits[n].name)
      BY <3>1 DEF Visiting, Running
    <3>3. QED
      BY <1>3, <3>1, <3>2
  <2>2. InstancesOf(s)[e].of \in References[s] /\ Last(visits').name = s
    BY <1>3, <2>1, ReferencesFacts DEF Last
  <2>3. top \in Names
    BY DEF Selected, Names
  <2>4. InstancesOf(s)[e].of \in Closure
    BY <2>1, <2>2, <2>3, ClosureFacts
  <2> DEFINE y == InstancesOf(s)[e].of
  <2>5. visiting' = <<y>> /\ y \in Closure /\ y \in References[s]
    BY <1>2, <2>2, <2>4
  <2> HIDE DEF y
  <2>6. visiting'[1] = y
    BY <2>5
  <2>7. QED
    BY <1>3, <1>4, <2>2, <2>5, <2>6 DEF Pending
<1>10. QED
  BY <1>5, <1>7, <1>8, <1>9 DEF Visiting

\* The closure is complete and has no recursion.
Done == visited = Closure /\ Closure \subseteq Scopes /\ \A s \in Closure : ~IsRecursive(s)

LEMMA LeaveKeeps ==
  ASSUME LibraryFinite, Selected, Visiting, Leave
  PROVE  IF Len(visits) = 1 THEN builder' = "building" /\ Done' ELSE builder' = "closing" /\ Visiting'
<1> DEFINE n == Len(visits)
           s == visits[n].name
<1>1. /\ visiting = <<>> /\ visits # <<>> /\ library' = library /\ top' = top /\ visiting' = visiting
      /\ visits' = SubSeq(visits, 1, n - 1) /\ visited' = visited \cup {s} /\ visits[n].left = {}
      /\ builder' = IF n = 1 THEN "building" ELSE "closing"
      /\ visits \in Seq([name : Closure \cap Scopes, left : SUBSET Elements])
  BY DEF Leave, Visiting, Running, Last, Front
<1>2. /\ n \in Nat \ {0} /\ DOMAIN visits = 1..n /\ s \in Closure \cap Scopes
      /\ DOMAIN visits' = 1..(n - 1) /\ Len(visits') = n - 1
      /\ visits' \in Seq([name : Closure \cap Scopes, left : SUBSET Elements])
      /\ \A i \in 1..(n - 1) : visits'[i] = visits[i]
  <2> DEFINE S == [name : Closure \cap Scopes, left : SUBSET Elements]
  <2>1. visits[n] \in S => visits[n].name \in Closure \cap Scopes
    OBVIOUS
  <2>2. visits \in Seq(S) /\ visits # <<>>
    BY <1>1
  <2> HIDE DEF S
  <2>3. /\ n \in Nat \ {0} /\ DOMAIN visits = 1..n /\ visits[n] \in S
        /\ DOMAIN visits' = 1..(n - 1) /\ Len(visits') = n - 1 /\ visits' \in Seq(S)
        /\ \A i \in 1..(n - 1) : visits'[i] = visits[i]
    BY <1>1, <2>2, LastFacts
  <2>4. QED
    BY <2>1, <2>3 DEF S
<1> HIDE DEF n, s
<1>3. /\ Scopes' = Scopes /\ References' = References /\ Elements' = Elements /\ Closure' = Closure
      /\ (\A t : InstancesOf(t)' = InstancesOf(t)) /\ (\A t : (IsRecursive(t)' <=> IsRecursive(t)))
  BY <1>1, SameLibrary
<1>4. References[s] \subseteq visited /\ s \notin visited
  <2>1. \A x \in DOMAIN InstancesOf(s) : InstancesOf(s)[x].of \in visited
    <3>1. SUFFICES ASSUME NEW x \in DOMAIN InstancesOf(s) PROVE InstancesOf(s)[x].of \in visited
      OBVIOUS
    <3>2. n \in DOMAIN visits /\ x \in DOMAIN InstancesOf(visits[n].name) \ visits[n].left
      BY <1>1, <1>2 DEF s
    <3>3. \/ InstancesOf(s)[x].of \in visited
          \/ n < Len(visits)
          \/ visiting = <<InstancesOf(s)[x].of>>
      BY <3>2 DEF Visiting, Passing, s
    <3>4. QED
      BY <1>1, <1>2, <3>3 DEF n
  <2>2. References[s] = {InstancesOf(s)[x].of : x \in DOMAIN InstancesOf(s)}
    BY <1>2, ReferencesFacts DEF ReferencesOf
  <2>3. s \notin visited
    BY <1>1, <1>2 DEF Visiting, Running, s
  <2>4. QED
    BY <2>1, <2>2, <2>3
<1>5. ~IsRecursive(s)
  <2>1. s \in Names
    BY <1>2 DEF Names
  <2>2. \A v \in visited \cap Names : References[v] \subseteq visited
    BY DEF Visiting, Behind
  <2>3. Reachable(References, References[s]) \subseteq visited
    BY <1>4, <2>1, <2>2, BelowFacts
  <2>4. QED
    BY <1>4, <2>3 DEF IsRecursive
<1>6. Behind'
  BY <1>1, <1>2, <1>3, <1>4, <1>5 DEF Visiting, Behind
<1>7. CASE n = 1
  <2>1. s = top
    BY <1>1, <1>7 DEF Visiting, Running, s
  <2>2. top \in Names
    BY DEF Selected, Names
  <2>3. \A v \in visited' \cap Names : References[v] \subseteq visited'
    BY <1>3, <1>6 DEF Behind
  <2>4. Closure \subseteq visited'
    BY <1>1, <2>1, <2>2, <2>3, ClosureFacts
  <2>5. visited' = Closure /\ Closure \subseteq Scopes /\ \A v \in Closure : ~IsRecursive(v)
    BY <1>3, <1>6, <2>4 DEF Behind
  <2>6. Done'
    BY <1>3, <2>5 DEF Done
  <2>7. QED
    BY <1>1, <1>7, <2>6 DEF n
<1>8. CASE n # 1
  <2>1. Running'
    <3>1. \A i \in 1..(n - 1) : i \in 1..n
      BY <1>2
    <3>2. \A i, j \in 1..(n - 1) : visits'[i].name = visits'[j].name => i = j
      BY <1>2, <3>1 DEF Visiting, Running
    <3>3. \A i \in 1..(n - 1) : visits'[i].name \notin visited'
                                /\ visits'[i].left \subseteq DOMAIN InstancesOf(visits'[i].name)
      <4>1. SUFFICES ASSUME NEW i \in 1..(n - 1)
                     PROVE  visits'[i].name \notin visited'
                            /\ visits'[i].left \subseteq DOMAIN InstancesOf(visits'[i].name)
        OBVIOUS
      <4>2. i \in DOMAIN visits /\ n \in DOMAIN visits /\ i # n
        BY <1>2
      <4>3. visits[i].name # s /\ visits[i].name \notin visited
            /\ visits[i].left \subseteq DOMAIN InstancesOf(visits[i].name)
        BY <4>2 DEF Visiting, Running, s
      <4>4. QED
        BY <1>1, <1>2, <4>3
    <3>4. visits'[1].name = top
      BY <1>1, <1>2, <1>8 DEF Visiting, Running
    <3>5. \A i \in 1..(n - 1 - 1) : visits'[i + 1].name \in References[visits'[i].name]
      <4>1. SUFFICES ASSUME NEW i \in 1..(n - 1 - 1) PROVE visits'[i + 1].name \in References[visits'[i].name]
        OBVIOUS
      <4>2. i \in 1..(n - 1) /\ i + 1 \in 1..(n - 1)
        BY <1>2
      <4>3. visits[i + 1].name \in References[visits[i].name]
        BY <4>2 DEF Visiting, Running, n
      <4>4. QED
        BY <1>2, <4>2, <4>3
    <3>6. QED
      BY <1>1, <1>2, <1>3, <3>2, <3>3, <3>4, <3>5 DEF Running
  <2>2. Passing'
    <3>1. ASSUME NEW i \in 1..(n - 1), NEW x \in DOMAIN InstancesOf(visits'[i].name) \ visits'[i].left
          PROVE  \/ InstancesOf(visits'[i].name)[x].of \in visited'
                 \/ i < n - 1 /\ InstancesOf(visits'[i].name)[x].of = visits'[i + 1].name
      <4>1. i \in 1..n /\ i # n /\ visits'[i] = visits[i]
        BY <1>2
      <4>2. \/ InstancesOf(visits[i].name)[x].of \in visited
            \/ InstancesOf(visits[i].name)[x].of = visits[i + 1].name
        BY <1>2, <3>1, <4>1 DEF Visiting, Passing, n
      <4>3. CASE i + 1 = n
        BY <1>1, <4>1, <4>2, <4>3 DEF s
      <4>4. CASE i + 1 # n
        <5>1. i < n - 1 /\ visits'[i + 1] = visits[i + 1]
          BY <1>2, <4>4
        <5>2. QED
          BY <1>1, <4>1, <4>2, <5>1
      <4>5. QED
        BY <4>3, <4>4
    <3>2. QED
      BY <1>2, <1>3, <3>1 DEF Passing
  <2>3. Pending'
    <3>1. visits' # <<>>
      BY <1>2, <1>8
    <3>2. QED
      BY <1>1, <3>1 DEF Pending
  <2>4. QED
    BY <1>1, <1>6, <1>8, <2>1, <2>2, <2>3 DEF Visiting, n
<1>9. QED
  BY <1>7, <1>8
(***************************************************************************)
(* The refusals of the visit.                                              *)
(***************************************************************************)
\* A scope that is entered again while its visit runs takes part in a recursion.
LEMMA ActiveIsRecursive ==
  ASSUME LibraryFinite, Selected, Visiting, visiting # <<>>, IsActive(visiting[1])
  PROVE  \E s \in Closure : IsRecursive(s)
<1> DEFINE x == visiting[1]
           n == Len(visits)
           R == Reachable(References, References[x])
<1>1. PICK i \in DOMAIN visits : visits[i].name = x
  BY DEF IsActive
<1>2. visits \in Seq([name : Closure \cap Scopes, left : SUBSET Elements]) /\ visits # <<>>
  BY <1>1 DEF Visiting, Running
<1>3. n \in Nat \ {0} /\ DOMAIN visits = 1..n /\ i \in 1..n
  BY <1>1, <1>2, LastFacts
<1>4. x \in Closure /\ x \in References[visits[n].name]
  BY <1>2 DEF Visiting, Pending, Last
<1>5. top \in Names
  BY DEF Selected, Names
<1>6. x \in Names
  BY <1>4, <1>5, ClosureFacts
<1>7. References[x] \subseteq R /\ \A v \in R : References[v] \subseteq R
  BY <1>6, BelowFacts
<1>8. \A j \in 1..(n - 1) : visits[j + 1].name \in References[visits[j].name]
  BY DEF Visiting, Running
<1> HIDE DEF x, n, R
<1> DEFINE T == {j \in Nat : i + j <= n => visits[i + j].name \in {x} \cup R}
<1>9. 0 \in T
  BY <1>1, <1>3
<1>10. ASSUME NEW j \in Nat, j \in T PROVE j + 1 \in T
  <2>1. SUFFICES ASSUME i + (j + 1) <= n PROVE visits[i + (j + 1)].name \in R
    OBVIOUS
  <2>2. i + j \in 1..(n - 1) /\ i + j <= n /\ i + (j + 1) = (i + j) + 1
    BY <1>3, <2>1
  <2>3. visits[i + j].name \in {x} \cup R
    BY <1>10, <2>2
  <2>4. visits[(i + j) + 1].name \in References[visits[i + j].name]
    BY <1>8, <2>2
  <2>5. QED
    BY <1>7, <2>2, <2>3, <2>4
<1>11. n - i \in T
  <2>1. n - i \in Nat
    BY <1>3
  <2> HIDE DEF T
  <2>2. QED
    BY <1>9, <1>10, <2>1, NaturalInduction
<1>12. visits[n].name \in {x} \cup R
  <2>1. i + (n - i) = n
    BY <1>3
  <2>2. QED
    BY <1>3, <1>11, <2>1
<1>13. x \in R
  BY <1>4, <1>7, <1>12
<1>14. QED
  BY <1>4, <1>13 DEF IsRecursive, R

\* The running visits and the next one are a chain longer than the limit.
LEMMA DeepIsDeep ==
  ASSUME LibraryFinite, Selected, Visiting, visiting # <<>>, ~IsActive(visiting[1]),
         limits.hierarchy_depth \in Int, Len(visits) >= limits.hierarchy_depth
  PROVE  \E c \in Chains : Len(c) > limits.hierarchy_depth
<1> DEFINE x == visiting[1]
           n == Len(visits)
           m == n + 1
           c == [j \in 1..m |-> IF j = m THEN x ELSE visits[j].name]
<1>1. visits \in Seq([name : Closure \cap Scopes, left : SUBSET Elements])
  BY DEF Visiting, Running
<1>2. n \in Nat /\ DOMAIN visits = 1..n /\ m \in Nat /\ \A j \in 1..n : visits[j].name \in Closure
  <2> DEFINE S == [name : Closure \cap Scopes, left : SUBSET Elements]
  <2>1. \A f \in S : f.name \in Closure
    OBVIOUS
  <2>2. visits \in Seq(S)
    BY <1>1
  <2> HIDE DEF S
  <2>3. n \in Nat /\ DOMAIN visits = 1..n /\ m \in Nat /\ \A j \in 1..n : visits[j] \in S
    BY <2>2
  <2>4. QED
    BY <2>1, <2>3
<1>3. x \in Closure /\ IF n = 0 THEN x = top ELSE x \in References[visits[n].name] /\ visits[1].name = top
  <2>1. visits = <<>> <=> n = 0
    BY <1>1
  <2>2. QED
    BY <2>1 DEF Visiting, Pending, Running, Last
<1>4. /\ \A i, j \in 1..n : visits[i].name = visits[j].name => i = j
      /\ \A j \in 1..n : visits[j].name # x
      /\ \A j \in 1..(n - 1) : visits[j + 1].name \in References[visits[j].name]
  BY <1>2 DEF Visiting, Running, IsActive
<1> HIDE DEF x, n
<1>5. \A j \in 1..m : j = m \/ j \in 1..n
  BY <1>2
<1>6. c \in [1..m -> Closure]
  BY <1>2, <1>3, <1>5
<1>7. IsInjective(c)
  <2>1. \A i, j \in 1..m : c[i] = c[j] => i = j
    BY <1>4, <1>5
  <2>2. QED
    BY <2>1 DEF IsInjective
<1>8. c[1] = top
  BY <1>2, <1>3
<1>9. \A j \in 1..(m - 1) : c[j + 1] \in References[c[j]]
  <2>1. SUFFICES ASSUME NEW j \in 1..(m - 1) PROVE c[j + 1] \in References[c[j]]
    OBVIOUS
  <2>2. j \in 1..n /\ j \in 1..m /\ j + 1 \in 1..m /\ j # m
    BY <1>2
  <2>3. CASE j = n
    BY <1>2, <1>3, <2>2, <2>3
  <2>4. CASE j # n
    <3>1. j \in 1..(n - 1) /\ j + 1 # m
      BY <1>2, <2>2, <2>4
    <3>2. QED
      BY <1>4, <2>2, <3>1
  <2>5. QED
    BY <2>3, <2>4
<1> HIDE DEF c
<1>10. Len(c) = m
  BY <1>2, <1>6
<1>11. m <= Cardinality(Closure) /\ Cardinality(Closure) \in Nat
  <2>1. top \in Names
    BY DEF Selected, Names
  <2>2. Closure \in SUBSET Names /\ IsFiniteSet(Names)
    BY <2>1, ClosureFacts, NamesAreFinite
  <2>3. IsFiniteSet(Closure)
    BY <2>2, FS_Subset
  <2>4. c \in Injection(1..m, Closure)
    BY <1>6, <1>7 DEF Injection
  <2>5. Cardinality(1..m) <= Cardinality(Closure) /\ Cardinality(Closure) \in Nat
    BY <2>3, <2>4, FS_Injection, FS_CardinalityType
  <2>6. Cardinality(1..m) = m
    BY <1>2, FS_Interval
  <2>7. QED
    BY <2>5, <2>6
<1>12. c \in SeqOf(Closure, Cardinality(Closure))
  <2>1. m \in 0..Cardinality(Closure)
    BY <1>2, <1>11
  <2>2. QED
    BY <1>6, <2>1 DEF SeqOf
<1>13. c \in Chains
  <2>1. c # <<>>
    BY <1>2, <1>10
  <2>2. QED
    BY <1>7, <1>8, <1>9, <1>10, <1>12, <2>1 DEF Chains
<1>14. QED
  BY <1>2, <1>10, <1>13 DEF n

LEMMA RefusalIsTrue ==
  ASSUME LibraryFinite, Selected, Visiting, limits.hierarchy_depth \in Int, RefuseVisit
  PROVE  \/ builder' = "recursive" /\ \E s \in Closure : IsRecursive(s)
         \/ builder' = "depth" /\ \E c \in Chains : Len(c) > limits.hierarchy_depth
         \/ builder' = "undefined" /\ ~(Closure \subseteq Scopes)
<1> DEFINE x == visiting[1]
<1>1. visiting # <<>> /\ VisitFailure(x) # Passed /\ builder' = VisitFailure(x)
  BY DEF RefuseVisit
<1>2. x \in Closure
  BY <1>1 DEF Visiting, Pending
<1>3. CASE IsActive(x)
  BY <1>1, <1>3, VisitReasons, ActiveIsRecursive
<1>4. CASE ~IsActive(x) /\ Len(visits) >= limits.hierarchy_depth /\ x \notin visited
  BY <1>1, <1>4, VisitReasons, DeepIsDeep
<1>5. CASE ~IsActive(x) /\ ~(Len(visits) >= limits.hierarchy_depth /\ x \notin visited)
  BY <1>1, <1>2, <1>5, VisitReasons
<1>6. QED
  BY <1>3, <1>4, <1>5
(***************************************************************************)
(* The invariant of the builder.                                           *)
(***************************************************************************)
NetsBuilt ==
  \A s \in DOMAIN graph : \A m \in DOMAIN graph[s].nets : graph[s].nets[m] = NetId(s, m)

Refused ==
  /\ builder = "recursive" => \E s \in Closure : IsRecursive(s)
  /\ builder = "undefined" => ~(Closure \subseteq Scopes)
  /\ builder = "depth" => \E c \in Chains : Len(c) > limits.hierarchy_depth

TopErrors == {"unknown top", "ambiguous"}
Complete == {"building", "accepted", "arity", "undeclared"}
Refusals == {"recursive", "undefined", "depth"}

BuilderInv ==
  /\ builder \in {"idle", "selecting", "closing"} \cup TopErrors \cup Complete \cup Refusals
  /\ builder \in {"idle", "selecting"} => visits = <<>> /\ visited = {} /\ visiting = <<>>
  /\ builder # "idle" => LibraryFinite
  /\ builder \in {"closing"} \cup Complete \cup Refusals => Selected
  /\ builder = "closing" => Visiting
  /\ builder \in Complete => Done
  /\ Refused
  /\ builder = "accepted" => NetsBuilt

LEMMA TopErrorsDiffer == \A w \in TopErrors : w \notin {"idle", "selecting", "closing"} \cup Complete \cup Refusals
BY Zenon DEF TopErrors, Complete, Refusals

LEMMA SameBuilder ==
  ASSUME UNCHANGED builderVars, limits' = limits
  PROVE  BuilderInv <=> BuilderInv'
<1>1. /\ library' = library /\ requested' = requested /\ top' = top /\ visiting' = visiting /\ visits' = visits
      /\ visited' = visited /\ builder' = builder /\ graph' = graph
  BY DEF builderVars
<1>2. /\ Scopes' = Scopes /\ References' = References /\ Elements' = Elements /\ Closure' = Closure
      /\ (LibraryFinite <=> LibraryFinite') /\ (\A t : InstancesOf(t)' = InstancesOf(t))
      /\ (\A t : (IsRecursive(t)' <=> IsRecursive(t))) /\ (Selected <=> Selected')
  BY <1>1, SameLibrary
<1>3. Running <=> Running'
  BY <1>1, <1>2 DEF Running
<1>4. Passing <=> Passing'
  BY <1>1, <1>2 DEF Passing
<1>5. (Pending <=> Pending') /\ (Behind <=> Behind') /\ (Done <=> Done')
  BY <1>1, <1>2 DEF Pending, Behind, Done
<1>6. Visiting <=> Visiting'
  BY <1>3, <1>4, <1>5 DEF Visiting
<1>7. Chains' = Chains
  BY <1>1, <1>2 DEF Chains
<1>8. Refused <=> Refused'
  BY <1>1, <1>2, <1>7 DEF Refused
<1>9. NetsBuilt <=> NetsBuilt'
  BY <1>1 DEF NetsBuilt, NetId
<1>10. QED
  BY <1>1, <1>2, <1>5, <1>6, <1>8, <1>9 DEF BuilderInv

LEMMA SelectTopKeeps == BuilderInv /\ SelectTop => BuilderInv'
<1>1. SUFFICES ASSUME BuilderInv, SelectTop PROVE BuilderInv'
  OBVIOUS
<1>2. LibraryFinite /\ builder = "selecting" /\ visits = <<>> /\ visited = {} /\ visiting = <<>> /\ library' = library
  BY <1>1 DEF BuilderInv, SelectTop
<1>3. LibraryFinite'
  BY <1>2, SameLibrary
<1>4. \/ builder' \in TopErrors
      \/ builder' = "closing" /\ Selected' /\ Visiting'
  BY <1>1, <1>2, SelectStarts DEF TopErrors
<1>5. CASE builder' \in TopErrors
  BY <1>3, <1>5, TopErrorsDiffer DEF BuilderInv, Complete, Refusals, Refused
<1>6. CASE builder' = "closing" /\ Selected' /\ Visiting'
  BY <1>3, <1>6 DEF BuilderInv, Complete, Refusals, Refused
<1>7. QED
  BY <1>4, <1>5, <1>6

LEMMA RefuseVisitKeeps == BuilderInv /\ limits.hierarchy_depth \in Int /\ limits' = limits /\ RefuseVisit => BuilderInv'
<1>1. SUFFICES ASSUME BuilderInv, limits.hierarchy_depth \in Int, limits' = limits, RefuseVisit PROVE BuilderInv'
  OBVIOUS
<1>2. /\ LibraryFinite /\ builder = "closing" /\ Selected /\ Visiting
      /\ library' = library /\ top' = top /\ requested' = requested
  BY <1>1 DEF BuilderInv, RefuseVisit
<1>3. /\ Scopes' = Scopes /\ References' = References /\ Closure' = Closure /\ LibraryFinite' /\ Selected'
      /\ (\A t : (IsRecursive(t)' <=> IsRecursive(t)))
  BY <1>2, SameLibrary
<1>4. Chains' = Chains
  BY <1>2, <1>3 DEF Chains
<1>5. \/ builder' = "recursive" /\ \E s \in Closure : IsRecursive(s)
      \/ builder' = "depth" /\ \E c \in Chains : Len(c) > limits.hierarchy_depth
      \/ builder' = "undefined" /\ ~(Closure \subseteq Scopes)
  BY <1>1, <1>2, RefusalIsTrue
<1>6. Refused' /\ builder' \in Refusals
  BY <1>1, <1>3, <1>4, <1>5 DEF Refused, Refusals
<1>7. QED
  BY <1>3, <1>6 DEF BuilderInv, Complete, Refusals

LEMMA ClosingKeeps == BuilderInv /\ (Visit \/ NextInstance \/ Leave) => BuilderInv'
<1>1. SUFFICES ASSUME BuilderInv, Visit \/ NextInstance \/ Leave PROVE BuilderInv'
  OBVIOUS
<1>2. /\ LibraryFinite /\ builder = "closing" /\ Selected /\ Visiting
      /\ library' = library /\ top' = top /\ requested' = requested
  BY <1>1 DEF BuilderInv, Visit, NextInstance, Leave
<1>3. LibraryFinite' /\ Selected'
  BY <1>2, SameLibrary
<1>4. \/ builder' = "closing" /\ Visiting'
      \/ builder' = "building" /\ Done'
  BY <1>1, <1>2, VisitKeeps, NextInstanceKeeps, LeaveKeeps DEF Visit, NextInstance
<1>5. QED
  BY <1>3, <1>4 DEF BuilderInv, Complete, Refusals, Refused

LEMMA InstanceReasons == \A instance : InstanceFailure(instance) \in {Passed, "arity", "undeclared"}
<1>1. SUFFICES ASSUME NEW instance PROVE InstanceFailure(instance) \in {Passed, "arity", "undeclared"}
  OBVIOUS
<1> DEFINE target == library.scopes[instance.of]
           a1 == Len(instance.nets) # Len(target.ports)
           a2 == ~(DOMAIN instance.overrides \subseteq DOMAIN target.defaults)
           x1 == "arity"
           x2 == "undeclared"
<1>2. InstanceFailure(instance) = FirstFailure(<< <<a1, x1>>, <<a2, x2>> >>)
  BY Zenon DEF InstanceFailure
<1>3. x1 # Passed /\ x2 # Passed
  BY DEF Passed
<1> HIDE DEF a1, a2, x1, x2
<1>4. FirstFailure(<< <<a1, x1>>, <<a2, x2>> >>) = Passed <=> ~a1 /\ ~a2
  BY <1>3, TwoChecks
<1>5. LET f == FirstFailure(<< <<a1, x1>>, <<a2, x2>> >>) IN (a1 => f = x1) /\ (~a1 /\ a2 => f = x2)
  BY TwoReasons
<1>6. QED
  BY <1>2, <1>4, <1>5 DEF x1, x2

LEMMA BuildKeeps == BuilderInv /\ (RefuseBuild \/ Build) => BuilderInv'
<1>1. SUFFICES ASSUME BuilderInv, RefuseBuild \/ Build PROVE BuilderInv'
  OBVIOUS
<1>2. /\ LibraryFinite /\ builder = "building" /\ Selected /\ Done
      /\ library' = library /\ top' = top /\ requested' = requested /\ visited' = visited
  BY <1>1 DEF BuilderInv, RefuseBuild, Build, Complete
<1>3. /\ Scopes' = Scopes /\ Closure' = Closure /\ LibraryFinite' /\ Selected'
      /\ (\A t : (IsRecursive(t)' <=> IsRecursive(t)))
  BY <1>2, SameLibrary
<1>4. Done'
  BY <1>2, <1>3 DEF Done
<1>5. CASE RefuseBuild
  <2>1. builder' \in {"arity", "undeclared"}
    BY <1>5, InstanceReasons DEF RefuseBuild
  <2>2. QED
    BY <1>3, <1>4, <2>1 DEF BuilderInv, Complete, Refusals, Refused
<1>6. CASE Build
  <2>1. builder' = "accepted"
    BY <1>6 DEF Build
  <2>2. \A s, m : NetId(s, m)' = NetId(s, m)
    BY <1>2 DEF NetId
  <2>3. NetsBuilt'
    BY <1>6, <2>2 DEF Build, NetsBuilt
  <2>4. QED
    BY <1>3, <1>4, <2>1, <2>3 DEF BuilderInv, Complete, Refusals, Refused
<1>7. QED
  BY <1>1, <1>5, <1>6
(***************************************************************************)
(* What the parser hands to the builder is finite.                         *)
(***************************************************************************)
ParserFinite(p) ==
  /\ "scopes" \in DOMAIN p /\ Root \in DOMAIN p.scopes /\ IsFiniteSet(DOMAIN p.scopes)
  /\ \A s \in DOMAIN p.scopes : "elements" \in DOMAIN p.scopes[s] /\ IsFiniteSet(DOMAIN p.scopes[s].elements)

LEMMA VerdictIsApart ==
  ASSUME NEW p, ParserFinite(p), NEW v
  PROVE  ParserFinite([p EXCEPT !.verdict = v])
BY DEF ParserFinite

LEMMA StartIsFinite == ParserFinite(Start)
<1>1. /\ "scopes" \in DOMAIN Start /\ DOMAIN Start.scopes = {Root} /\ DOMAIN Start.scopes[Root].elements = {}
      /\ "elements" \in DOMAIN Start.scopes[Root]
  BY DEF Start
<1>2. IsFiniteSet({Root}) /\ IsFiniteSet({})
  BY FS_Singleton, FS_EmptySet
<1>3. QED
  BY <1>1, <1>2 DEF ParserFinite

LEMMA GrownIsFinite ==
  ASSUME NEW f, NEW x, NEW v, IsFiniteSet(DOMAIN f)
  PROVE  IsFiniteSet(DOMAIN Entered(f, x, v))
<1>1. DOMAIN Entered(f, x, v) = DOMAIN f \cup {x}
  BY DEF Entered
<1>2. QED
  BY <1>1, FS_AddElement

LEMMA TakenIsFinite ==
  ASSUME NEW p, ParserFinite(p), NEW line
  PROVE  ParserFinite(Taken(p, line))
<1>1. CASE line.op = ".subckt"
  <2> DEFINE scope == [ports |-> Positional(line.tokens), defaults |-> Parameters(Trailing(line.tokens)),
                       elements |-> <<>>]
             grown == Entered(p.scopes, line.name, scope)
  <2>1. Taken(p, line) = [p EXCEPT !.current = line.name, !.scopes = grown]
    BY <1>1 DEF Taken
  <2>2. "elements" \in DOMAIN scope /\ DOMAIN scope.elements = {} /\ IsFiniteSet({})
    BY FS_EmptySet
  <2> HIDE DEF scope, grown
  <2>3. /\ IsFiniteSet(DOMAIN grown) /\ DOMAIN grown = {line.name} \cup DOMAIN p.scopes /\ grown[line.name] = scope
        /\ \A y \in DOMAIN p.scopes \ {line.name} : grown[y] = p.scopes[y]
    <3>1. IsFiniteSet(DOMAIN p.scopes)
      BY DEF ParserFinite
    <3>2. IsFiniteSet(DOMAIN grown)
      BY <3>1, GrownIsFinite DEF grown
    <3>3. DOMAIN grown = {line.name} \cup DOMAIN p.scopes /\ grown[line.name] = scope
          /\ \A y \in DOMAIN p.scopes \ {line.name} : grown[y] = p.scopes[y]
      BY DEF grown, Entered
    <3>4. QED
      BY <3>2, <3>3
  <2>4. Taken(p, line).scopes = grown /\ "scopes" \in DOMAIN Taken(p, line)
    BY <2>1 DEF ParserFinite
  <2>5. QED
    BY <2>2, <2>3, <2>4 DEF ParserFinite
<1>2. CASE line.op = "element"
  <2> DEFINE c == p.current
             grown == Entered(p.scopes[c].elements, line.name, Element(line))
  <2>1. Taken(p, line) = [p EXCEPT !.count = @ + 1, !.scopes[c].elements = grown]
    BY <1>2 DEF Taken
  <2>2. c \in DOMAIN p.scopes => IsFiniteSet(DOMAIN grown)
    BY GrownIsFinite DEF ParserFinite
  <2> HIDE DEF c, grown
  <2>3. /\ "scopes" \in DOMAIN Taken(p, line)
        /\ Taken(p, line).scopes = [p.scopes EXCEPT ![c] = [p.scopes[c] EXCEPT !.elements = grown]]
    BY <2>1 DEF ParserFinite
  <2>4. /\ DOMAIN Taken(p, line).scopes = DOMAIN p.scopes
        /\ \A s \in DOMAIN p.scopes \ {c} : Taken(p, line).scopes[s] = p.scopes[s]
        /\ c \in DOMAIN p.scopes => /\ Taken(p, line).scopes[c].elements = grown
                                    /\ "elements" \in DOMAIN Taken(p, line).scopes[c]
    BY <2>3 DEF ParserFinite
  <2>5. QED
    BY <2>2, <2>3, <2>4 DEF ParserFinite
<1>3. CASE line.op \notin {".subckt", "element"}
  <2>1. Taken(p, line).scopes = p.scopes /\ "scopes" \in DOMAIN Taken(p, line)
    <3>1. CASE line.op = ".ends"
      BY <3>1 DEF Taken, Closed, ParserFinite
    <3>2. CASE line.op = ".global"
      BY <3>2 DEF Taken, ParserFinite
    <3>3. CASE line.op \notin {".ends", ".global"}
      BY <1>3, <3>3 DEF Taken, ParserFinite
    <3>4. QED
      BY <3>1, <3>2, <3>3
  <2>2. QED
    BY <2>1 DEF ParserFinite
<1>4. QED
  BY <1>1, <1>2, <1>3

LEMMA ParserNextKeeps == ParserFinite(parser) /\ ParserNext => ParserFinite(parser')
<1>1. SUFFICES ASSUME ParserFinite(parser), ParserNext PROVE ParserFinite(parser')
  OBVIOUS
<1>2. CASE ReadStatement
  <2>1. parser' = Step(parser, statements[at])
    BY <1>2 DEF ReadStatement
  <2>2. \/ parser' = parser \/ parser' = Taken(parser, statements[at])
        \/ parser' = [parser EXCEPT !.verdict = StatementFailure(parser, statements[at])]
    BY <2>1 DEF Step
  <2>3. QED
    BY <1>1, <2>2, TakenIsFinite, VerdictIsApart
<1>3. CASE EndParse
  <2>1. parser' = Ended(parser)
    BY <1>3 DEF EndParse
  <2> DEFINE v == IF parser.current # Root THEN "unclosed"
                  ELSE IF \A s \in DOMAIN parser.scopes : parser.scopes[s].elements = <<>> THEN "empty"
                  ELSE "accepted"
  <2>2. parser' = parser \/ parser' = [parser EXCEPT !.verdict = v]
    BY <2>1 DEF Ended
  <2> HIDE DEF v
  <2>3. QED
    BY <1>1, <2>2, VerdictIsApart
<1>4. QED
  BY <1>1, <1>2, <1>3 DEF ParserNext

LEMMA LibraryIsFinite ==
  ASSUME ParserFinite(parser), library' = Library
  PROVE  LibraryFinite'
<1> DEFINE primitives(s) == {e \in DOMAIN parser.scopes[s].elements : parser.scopes[s].elements[e].family # "x"}
<1>1. Scopes' = DOMAIN parser.scopes
  BY DEF Scopes, Library
<1>2. \A s \in DOMAIN parser.scopes :
        DOMAIN (InstancesOf(s)') = DOMAIN parser.scopes[s].elements \ primitives(s)
  BY DEF InstancesOf, Library
<1>3. ASSUME NEW s \in DOMAIN parser.scopes PROVE IsFiniteSet(DOMAIN parser.scopes[s].elements \ primitives(s))
  <2>1. DOMAIN parser.scopes[s].elements \ primitives(s) \in SUBSET DOMAIN parser.scopes[s].elements
    OBVIOUS
  <2>2. QED
    BY <2>1, FS_Subset DEF ParserFinite
<1> HIDE DEF primitives
<1>4. Root \in Scopes' /\ IsFiniteSet(Scopes') /\ \A s \in Scopes' : IsFiniteSet(DOMAIN (InstancesOf(s)'))
  BY <1>1, <1>2, <1>3 DEF ParserFinite
<1>5. QED
  BY <1>4 DEF LibraryFinite
(***************************************************************************)
(* The whole call.                                                         *)
(***************************************************************************)
NetlistInv == limits.hierarchy_depth \in Int /\ ParserFinite(parser) /\ BuilderInv

LEMMA NetlistStart == Init => NetlistInv
<1>1. SUFFICES ASSUME Init PROVE NetlistInv
  OBVIOUS
<1>2. limits.hierarchy_depth \in Int
  BY DepthAssumption, <1>1 DEF Init, ReaderInit
<1>3. ParserFinite(parser)
  BY <1>1, StartIsFinite, VerdictIsApart DEF Init, ParserInit
<1>4. builder = "idle" /\ visits = <<>> /\ visited = {} /\ visiting = <<>>
  BY <1>1 DEF Init, BuilderInit
<1>5. BuilderInv
  BY <1>4 DEF BuilderInv, Complete, Refusals, Refused
<1>6. QED
  BY <1>2, <1>3, <1>5 DEF NetlistInv

LEMMA StartBuildKeeps ==
  ASSUME NetlistInv, StartBuild
  PROVE  ParserFinite(parser') /\ BuilderInv'
<1>1. PICK name \in Tops \cup {Root, NoTop} : StartBuilding(Library, name)
  BY DEF StartBuild
<1>2. ParserFinite(parser) /\ BuilderInv /\ parser' = [parser EXCEPT !.verdict = "returned"]
  BY DEF NetlistInv, StartBuild
<1>3. /\ builder = "idle" /\ builder' = "selecting" /\ library' = Library
      /\ visits' = visits /\ visited' = visited /\ visiting' = visiting
  BY <1>1 DEF StartBuilding
<1>4. LibraryFinite'
  BY <1>2, <1>3, LibraryIsFinite
<1>5. visits' = <<>> /\ visited' = {} /\ visiting' = <<>>
  BY <1>2, <1>3 DEF BuilderInv
<1>6. BuilderInv'
  BY <1>3, <1>4, <1>5 DEF BuilderInv, Complete, Refusals, Refused
<1>7. QED
  BY <1>2, <1>6, VerdictIsApart

LEMMA NetlistKeeps == NetlistInv /\ [Next]_netlistVars => NetlistInv'
<1>1. SUFFICES ASSUME NetlistInv, [Next]_netlistVars PROVE NetlistInv'
  OBVIOUS
<1>2. limits.hierarchy_depth \in Int /\ ParserFinite(parser) /\ BuilderInv
  BY <1>1 DEF NetlistInv
<1>3. limits' = limits
  BY <1>1 DEF Next, Reading, StartParse, Parsing, StartBuild, Building, Finished, netlistVars
<1>4. ASSUME UNCHANGED parserVars, UNCHANGED builderVars PROVE NetlistInv'
  BY <1>2, <1>3, <1>4, SameBuilder DEF NetlistInv, parserVars
<1>5. CASE Reading
  BY <1>4, <1>5 DEF Reading
<1>6. CASE StartParse
  <2>1. parser' = Start /\ UNCHANGED builderVars
    BY <1>6 DEF StartParse, StartParsing
  <2>2. QED
    BY <1>2, <1>3, <2>1, SameBuilder, StartIsFinite DEF NetlistInv
<1>7. CASE Parsing
  <2>1. ParserNext /\ UNCHANGED builderVars
    BY <1>7 DEF Parsing
  <2>2. QED
    BY <1>2, <1>3, <2>1, SameBuilder, ParserNextKeeps DEF NetlistInv
<1>8. CASE StartBuild
  BY <1>1, <1>2, <1>3, <1>8, StartBuildKeeps DEF NetlistInv
<1>9. CASE Building
  <2>1. BuilderNext /\ parser' = parser
    BY <1>9 DEF Building, parserVars
  <2>2. BuilderInv'
    BY <1>2, <1>3, <2>1, SelectTopKeeps, RefuseVisitKeeps, ClosingKeeps, BuildKeeps DEF BuilderNext
  <2>3. QED
    BY <1>2, <1>3, <2>1, <2>2 DEF NetlistInv
<1>10. CASE UNCHANGED netlistVars
  BY <1>4, <1>10 DEF netlistVars
<1>11. CASE Finished
  BY <1>10, <1>11 DEF Finished
<1>12. QED
  BY <1>1, <1>5, <1>6, <1>7, <1>8, <1>9, <1>10, <1>11 DEF Next

LEMMA NetlistAlways == Spec => []NetlistInv
<1>1. Init => NetlistInv
  BY NetlistStart
<1>2. NetlistInv /\ [Next]_netlistVars => NetlistInv'
  BY NetlistKeeps
<1>3. QED
  BY <1>1, <1>2, PTL DEF Spec

\* A scope an unasked top leaves out is reached from a recursion.
LEMMA LeftOut ==
  ASSUME LibraryFinite, Selected, Done, requested = NoTop, top # Root,
         NEW s \in Scopes \ (visited \cup {Root})
  PROVE  \E r \in Scopes : IsRecursive(r) /\ s \in Reachable(References, {r})
<1> DEFINE W == Scopes \ (Closure \cup {Root})
<1>1. top \in Names /\ Scopes \subseteq Names
  BY DEF Selected, Names
<1>2. top \in Closure /\ \A t \in Closure : References[t] \subseteq Closure
  BY <1>1, ClosureFacts
<1>3. ASSUME NEW w \in W PROVE \E p \in W : w \in References[p]
  <2>1. w \in (Scopes \ {Root}) /\ w # top
    BY <1>2
  <2>2. w \in Referenced
    BY <2>1 DEF Selected, Candidates
  <2>3. PICK p \in Scopes : w \in ReferencesOf(p)
    BY <2>2 DEF Referenced
  <2>4. p # Root
    BY <2>3 DEF Selected
  <2>5. w \in References[p]
    BY <2>3, ReferencesFacts
  <2>6. p \notin Closure
    BY <1>2, <2>5
  <2>7. QED
    BY <2>4, <2>5, <2>6
<1>4. s \in W /\ W \in SUBSET Names
  BY <1>1 DEF Done
<1>5. IsFiniteSet(Names) /\ References \in [Names -> SUBSET Names]
  BY NamesAreFinite, ReferencesFacts
<1> HIDE DEF W
<1>6. \E r \in W : r \in Reachable(References, References[r]) /\ s \in Reachable(References, {r})
  BY <1>3, <1>4, <1>5, EndlessAncestry
<1>7. QED
  BY <1>6 DEF IsRecursive, W

LEMMA InvGivesVerdict == NetlistInv => ClosureVerdict
<1>1. SUFFICES ASSUME NetlistInv PROVE ClosureVerdict
  OBVIOUS
<1>2. BuilderInv
  BY <1>1 DEF NetlistInv
<1>3. builder \in Complete => Done /\ LibraryFinite /\ Selected
  BY <1>2 DEF BuilderInv, Complete
<1>4. /\ builder = "recursive" => \E s \in Closure : IsRecursive(s)
      /\ builder = "undefined" => ~(Closure \subseteq Scopes)
      /\ builder = "depth" => \E c \in Chains : Len(c) > limits.hierarchy_depth
  BY <1>2 DEF BuilderInv, Refused
<1>5. ASSUME builder = "accepted", requested = NoTop, top # Root, NEW s \in Scopes \ (visited \cup {Root})
      PROVE  \E r \in Scopes : IsRecursive(r) /\ s \in Reachable(References, {r})
  BY <1>3, <1>5, LeftOut DEF Complete
<1>6. builder \in {"building", "accepted", "arity", "undeclared"} =>
        visited = Closure /\ Closure \subseteq Scopes /\ \A s \in Closure : ~IsRecursive(s)
  BY <1>3 DEF Complete, Done
<1>7. QED
  BY <1>4, <1>5, <1>6 DEF ClosureVerdict

\* What the depth-first visit of _reference_closure leaves is exactly what the
\* top reaches, without a recursion or an undefined name; a refusal names a
\* defect that is there; a top nobody asked for leaves out only what a
\* recursion takes part in or uses.
THEOREM ClosureVerdictAlways == Spec => []ClosureVerdict
<1>1. NetlistInv => ClosureVerdict
  BY InvGivesVerdict
<1>2. QED
  BY <1>1, NetlistAlways, PTL

LEMMA InvGivesSharing == NetlistInv => SharedNetsAreGlobal
<1>1. SUFFICES ASSUME NetlistInv, builder = "accepted",
                      NEW s \in DOMAIN graph, NEW t \in DOMAIN graph, s # t,
                      NEW m \in DOMAIN graph[s].nets, NEW n \in DOMAIN graph[t].nets
               PROVE  graph[s].nets[m] = graph[t].nets[n] <=> m = n /\ m \in library.globals
  BY DEF SharedNetsAreGlobal
<1>2. NetsBuilt
  BY <1>1 DEF NetlistInv, BuilderInv
<1>3. graph[s].nets[m] = NetId(s, m) /\ graph[t].nets[n] = NetId(t, n)
  BY <1>2 DEF NetsBuilt
<1>4. NetId(s, m) = NetId(t, n) <=> m = n /\ m \in library.globals
  BY <1>1 DEF NetId
<1>5. QED
  BY <1>3, <1>4

\* Two scopes of an accepted graph share exactly the global nets, whatever the
\* scopes are called, "__global__" included: whether a net is global depends
\* on its name alone.
THEOREM SharedNetsAreGlobalAlways == Spec => []SharedNetsAreGlobal
<1>1. NetlistInv => SharedNetsAreGlobal
  BY InvGivesSharing
<1>2. QED
  BY <1>1, NetlistAlways, PTL
(***************************************************************************)
(* The parser: blocks, scopes and the tokens of a line.                    *)
(***************************************************************************)
LEMMA SubSeqFacts ==
  ASSUME NEW S, NEW s \in Seq(S), NEW m \in Nat, NEW n \in Nat, 1 <= m, m <= n + 1, n <= Len(s)
  PROVE  /\ SubSeq(s, m, n) \in Seq(S) /\ Len(SubSeq(s, m, n)) = n - m + 1
         /\ DOMAIN SubSeq(s, m, n) = 1..(n - m + 1)
         /\ \A i \in 1..(n - m + 1) : SubSeq(s, m, n)[i] = s[m + i - 1]
<1>1. Len(s) \in Nat /\ DOMAIN s = 1..Len(s)
  OBVIOUS
<1>2. CASE m = n + 1
  <2>1. SubSeq(s, m, n) = <<>>
    BY <1>1, <1>2
  <2>2. QED
    BY <1>2, <2>1
<1>3. CASE m <= n
  <2>1. \A i \in 1..(n - m + 1) : m + i - 1 \in 1..Len(s) /\ s[m + i - 1] \in S
    BY <1>1
  <2>2. SubSeq(s, m, n) = [i \in 1..(n - m + 1) |-> s[m + i - 1]]
    BY <1>1, <1>3
  <2>3. SubSeq(s, m, n) \in Seq(S)
    BY <1>1, <1>3
  <2>4. n - m + 1 \in Nat
    BY <1>3
  <2>5. Len(SubSeq(s, m, n)) = n - m + 1
    BY <1>1, <1>3
  <2>6. QED
    BY <2>1, <2>2, <2>3, <2>4, <2>5
<1>4. QED
  BY <1>2, <1>3

\* Checks that pass have no true condition, however the reasons are found.
LEMMA NothingFails ==
  ASSUME NEW n \in Nat, NEW checks, Len(checks) = n,
         \A i \in 1..n : checks[i][1] => checks[i][2] # Passed, FirstFailure(checks) = Passed
  PROVE  \A i \in 1..n : ~checks[i][1]
<1> DEFINE failing == {i \in 1..Len(checks) : checks[i][1]}
           first == IF failing # {} THEN Min(failing) ELSE 0
<1>1. FirstFailure(checks) = IF first = 0 THEN Passed ELSE checks[first][2]
  BY Zenon DEF FirstFailure, SelectInSeq
<1>2. /\ failing \subseteq 1..n
      /\ failing = {} => \A i \in 1..n : ~checks[i][1]
      /\ \A i \in failing : checks[i][2] # Passed
  BY Zenon
<1> HIDE DEF failing
<1>3. ASSUME failing # {} PROVE FALSE
  <2>1. failing \in SUBSET Nat
    BY <1>2
  <2>2. Min(failing) \in failing
    BY <1>3, <2>1, MinFacts
  <2>3. first = Min(failing)
    BY <1>3
  <2> HIDE DEF first
  <2>4. first # 0 /\ checks[first][2] # Passed
    BY <1>2, <2>2, <2>3
  <2>5. QED
    BY <1>1, <2>4
<1>4. QED
  BY <1>2, <1>3

LEMMA NothingFails2 ==
  ASSUME NEW checks, Len(checks) = 2, FirstFailure(checks) = Passed,
         NEW a1, NEW a2,
         NEW x1, NEW x2,
         checks[1] = <<a1, x1>>, checks[2] = <<a2, x2>>,
         a1 => x1 # Passed, a2 => x2 # Passed
  PROVE  ~a1 /\ ~a2
<1>1. /\ checks[1][1] = a1 /\ checks[2][1] = a2
      /\ checks[1][2] = x1 /\ checks[2][2] = x2
  OBVIOUS
<1>2. /\ \A i \in 1..2 : i = 1 \/ i = 2
      /\ 1 \in 1..2 /\ 2 \in 1..2 /\ 2 \in Nat
  OBVIOUS
<1>3. \A i \in 1..2 : checks[i][1] => checks[i][2] # Passed
  BY <1>1, <1>2, Zenon
<1>4. \A i \in 1..2 : ~checks[i][1]
  BY <1>2, <1>3, NothingFails
<1>5. QED
  BY <1>1, <1>2, <1>4, Zenon

LEMMA NothingFails3 ==
  ASSUME NEW checks, Len(checks) = 3, FirstFailure(checks) = Passed,
         NEW a1, NEW a2, NEW a3,
         NEW x1, NEW x2, NEW x3,
         checks[1] = <<a1, x1>>, checks[2] = <<a2, x2>>, checks[3] = <<a3, x3>>,
         a1 => x1 # Passed, a2 => x2 # Passed, a3 => x3 # Passed
  PROVE  ~a1 /\ ~a2 /\ ~a3
<1>1. /\ checks[1][1] = a1 /\ checks[2][1] = a2 /\ checks[3][1] = a3
      /\ checks[1][2] = x1 /\ checks[2][2] = x2 /\ checks[3][2] = x3
  OBVIOUS
<1>2. /\ \A i \in 1..3 : i = 1 \/ i = 2 \/ i = 3
      /\ 1 \in 1..3 /\ 2 \in 1..3 /\ 3 \in 1..3 /\ 3 \in Nat
  OBVIOUS
<1>3. \A i \in 1..3 : checks[i][1] => checks[i][2] # Passed
  BY <1>1, <1>2, Zenon
<1>4. \A i \in 1..3 : ~checks[i][1]
  BY <1>2, <1>3, NothingFails
<1>5. QED
  BY <1>1, <1>2, <1>4, Zenon

LEMMA NothingFails4 ==
  ASSUME NEW checks, Len(checks) = 4, FirstFailure(checks) = Passed,
         NEW a1, NEW a2, NEW a3, NEW a4,
         NEW x1, NEW x2, NEW x3, NEW x4,
         checks[1] = <<a1, x1>>, checks[2] = <<a2, x2>>, checks[3] = <<a3, x3>>, 
         checks[4] = <<a4, x4>>,
         a1 => x1 # Passed, a2 => x2 # Passed, a3 => x3 # Passed, 
         a4 => x4 # Passed
  PROVE  ~a1 /\ ~a2 /\ ~a3 /\ ~a4
<1>1. /\ checks[1][1] = a1 /\ checks[2][1] = a2 /\ checks[3][1] = a3 /\ checks[4][1] = a4
      /\ checks[1][2] = x1 /\ checks[2][2] = x2 /\ checks[3][2] = x3 /\ checks[4][2] = x4
  OBVIOUS
<1>2. /\ \A i \in 1..4 : i = 1 \/ i = 2 \/ i = 3 \/ i = 4
      /\ 1 \in 1..4 /\ 2 \in 1..4 /\ 3 \in 1..4 /\ 4 \in 1..4 /\ 4 \in Nat
  OBVIOUS
<1>3. \A i \in 1..4 : checks[i][1] => checks[i][2] # Passed
  BY <1>1, <1>2, Zenon
<1>4. \A i \in 1..4 : ~checks[i][1]
  BY <1>2, <1>3, NothingFails
<1>5. QED
  BY <1>1, <1>2, <1>4, Zenon

LEMMA NothingFails6 ==
  ASSUME NEW checks, Len(checks) = 6, FirstFailure(checks) = Passed,
         NEW a1, NEW a2, NEW a3, NEW a4, NEW a5, NEW a6,
         NEW x1, NEW x2, NEW x3, NEW x4, NEW x5, NEW x6,
         checks[1] = <<a1, x1>>, checks[2] = <<a2, x2>>, checks[3] = <<a3, x3>>, 
         checks[4] = <<a4, x4>>, checks[5] = <<a5, x5>>, checks[6] = <<a6, x6>>,
         a1 => x1 # Passed, a2 => x2 # Passed, a3 => x3 # Passed, 
         a4 => x4 # Passed, a5 => x5 # Passed, a6 => x6 # Passed
  PROVE  ~a1 /\ ~a2 /\ ~a3 /\ ~a4 /\ ~a5 /\ ~a6
<1>1. /\ checks[1][1] = a1 /\ checks[2][1] = a2 /\ checks[3][1] = a3 /\ checks[4][1] = a4 /\ checks[5][1] = a5 /\ checks[6][1] = a6
      /\ checks[1][2] = x1 /\ checks[2][2] = x2 /\ checks[3][2] = x3 /\ checks[4][2] = x4 /\ checks[5][2] = x5 /\ checks[6][2] = x6
  OBVIOUS
<1>2. /\ \A i \in 1..6 : i = 1 \/ i = 2 \/ i = 3 \/ i = 4 \/ i = 5 \/ i = 6
      /\ 1 \in 1..6 /\ 2 \in 1..6 /\ 3 \in 1..6 /\ 4 \in 1..6 /\ 5 \in 1..6 /\ 6 \in 1..6 /\ 6 \in Nat
  OBVIOUS
<1>3. \A i \in 1..6 : checks[i][1] => checks[i][2] # Passed
  BY <1>1, <1>2, Zenon
<1>4. \A i \in 1..6 : ~checks[i][1]
  BY <1>2, <1>3, NothingFails
<1>5. QED
  BY <1>1, <1>2, <1>4, Zenon

\* Parameters that pass their check are as many as their tokens.
LEMMA ParametersCount ==
  ASSUME NEW S, NEW tokens \in Seq(S), ParametersFailure(tokens) = Passed
  PROVE  IsFiniteSet(DOMAIN Parameters(tokens)) /\ Cardinality(DOMAIN Parameters(tokens)) = Len(tokens)
<1> DEFINE keyless == \E i \in DOMAIN tokens : ~IsAssignment(tokens[i])
           twice == \E i, j \in DOMAIN tokens : i # j /\ "key" \in DOMAIN tokens[i] \cap DOMAIN tokens[j]
                                                   /\ tokens[i].key = tokens[j].key
<1>1. ~keyless /\ ~twice
  <2> DEFINE checks == << <<keyless, "syntax">>, <<twice, "repeated">> >>
  <2>1. /\ FirstFailure(checks) = Passed /\ Len(checks) = 2
        /\ checks[1] = <<keyless, "syntax">> /\ checks[2] = <<twice, "repeated">>
    BY DEF ParametersFailure
  <2>2. "syntax" # Passed /\ "repeated" # Passed
    BY DEF Passed
  <2> HIDE DEF keyless, twice, checks
  <2>3. QED
    BY <2>1, <2>2, NothingFails2
<1>2. \A i, j \in DOMAIN tokens : i # j => tokens[i].key # tokens[j].key
  BY <1>1 DEF IsAssignment
<1> DEFINE D == 1..Len(tokens)
           K == DOMAIN Parameters(tokens)
           f == [i \in D |-> tokens[i].key]
<1>3. K = {tokens[i].key : i \in DOMAIN tokens} /\ DOMAIN tokens = D /\ Len(tokens) \in Nat
  BY DEF Parameters
<1> HIDE DEF keyless, twice, D, K
<1>4. f \in Bijection(D, K)
  BY <1>2, <1>3 DEF Bijection, Injection, Surjection, IsInjective
<1>5. IsFiniteSet(D) /\ Cardinality(D) = Len(tokens)
  BY <1>3, FS_Interval DEF D
<1> HIDE DEF f
<1>6. IsFiniteSet(K) /\ Cardinality(K) = Cardinality(D)
  BY <1>4, <1>5, FS_Bijection DEF ExistsBijection
<1>7. QED
  BY <1>5, <1>6 DEF K

\* The positional tokens, the marker and the trailing tokens are the line.
LEMMA LineIsSplit ==
  ASSUME NEW S, NEW tokens \in Seq(S), SplitFailure(tokens) = Passed
  PROVE  /\ Cardinality(Markers(tokens)) \in Nat
         /\ Positional(tokens) \in Seq(S) /\ Trailing(tokens) \in Seq(S)
         /\ Len(Positional(tokens)) + Cardinality(Markers(tokens)) + Len(Trailing(tokens)) = Len(tokens)
         /\ ParametersFailure(Trailing(tokens)) = Passed
<1> DEFINE M == Markers(tokens)
           P == Positional(tokens)
           T == Trailing(tokens)
           many == Cardinality(M) > 1
           mixed == \E i \in DOMAIN P : IsAssignment(P[i])
           bare == M # {} /\ T = <<>>
<1>1. ~many /\ ParametersFailure(T) = Passed
  <2> DEFINE v == ParametersFailure(T)
             wrong == v # Passed
             checks == << <<many, "markers">>, <<mixed, "marker order">>, <<bare, "empty marker">>, <<wrong, v>> >>
  <2>1. /\ FirstFailure(checks) = Passed /\ Len(checks) = 4
        /\ checks[1] = <<many, "markers">> /\ checks[2] = <<mixed, "marker order">>
        /\ checks[3] = <<bare, "empty marker">> /\ checks[4] = <<wrong, v>>
    BY DEF SplitFailure
  <2>2. /\ many => "markers" # Passed
        /\ mixed => "marker order" # Passed
        /\ bare => "empty marker" # Passed
        /\ wrong => v # Passed
    BY DEF Passed
  <2>3. ~wrong => v = Passed
    OBVIOUS
  <2> HIDE DEF many, mixed, bare, v, wrong, checks
  <2>4. ~many /\ ~wrong
    BY <2>1, <2>2, NothingFails4
  <2>5. QED
    BY <2>3, <2>4 DEF v
<1>2. Len(tokens) \in Nat /\ DOMAIN tokens = 1..Len(tokens) /\ M \in SUBSET (1..Len(tokens))
  BY DEF Markers
<1>3. IsFiniteSet(M) /\ Cardinality(M) \in Nat /\ (M = {} <=> Cardinality(M) = 0)
  <2>1. IsFiniteSet(1..Len(tokens))
    BY <1>2, FS_Interval
  <2> HIDE DEF M
  <2>2. IsFiniteSet(M)
    BY <1>2, <2>1, FS_Subset
  <2>3. QED
    BY <2>2, FS_CardinalityType, FS_EmptySet
<1>4. Cardinality(M) = IF M = {} THEN 0 ELSE 1
  BY <1>1, <1>3
<1> HIDE DEF many
<1> DEFINE A == {i \in 1..Len(tokens) : IsAssignment(tokens[i])}
           stop == IF M # {} THEN SelectInSeq(tokens, LAMBDA t : t = Marker)
                   ELSE SelectInSeq(tokens, IsAssignment)
<1>5. stop \in 0..Len(tokens) /\ (M # {} => stop # 0)
  <2>1. CASE M # {}
    <3>1. {i \in 1..Len(tokens) : tokens[i] = Marker} = M
      BY <1>2 DEF Markers
    <3>2. SelectInSeq(tokens, LAMBDA t : t = Marker) = Min(M)
      BY <2>1, <3>1 DEF SelectInSeq
    <3>3. M \in SUBSET Nat
      BY <1>2
    <3>4. Min(M) \in M
      BY <2>1, <3>3, MinFacts
    <3> HIDE DEF M
    <3>5. QED
      BY <1>2, <2>1, <3>2, <3>4
  <2>2. CASE M = {}
    <3>1. SelectInSeq(tokens, IsAssignment) = IF A # {} THEN Min(A) ELSE 0
      BY DEF SelectInSeq
    <3>2. A \in SUBSET Nat /\ A \subseteq 1..Len(tokens)
      OBVIOUS
    <3> HIDE DEF A
    <3>3. A # {} => Min(A) \in A
      BY <3>2, MinFacts
    <3>4. SelectInSeq(tokens, IsAssignment) \in 0..Len(tokens)
      <4>1. A # {} => Min(A) \in 1..Len(tokens)
        BY <3>2, <3>3
      <4>2. QED
        BY <1>2, <3>1, <4>1
    <3>5. stop = SelectInSeq(tokens, IsAssignment)
      BY <2>2
    <3> HIDE DEF stop
    <3>6. QED
      BY <2>2, <3>4, <3>5
  <2>3. QED
    BY <2>1, <2>2
<1>6. P = IF stop = 0 THEN tokens ELSE SubSeq(tokens, 1, stop - 1)
  BY DEF Positional
<1>7. T = SubSeq(tokens, Len(P) + 1 + Cardinality(M), Len(tokens))
  BY DEF Trailing
<1> HIDE DEF stop, M, P, T
<1>8. P \in Seq(S) /\ Len(P) = IF stop = 0 THEN Len(tokens) ELSE stop - 1
  <2>1. CASE stop = 0
    BY <1>6, <2>1
  <2>2. CASE stop # 0
    <3>1. 1 \in Nat /\ stop - 1 \in Nat /\ 1 <= stop - 1 + 1 /\ stop - 1 <= Len(tokens)
      BY <1>2, <1>5, <2>2
    <3>2. SubSeq(tokens, 1, stop - 1) \in Seq(S) /\ Len(SubSeq(tokens, 1, stop - 1)) = stop - 1 - 1 + 1
      BY <3>1, SubSeqFacts
    <3>3. QED
      BY <1>6, <2>2, <3>1, <3>2
  <2>3. QED
    BY <2>1, <2>2
<1>9. Len(P) \in Nat /\ Len(P) + Cardinality(M) <= Len(tokens)
  <2>1. CASE stop = 0
    <3>1. M = {} /\ Len(P) = Len(tokens)
      BY <1>5, <1>8, <2>1
    <3>2. QED
      BY <1>2, <1>4, <3>1
  <2>2. CASE stop # 0
    <3>1. Len(P) = stop - 1 /\ stop - 1 \in Nat /\ stop - 1 + 1 <= Len(tokens)
      BY <1>2, <1>5, <1>8, <2>2
    <3>2. Cardinality(M) = 0 \/ Cardinality(M) = 1
      BY <1>4
    <3>3. QED
      BY <1>2, <3>1, <3>2
  <2>3. QED
    BY <2>1, <2>2
<1>10. T \in Seq(S) /\ Len(T) = Len(tokens) - (Len(P) + Cardinality(M))
  <2> DEFINE k == Len(P) + Cardinality(M)
  <2>1. k \in Nat /\ k <= Len(tokens) /\ Len(P) + 1 + Cardinality(M) = k + 1
    BY <1>3, <1>9
  <2>2. T = SubSeq(tokens, k + 1, Len(tokens))
    BY <1>7, <2>1
  <2> HIDE DEF k
  <2>3. /\ k + 1 \in Nat /\ Len(tokens) \in Nat /\ 1 <= k + 1 /\ k + 1 <= Len(tokens) + 1
        /\ Len(tokens) <= Len(tokens)
    BY <1>2, <2>1
  <2>4. T \in Seq(S) /\ Len(T) = Len(tokens) - (k + 1) + 1
    BY <2>2, <2>3, SubSeqFacts
  <2>5. T \in Seq(S) /\ Len(T) = Len(tokens) - k
    BY <1>2, <2>1, <2>4
  <2>6. QED
    BY <2>5 DEF k
<1>11. Len(P) + Cardinality(M) + Len(T) = Len(tokens)
  BY <1>2, <1>3, <1>9, <1>10
<1>12. QED
  BY <1>1, <1>3, <1>8, <1>10, <1>11 DEF M, P, T

\* An element that is accepted accounts for every token of its line.
LEMMA InstanceIsKept ==
  ASSUME NEW S, NEW line, line.tokens \in Seq(S), line.family = "x", InstanceLineFailure(line) = Passed
  PROVE  Kept(line, Element(line)) = Len(line.tokens)
<1> DEFINE tokens == line.tokens
           P == Positional(tokens)
           T == Trailing(tokens)
<1>1. SplitFailure(tokens) = Passed /\ ~(Len(P) < 2)
  <2> DEFINE v == SplitFailure(tokens)
             wrong == v # Passed
             short == Len(P) < 2
             checks == << <<wrong, v>>, <<short, "short">> >>
  <2>1. /\ FirstFailure(checks) = Passed /\ Len(checks) = 2
        /\ checks[1] = <<wrong, v>> /\ checks[2] = <<short, "short">>
    BY DEF InstanceLineFailure
  <2>2. "short" # Passed /\ (wrong => v # Passed) /\ (~wrong => v = Passed)
    BY DEF Passed
  <2> HIDE DEF v, wrong, short, checks
  <2>3. ~wrong /\ ~short
    BY <2>1, <2>2, NothingFails2
  <2>4. QED
    BY <2>2, <2>3 DEF v, short
<1>2. /\ Cardinality(Markers(tokens)) \in Nat /\ P \in Seq(S) /\ T \in Seq(S)
      /\ Len(P) + Cardinality(Markers(tokens)) + Len(T) = Len(tokens) /\ ParametersFailure(T) = Passed
  BY <1>1, LineIsSplit
<1>3. Cardinality(DOMAIN Parameters(T)) = Len(T)
  BY <1>2, ParametersCount
<1>4. Element(line).nets = Front(P) /\ Element(line).parameters = Parameters(T)
  BY DEF Element
<1>5. Kept(line, Element(line)) = Len(Front(P)) + 1 + Len(T) + Cardinality(Markers(tokens))
  BY <1>3, <1>4 DEF Kept
<1> HIDE DEF P, T, tokens
<1>6. Front(P) = SubSeq(P, 1, Len(P) - 1)
  BY DEF Front
<1>7. Len(P) \in Nat /\ Len(P) - 1 \in Nat /\ Len(T) \in Nat
  BY <1>1, <1>2
<1>8. Len(Front(P)) = Len(P) - 1
  <2> DEFINE q == Len(P) - 1
  <2>1. 1 \in Nat /\ q \in Nat /\ 1 <= 1 /\ 1 <= q + 1 /\ q <= Len(P) /\ P \in Seq(S) /\ q - 1 + 1 = q
    BY <1>2, <1>7
  <2>2. Front(P) = SubSeq(P, 1, q)
    BY <1>6
  <2> HIDE DEF q
  <2>3. Len(SubSeq(P, 1, q)) = q - 1 + 1
    BY <2>1, SubSeqFacts
  <2>4. Len(Front(P)) = q
    BY <2>1, <2>2, <2>3
  <2>5. QED
    BY <2>4 DEF q
<1>9. QED
  BY <1>2, <1>5, <1>7, <1>8 DEF tokens

LEMMA PrimitiveIsKept ==
  ASSUME NEW S, NEW line, line.tokens \in Seq(S), line.family # "x", PrimitiveFailure(line) = Passed
  PROVE  Kept(line, Element(line)) = Len(line.tokens)
<1> DEFINE tokens == line.tokens
           n == Terminals[line.family]
           R == Rest(line)
<1>1. line.family \in DOMAIN Terminals /\ ~(Len(tokens) < n + 1)
  BY DEF PrimitiveFailure, Passed
<1>2. n \in {2, 3, 4}
  BY <1>1 DEF Terminals
<1>3. ParametersFailure(R) = Passed
  <2> DEFINE v == ParametersFailure(R)
             wrong == v # Passed
             id == \E i \in 1..Terminals[line.family] + 1 :
                     IsAssignment(line.tokens[i]) /\ (i <= Terminals[line.family] \/ ~HasValue(line.family))
             two == HasValue(line.family) /\ \E token \in ToSet(Rest(line)) : IsAssignment(token) /\ token.key = "value"
             checks == << <<id, "identifier">>, <<wrong, v>>, <<two, "repeated">> >>
  <2>1. /\ FirstFailure(checks) = Passed /\ Len(checks) = 3
        /\ checks[1] = <<id, "identifier">> /\ checks[2] = <<wrong, v>> /\ checks[3] = <<two, "repeated">>
    BY <1>1 DEF PrimitiveFailure
  <2>2. wrong => v # Passed
    OBVIOUS
  <2> HIDE DEF v, wrong, id, two, checks
  <2>3. ("identifier" # Passed) /\ ("repeated" # Passed)
    BY DEF Passed
  <2>4. ~wrong
    BY <2>1, <2>2, <2>3, NothingFails3
  <2>5. QED
    BY <2>4 DEF wrong, v
<1>4. R = SubSeq(tokens, n + 2, Len(tokens))
  BY DEF Rest
<1>5. /\ Element(line).nets = SubSeq(tokens, 1, n) /\ Element(line).parameters = Parameters(R)
  BY DEF Element
<1>6. Kept(line, Element(line)) = Len(SubSeq(tokens, 1, n)) + 1 + Cardinality(DOMAIN Parameters(R)) + 0
  BY <1>5 DEF Kept
<1> HIDE DEF R, n
<1>7. Len(tokens) \in Nat /\ n + 1 <= Len(tokens) /\ tokens \in Seq(S)
  BY <1>1, <1>2
<1> HIDE DEF tokens
<1>8. R \in Seq(S) /\ Len(R) = Len(tokens) - (n + 1) /\ Len(SubSeq(tokens, 1, n)) = n
  <2>1. /\ n + 2 \in Nat /\ 1 <= n + 2 /\ n + 2 <= Len(tokens) + 1 /\ Len(tokens) <= Len(tokens)
        /\ 1 \in Nat /\ n \in Nat /\ 1 <= n + 1 /\ n <= Len(tokens) /\ Len(tokens) \in Nat
    BY <1>2, <1>7
  <2>2. R \in Seq(S) /\ Len(R) = Len(tokens) - (n + 2) + 1
    BY <1>4, <1>7, <2>1, SubSeqFacts
  <2>3. Len(SubSeq(tokens, 1, n)) = n - 1 + 1
    BY <1>7, <2>1, SubSeqFacts
  <2>4. QED
    BY <2>1, <2>2, <2>3
<1>9. Cardinality(DOMAIN Parameters(R)) = Len(R)
  BY <1>3, <1>8, ParametersCount
<1>10. QED
  BY <1>2, <1>6, <1>7, <1>8, <1>9 DEF tokens

\* A line that is accepted passed the checks its turn makes.
LEMMA OpeningIsChecked ==
  ASSUME NEW p, NEW line, line.op = ".subckt", StatementFailure(p, line) = Passed
  PROVE  p.current = Root /\ line.name # Root /\ line.name \notin DOMAIN p.scopes
<1> DEFINE inside == p.current # Root
           short == line.tokens = <<>>
           defined == IsDefined(p, line.name)
           v == SplitFailure(line.tokens)
           unsplit == v # Passed
           ports == Positional(line.tokens) = <<>> \/ ~IsInjective(Positional(line.tokens))
           full == Cardinality(DOMAIN p.scopes) - 1 >= limits.subcircuits
           checks == << <<inside, "nested">>, <<short, "short">>, <<defined, "duplicate subcircuit">>,
                        <<unsplit, v>>, <<ports, "ports">>, <<full, "subcircuits">> >>
<1>1. /\ FirstFailure(checks) = Passed /\ Len(checks) = 6
      /\ checks[1] = <<inside, "nested">> /\ checks[2] = <<short, "short">>
      /\ checks[3] = <<defined, "duplicate subcircuit">> /\ checks[4] = <<unsplit, v>>
      /\ checks[5] = <<ports, "ports">> /\ checks[6] = <<full, "subcircuits">>
  BY DEF StatementFailure
<1>2. /\ inside => "nested" # Passed
      /\ short => "short" # Passed
      /\ defined => "duplicate subcircuit" # Passed
      /\ unsplit => v # Passed
      /\ ports => "ports" # Passed
      /\ full => "subcircuits" # Passed
  BY DEF Passed
<1> HIDE DEF inside, short, defined, v, unsplit, ports, full, checks
<1>3. ~inside /\ ~defined
  BY <1>1, <1>2, NothingFails6, ZenonT(60)
<1>4. QED
  BY <1>3 DEF inside, defined, IsDefined

LEMMA ClosingIsChecked ==
  ASSUME NEW p, NEW line, line.op = ".ends", StatementFailure(p, line) = Passed
  PROVE  p.current # Root
<1> DEFINE outside == p.current = Root
           more == line.tokens # <<>>
           other == line.name \notin {Anonymous, p.current}
           checks == << <<outside, "unopened">>, <<more, "names">>, <<other, "mismatch">> >>
<1>1. /\ FirstFailure(checks) = Passed /\ Len(checks) = 3
      /\ checks[1] = <<outside, "unopened">> /\ checks[2] = <<more, "names">> /\ checks[3] = <<other, "mismatch">>
  BY DEF StatementFailure
<1>2. "unopened" # Passed /\ "names" # Passed /\ "mismatch" # Passed
  BY DEF Passed
<1> HIDE DEF outside, more, other, checks
<1>3. ~outside
  BY <1>1, <1>2, NothingFails3
<1>4. QED
  BY <1>3 DEF outside

LEMMA ElementIsChecked ==
  ASSUME NEW p, NEW line, line.op = "element", StatementFailure(p, line) = Passed
  PROVE  /\ line.name \notin DOMAIN p.scopes[p.current].elements
         /\ line.family = "x" => InstanceLineFailure(line) = Passed
         /\ line.family # "x" => PrimitiveFailure(line) = Passed
<1> DEFINE full == p.count + 1 > limits.elements
           twice == line.name \in DOMAIN p.scopes[p.current].elements
           v == InstanceLineFailure(line)
           w == PrimitiveFailure(line)
           instance == line.family = "x" /\ v # Passed
           primitive == line.family # "x" /\ w # Passed
           checks == << <<full, "elements">>, <<twice, "duplicate element">>, <<instance, v>>, <<primitive, w>> >>
<1>1. /\ FirstFailure(checks) = Passed /\ Len(checks) = 4
      /\ checks[1] = <<full, "elements">> /\ checks[2] = <<twice, "duplicate element">>
      /\ checks[3] = <<instance, v>> /\ checks[4] = <<primitive, w>>
  BY DEF StatementFailure
<1>2. /\ full => "elements" # Passed
      /\ twice => "duplicate element" # Passed
      /\ instance => v # Passed
      /\ primitive => w # Passed
  BY DEF Passed
<1>3. /\ ~instance => (line.family = "x" => v = Passed)
      /\ ~primitive => (line.family # "x" => w = Passed)
  OBVIOUS
<1> HIDE DEF full, twice, v, w, instance, primitive, checks
<1>4. ~twice /\ ~instance /\ ~primitive
  BY <1>1, <1>2, NothingFails4
<1>5. QED
  BY <1>3, <1>4 DEF twice, v, w

LEMMA LineIsKept ==
  ASSUME NEW S, NEW p, NEW line, line.op = "element", line.tokens \in Seq(S), StatementFailure(p, line) = Passed
  PROVE  Kept(line, Element(line)) = Len(line.tokens)
<1>1. /\ line.family = "x" => InstanceLineFailure(line) = Passed
      /\ line.family # "x" => PrimitiveFailure(line) = Passed
  BY ElementIsChecked
<1>2. CASE line.family = "x"
  BY <1>1, <1>2, InstanceIsKept
<1>3. CASE line.family # "x"
  BY <1>1, <1>3, PrimitiveIsKept
<1>4. QED
  BY <1>2, <1>3

\* The block around a line.
LEMMA BlockFacts ==
  ASSUME IsText(statements), NEW i \in 1..(Len(statements) + 1)
  PROVE  /\ Len(statements) \in Nat /\ DOMAIN statements = 1..Len(statements)
         /\ Block(i) # 0 => Block(i) \in Opens /\ Block(i) < i
         /\ \A j \in Opens \cup Closes : j < i /\ Block(i) # 0 => j <= Block(i)
<1> DEFINE before == {j \in Opens \cup Closes : j < i}
<1>1. Len(statements) \in Nat /\ DOMAIN statements = 1..Len(statements)
  BY DEF IsText
<1>2. Block(i) = IF before = {} \/ Max(before) \in Closes THEN 0 ELSE Max(before)
  BY DEF Block
<1>3. before \subseteq Opens \cup Closes /\ before \in SUBSET (1..Len(statements)) /\ \A j \in before : j < i
  BY <1>1 DEF Opens, Closes
<1>4. \A j \in Opens \cup Closes : j < i => j \in before
  OBVIOUS
<1> HIDE DEF before
<1>5. before # {} => Max(before) \in before /\ \A x \in before : x <= Max(before)
  BY <1>1, <1>3, MaxFacts
<1>6. QED
  BY <1>1, <1>2, <1>3, <1>4, <1>5

LEMMA BlockOfNext ==
  ASSUME IsText(statements), NEW i \in 1..Len(statements)
  PROVE  /\ i \in Opens => Block(i + 1) = i
         /\ i \in Closes => Block(i + 1) = 0
         /\ i \notin Opens \cup Closes => Block(i + 1) = Block(i)
<1> DEFINE B(k) == {j \in Opens \cup Closes : j < k}
<1>1. Len(statements) \in Nat /\ DOMAIN statements = 1..Len(statements)
  BY DEF IsText
<1>2. Block(i + 1) = IF B(i + 1) = {} \/ Max(B(i + 1)) \in Closes THEN 0 ELSE Max(B(i + 1))
  BY DEF Block
<1>3. Block(i) = IF B(i) = {} \/ Max(B(i)) \in Closes THEN 0 ELSE Max(B(i))
  BY DEF Block
<1>4. Opens \cup Closes \subseteq 1..Len(statements) /\ Opens \cap Closes = {}
  BY <1>1 DEF Opens, Closes
<1>5. CASE i \in Opens \cup Closes
  <2>1. i \in B(i + 1) /\ B(i + 1) \in SUBSET (1..Len(statements)) /\ \A j \in B(i + 1) : j <= i
    BY <1>1, <1>4, <1>5
  <2> HIDE DEF B
  <2>2. Max(B(i + 1)) \in B(i + 1) /\ \A x \in B(i + 1) : x <= Max(B(i + 1))
    BY <1>1, <2>1, MaxFacts
  <2>3. Max(B(i + 1)) \in 1..Len(statements) /\ Max(B(i + 1)) <= i /\ i <= Max(B(i + 1))
    BY <2>1, <2>2
  <2>4. Max(B(i + 1)) = i
    BY <1>1, <2>3
  <2>5. B(i + 1) # {}
    BY <2>1
  <2>6. Block(i + 1) = IF i \in Closes THEN 0 ELSE i
    BY <1>2, <2>4, <2>5
  <2>7. QED
    BY <1>4, <1>5, <2>6
<1>6. CASE i \notin Opens \cup Closes
  <2>1. B(i + 1) = B(i)
    BY <1>1, <1>4, <1>6
  <2> HIDE DEF B
  <2>2. QED
    BY <1>2, <1>3, <1>6, <2>1
<1>7. QED
  BY <1>5, <1>6

\* What has been read before line k: every block is closed but the one around
\* line k, and the scopes hold the elements of the lines.
BlocksRead(k) ==
  /\ \A i \in Opens : i < k => Block(i) = 0 /\ statements[i].name # Root
  /\ \A j \in Closes : j < k => Block(j) # 0
  /\ \A i \in Opens : i < k => Block(k) = i \/ \E j \in Closes : j < k /\ Block(j) = i
ElementLines(k) == {i \in 1..(k - 1) : statements[i].op = "element"}
PlacedIn(p) == UNION {{s} \X DOMAIN p.scopes[s].elements : s \in DOMAIN p.scopes}
Shaped(p) ==
  {"current", "scopes"} \subseteq DOMAIN p /\ \A s \in DOMAIN p.scopes : "elements" \in DOMAIN p.scopes[s]
KeptIn(p, i) ==
  /\ Owner(i) \in DOMAIN p.scopes
  /\ statements[i].name \in DOMAIN p.scopes[Owner(i)].elements
  /\ Kept(statements[i], p.scopes[Owner(i)].elements[statements[i].name]) = Len(statements[i].tokens)
ScopesRead(p, k) ==
  /\ Shaped(p)
  /\ p.current = Owner(k)
  /\ DOMAIN p.scopes = {Root} \cup {statements[i].name : i \in {j \in Opens : j < k}}
  /\ \A i \in ElementLines(k) : KeptIn(p, i)
  /\ IsFiniteSet(PlacedIn(p)) /\ Cardinality(PlacedIn(p)) = Cardinality(ElementLines(k))

LEMMA BlocksGoOn ==
  ASSUME IsText(statements), NEW k \in 1..Len(statements), BlocksRead(k),
         k \in Opens => Block(k) = 0 /\ statements[k].name # Root,
         k \in Closes => Block(k) # 0
  PROVE  BlocksRead(k + 1)
<1>1. Opens \cup Closes \subseteq 1..Len(statements) /\ Opens \cap Closes = {} /\ Len(statements) \in Nat
  BY DEF Opens, Closes, IsText
<1>2. \A i \in Opens \cup Closes : i < k + 1 <=> i < k \/ i = k
  BY <1>1
<1>3. /\ k \in Opens => Block(k + 1) = k
      /\ k \in Closes => Block(k + 1) = 0
      /\ k \notin Opens \cup Closes => Block(k + 1) = Block(k)
  BY BlockOfNext
<1>4. ASSUME NEW i \in Opens, i < k + 1 PROVE Block(k + 1) = i \/ \E j \in Closes : j < k + 1 /\ Block(j) = i
  <2>1. CASE i = k
    BY <1>3, <2>1
  <2>2. CASE i < k
    <3>1. Block(k) = i \/ \E j \in Closes : j < k /\ Block(j) = i
      BY <2>2 DEF BlocksRead
    <3>2. CASE \E j \in Closes : j < k /\ Block(j) = i
      BY <1>2, <3>2
    <3>3. CASE Block(k) = i
      <4>1. i # 0
        BY <1>1
      <4>2. CASE k \in Closes
        BY <1>2, <3>3, <4>2
      <4>3. CASE k \notin Closes
        BY <1>3, <3>3, <4>1, <4>3
      <4>4. QED
        BY <4>2, <4>3
    <3>4. QED
      BY <3>1, <3>2, <3>3
  <2>3. QED
    BY <1>2, <1>4, <2>1, <2>2
<1>5. \A i \in Opens : i < k + 1 => Block(i) = 0 /\ statements[i].name # Root
  BY <1>2 DEF BlocksRead
<1>6. \A j \in Closes : j < k + 1 => Block(j) # 0
  BY <1>2 DEF BlocksRead
<1>7. QED
  BY <1>4, <1>5, <1>6 DEF BlocksRead

\* What a line does to the parser, field by field.
LEMMA OpeningTaken ==
  ASSUME NEW p, Shaped(p), NEW line, line.op = ".subckt", line.name \notin DOMAIN p.scopes
  PROVE  LET q == Taken(p, line)
         IN  /\ Shaped(q) /\ q.current = line.name /\ DOMAIN q.scopes = DOMAIN p.scopes \cup {line.name}
             /\ DOMAIN q.scopes[line.name].elements = {}
             /\ \A s \in DOMAIN p.scopes : q.scopes[s] = p.scopes[s]
<1> DEFINE q == Taken(p, line)
           scope == [ports |-> Positional(line.tokens), defaults |-> Parameters(Trailing(line.tokens)),
                     elements |-> <<>>]
           grown == Entered(p.scopes, line.name, scope)
<1>1. q = [p EXCEPT !.current = line.name, !.scopes = grown]
  BY DEF Taken
<1>2. "elements" \in DOMAIN scope /\ DOMAIN scope.elements = {}
  OBVIOUS
<1> HIDE DEF scope
<1>3. /\ DOMAIN grown = DOMAIN p.scopes \cup {line.name} /\ grown[line.name] = scope
      /\ \A s \in DOMAIN p.scopes : grown[s] = p.scopes[s]
  BY DEF Entered
<1> HIDE DEF grown
<1>4. q.current = line.name /\ q.scopes = grown /\ {"current", "scopes"} \subseteq DOMAIN q
  BY <1>1 DEF Shaped
<1> HIDE DEF q
<1>5. \A s \in DOMAIN q.scopes : "elements" \in DOMAIN q.scopes[s]
  BY <1>2, <1>3, <1>4 DEF Shaped
<1>6. QED
  BY <1>2, <1>3, <1>4, <1>5 DEF Shaped, q

LEMMA ElementTaken ==
  ASSUME NEW p, Shaped(p), NEW line, line.op = "element", p.current \in DOMAIN p.scopes,
         line.name \notin DOMAIN p.scopes[p.current].elements
  PROVE  LET q == Taken(p, line)
             c == p.current
         IN  /\ Shaped(q) /\ q.current = c /\ DOMAIN q.scopes = DOMAIN p.scopes
             /\ DOMAIN q.scopes[c].elements = DOMAIN p.scopes[c].elements \cup {line.name}
             /\ q.scopes[c].elements[line.name] = Element(line)
             /\ \A e \in DOMAIN p.scopes[c].elements : q.scopes[c].elements[e] = p.scopes[c].elements[e]
             /\ \A s \in DOMAIN p.scopes \ {c} : q.scopes[s] = p.scopes[s]
<1> DEFINE q == Taken(p, line)
           c == p.current
           known == p.scopes[c].elements
           grown == Entered(known, line.name, Element(line))
<1>1. q = [p EXCEPT !.count = @ + 1, !.scopes[c].elements = grown]
  BY DEF Taken
<1>2. /\ DOMAIN grown = DOMAIN known \cup {line.name} /\ grown[line.name] = Element(line)
      /\ \A e \in DOMAIN known : grown[e] = known[e]
  BY DEF Entered
<1> HIDE DEF grown
<1>3. /\ q.current = c /\ {"current", "scopes"} \subseteq DOMAIN q
      /\ q.scopes = [p.scopes EXCEPT ![c] = [p.scopes[c] EXCEPT !.elements = grown]]
  BY <1>1 DEF Shaped
<1> HIDE DEF q
<1>4. /\ DOMAIN q.scopes = DOMAIN p.scopes
      /\ \A s \in DOMAIN p.scopes \ {c} : q.scopes[s] = p.scopes[s]
      /\ q.scopes[c].elements = grown /\ "elements" \in DOMAIN q.scopes[c]
  BY <1>3 DEF Shaped
<1>5. \A s \in DOMAIN q.scopes : "elements" \in DOMAIN q.scopes[s]
  BY <1>4 DEF Shaped
<1>6. QED
  BY <1>2, <1>3, <1>4, <1>5 DEF Shaped, q

LEMMA OtherTaken ==
  ASSUME NEW p, Shaped(p), NEW line, line.op \notin {".subckt", "element"}
  PROVE  LET q == Taken(p, line)
         IN  /\ Shaped(q) /\ q.scopes = p.scopes
             /\ q.current = IF line.op = ".ends" THEN Root ELSE p.current
<1>1. CASE line.op = ".ends"
  BY <1>1 DEF Taken, Closed, Shaped
<1>2. CASE line.op = ".global"
  BY <1>2 DEF Taken, Shaped
<1>3. CASE line.op \notin {".ends", ".global"}
  BY <1>3 DEF Taken, Shaped
<1>4. QED
  BY <1>1, <1>2, <1>3

LEMMA ElementLinesFacts ==
  ASSUME IsText(statements), NEW k \in 1..Len(statements)
  PROVE  /\ IsFiniteSet(ElementLines(k)) /\ k \notin ElementLines(k) /\ Cardinality(ElementLines(k)) \in Nat
         /\ ElementLines(k + 1) = IF statements[k].op = "element" THEN ElementLines(k) \cup {k} ELSE ElementLines(k)
         /\ ElementLines(k) \subseteq 1..Len(statements)
<1>1. Len(statements) \in Nat
  BY DEF IsText
<1>2. ElementLines(k) \in SUBSET (1..(k - 1)) /\ k - 1 \in Nat /\ k \notin 1..(k - 1)
  BY <1>1 DEF ElementLines
<1>3. IsFiniteSet(1..(k - 1))
  BY <1>2, FS_Interval
<1>4. IsFiniteSet(ElementLines(k))
  BY <1>2, <1>3, FS_Subset
<1>5. 1..(k + 1 - 1) = 1..(k - 1) \cup {k}
  BY <1>1
<1>6. ElementLines(k + 1) = IF statements[k].op = "element" THEN ElementLines(k) \cup {k} ELSE ElementLines(k)
  BY <1>5 DEF ElementLines
<1>7. QED
  BY <1>1, <1>2, <1>4, <1>6, FS_CardinalityType

LEMMA OpeningGoesOn ==
  ASSUME IsText(statements), NEW k \in 1..Len(statements), NEW p, BlocksRead(k), ScopesRead(p, k),
         statements[k].op = ".subckt", StatementFailure(p, statements[k]) = Passed
  PROVE  ScopesRead(Taken(p, statements[k]), k + 1)
<1> DEFINE line == statements[k]
           q == Taken(p, line)
<1>1. p.current = Root /\ line.name # Root /\ line.name \notin DOMAIN p.scopes
  BY OpeningIsChecked
<1>2. Shaped(p)
  BY DEF ScopesRead
<1>3. /\ Shaped(q) /\ q.current = line.name /\ DOMAIN q.scopes = DOMAIN p.scopes \cup {line.name}
      /\ DOMAIN q.scopes[line.name].elements = {}
      /\ \A s \in DOMAIN p.scopes : q.scopes[s] = p.scopes[s]
  BY <1>1, <1>2, OpeningTaken
<1> HIDE DEF q
<1>4. Len(statements) \in Nat /\ DOMAIN statements = 1..Len(statements) /\ k # 0
  BY DEF IsText
<1>5. k \in Opens /\ Opens \subseteq 1..Len(statements)
  BY <1>4 DEF Opens
<1>6. q.current = Owner(k + 1)
  BY <1>3, <1>4, <1>5, BlockOfNext DEF Owner
<1>7. {j \in Opens : j < k + 1} = {j \in Opens : j < k} \cup {k}
  <2>1. \A j \in Opens : j < k + 1 <=> j < k \/ j = k
    BY <1>4, <1>5
  <2>2. QED
    BY <1>5, <2>1
<1>8. DOMAIN q.scopes = {Root} \cup {statements[i].name : i \in {j \in Opens : j < k + 1}}
  BY <1>3, <1>7 DEF ScopesRead
<1>9. ElementLines(k + 1) = ElementLines(k)
  BY ElementLinesFacts
<1>10. \A i \in ElementLines(k + 1) : KeptIn(q, i)
  BY <1>3, <1>9 DEF ScopesRead, KeptIn
<1>11. PlacedIn(q) = PlacedIn(p)
  <2>1. \A s \in DOMAIN p.scopes : s # line.name
    BY <1>1
  <2>2. \A s \in DOMAIN q.scopes : s \in DOMAIN p.scopes \/ DOMAIN q.scopes[s].elements = {}
    BY <1>3
  <2>3. QED
    BY <1>3, <2>1, <2>2 DEF PlacedIn
<1>12. IsFiniteSet(PlacedIn(q)) /\ Cardinality(PlacedIn(q)) = Cardinality(ElementLines(k + 1))
  BY <1>9, <1>11 DEF ScopesRead
<1>13. QED
  BY <1>3, <1>6, <1>8, <1>10, <1>12 DEF ScopesRead, q

LEMMA ElementGoesOn ==
  ASSUME IsText(statements), NEW k \in 1..Len(statements), NEW p, BlocksRead(k), ScopesRead(p, k),
         statements[k].op = "element", StatementFailure(p, statements[k]) = Passed
  PROVE  ScopesRead(Taken(p, statements[k]), k + 1)
<1> DEFINE line == statements[k]
           q == Taken(p, line)
           c == p.current
<1>1. line.name \notin DOMAIN p.scopes[c].elements
  BY ElementIsChecked
<1>2. Shaped(p) /\ c = Owner(k)
  BY DEF ScopesRead
<1>3. Len(statements) \in Nat /\ DOMAIN statements = 1..Len(statements)
  BY DEF IsText
<1>4. Block(k) # 0 => Block(k) \in Opens /\ Block(k) < k
  BY <1>3, BlockFacts
<1>5. c \in DOMAIN p.scopes
  BY <1>2, <1>4 DEF ScopesRead, Owner
<1>6. /\ Shaped(q) /\ q.current = c /\ DOMAIN q.scopes = DOMAIN p.scopes
      /\ DOMAIN q.scopes[c].elements = DOMAIN p.scopes[c].elements \cup {line.name}
      /\ q.scopes[c].elements[line.name] = Element(line)
      /\ \A e \in DOMAIN p.scopes[c].elements : q.scopes[c].elements[e] = p.scopes[c].elements[e]
      /\ \A s \in DOMAIN p.scopes \ {c} : q.scopes[s] = p.scopes[s]
  BY <1>1, <1>2, <1>5, ElementTaken
<1>7. Kept(line, Element(line)) = Len(line.tokens)
  <2>1. line \in ToSet(statements)
    BY <1>3 DEF ToSet
  <2>2. line.tokens \in Seq(ToSet(line.tokens))
    BY <2>1 DEF IsText
  <2>3. QED
    BY <2>2, LineIsKept
<1> HIDE DEF q
<1>8. k \notin Opens \cup Closes
  BY DEF Opens, Closes
<1>9. q.current = Owner(k + 1)
  BY <1>2, <1>6, <1>8, BlockOfNext DEF Owner
<1>10. {j \in Opens : j < k + 1} = {j \in Opens : j < k}
  BY <1>3, <1>8 DEF Opens
<1>11. DOMAIN q.scopes = {Root} \cup {statements[i].name : i \in {j \in Opens : j < k + 1}}
  BY <1>6, <1>10 DEF ScopesRead
<1>12. /\ ElementLines(k + 1) = ElementLines(k) \cup {k} /\ k \notin ElementLines(k)
       /\ IsFiniteSet(ElementLines(k)) /\ Cardinality(ElementLines(k)) \in Nat
  BY ElementLinesFacts
<1>13. ASSUME NEW i \in ElementLines(k) PROVE KeptIn(q, i)
  <2>1. KeptIn(p, i)
    BY DEF ScopesRead
  <2>2. CASE Owner(i) = c
    BY <1>6, <2>1, <2>2 DEF KeptIn
  <2>3. CASE Owner(i) # c
    BY <1>6, <2>1, <2>3 DEF KeptIn
  <2>4. QED
    BY <2>2, <2>3
<1>14. KeptIn(q, k)
  BY <1>2, <1>5, <1>6, <1>7 DEF KeptIn
<1>15. \A i \in ElementLines(k + 1) : KeptIn(q, i)
  BY <1>12, <1>13, <1>14
<1>16. PlacedIn(q) = PlacedIn(p) \cup {<<c, line.name>>} /\ <<c, line.name>> \notin PlacedIn(p)
  <2>1. ASSUME NEW x PROVE x \in PlacedIn(q) <=> x \in PlacedIn(p) \/ x = <<c, line.name>>
    <3>1. x \in PlacedIn(q) <=> \E s \in DOMAIN p.scopes : x \in {s} \X DOMAIN q.scopes[s].elements
      BY <1>6 DEF PlacedIn
    <3>2. x \in PlacedIn(p) <=> \E s \in DOMAIN p.scopes : x \in {s} \X DOMAIN p.scopes[s].elements
      BY DEF PlacedIn
    <3>3. \A s \in DOMAIN p.scopes \ {c} : DOMAIN q.scopes[s].elements = DOMAIN p.scopes[s].elements
      BY <1>6
    <3>4. {c} \X DOMAIN q.scopes[c].elements = ({c} \X DOMAIN p.scopes[c].elements) \cup {<<c, line.name>>}
      BY <1>6
    <3> HIDE DEF c, line
    <3>5. QED
      BY <1>5, <3>1, <3>2, <3>3, <3>4
  <2>2. <<c, line.name>> \notin PlacedIn(p)
    BY <1>1 DEF PlacedIn
  <2> HIDE DEF c, line
  <2>3. QED
    BY <2>1, <2>2
<1>17. IsFiniteSet(PlacedIn(q)) /\ Cardinality(PlacedIn(q)) = Cardinality(ElementLines(k + 1))
  <2> DEFINE w == <<c, line.name>>
             P == PlacedIn(p)
             E == ElementLines(k)
  <2>1. IsFiniteSet(P) /\ Cardinality(P) = Cardinality(E)
    BY DEF ScopesRead
  <2>2. w \notin P /\ PlacedIn(q) = P \cup {w}
    BY <1>16
  <2> HIDE DEF w, P, E
  <2>3. IsFiniteSet(P \cup {w}) /\ Cardinality(P \cup {w}) = Cardinality(P) + 1
    BY <2>1, <2>2, FS_AddElement
  <2>4. Cardinality(E \cup {k}) = Cardinality(E) + 1
    BY <1>12, FS_AddElement DEF E
  <2>5. QED
    BY <1>12, <2>1, <2>2, <2>3, <2>4 DEF E
<1>18. QED
  BY <1>6, <1>9, <1>11, <1>15, <1>17 DEF ScopesRead, q

LEMMA OtherGoesOn ==
  ASSUME IsText(statements), NEW k \in 1..Len(statements), NEW p, BlocksRead(k), ScopesRead(p, k),
         statements[k].op \notin {".subckt", "element"}
  PROVE  ScopesRead(Taken(p, statements[k]), k + 1)
<1> DEFINE line == statements[k]
           q == Taken(p, line)
<1>1. Shaped(p) /\ p.current = Owner(k)
  BY DEF ScopesRead
<1>2. /\ Shaped(q) /\ q.scopes = p.scopes
      /\ q.current = IF line.op = ".ends" THEN Root ELSE p.current
  BY <1>1, OtherTaken
<1> HIDE DEF q
<1>3. Len(statements) \in Nat /\ DOMAIN statements = 1..Len(statements)
  BY DEF IsText
<1>4. k \notin Opens /\ (k \in Closes <=> line.op = ".ends")
  BY <1>3 DEF Opens, Closes
<1>5. q.current = Owner(k + 1)
  BY <1>1, <1>2, <1>4, BlockOfNext DEF Owner
<1>6. {j \in Opens : j < k + 1} = {j \in Opens : j < k}
  BY <1>3, <1>4 DEF Opens
<1>7. DOMAIN q.scopes = {Root} \cup {statements[i].name : i \in {j \in Opens : j < k + 1}}
  BY <1>2, <1>6 DEF ScopesRead
<1>8. ElementLines(k + 1) = ElementLines(k)
  BY ElementLinesFacts
<1>9. PlacedIn(q) = PlacedIn(p)
  BY <1>2 DEF PlacedIn
<1>10. \A i \in ElementLines(k + 1) : KeptIn(q, i)
  BY <1>2, <1>8 DEF ScopesRead, KeptIn
<1>11. QED
  BY <1>2, <1>5, <1>7, <1>8, <1>9, <1>10 DEF ScopesRead, q

LEMMA ReadingGoesOn ==
  ASSUME IsText(statements), NEW k \in 1..Len(statements), NEW p, BlocksRead(k), ScopesRead(p, k),
         StatementFailure(p, statements[k]) = Passed
  PROVE  BlocksRead(k + 1) /\ ScopesRead(Taken(p, statements[k]), k + 1)
<1> DEFINE line == statements[k]
<1>1. Len(statements) \in Nat /\ DOMAIN statements = 1..Len(statements)
  BY DEF IsText
<1>2. Block(k) # 0 => Block(k) \in Opens /\ Block(k) < k
  BY <1>1, BlockFacts
<1>3. Block(k) # 0 => Owner(k) # Root
  BY <1>2 DEF BlocksRead, Owner
<1>4. p.current = Owner(k)
  BY DEF ScopesRead
<1>5. k \in Opens => Block(k) = 0 /\ line.name # Root
  BY <1>3, <1>4, OpeningIsChecked DEF Opens
<1>6. k \in Closes => Block(k) # 0
  <2>1. k \in Closes => p.current # Root
    BY ClosingIsChecked DEF Closes
  <2>2. QED
    BY <1>4, <2>1 DEF Owner
<1>7. BlocksRead(k + 1)
  BY <1>5, <1>6, BlocksGoOn
<1>8. QED
  BY <1>7, OpeningGoesOn, ElementGoesOn, OtherGoesOn

\* A refusal of the parser is a reason, never a state of it.
LEMMA FailureIsAReason ==
  ASSUME NEW checks, Len(checks) \in Nat
  PROVE  FirstFailure(checks) = Passed \/ \E i \in 1..Len(checks) : FirstFailure(checks) = checks[i][2]
<1> DEFINE failing == {i \in 1..Len(checks) : checks[i][1]}
           first == IF failing # {} THEN Min(failing) ELSE 0
<1>1. FirstFailure(checks) = IF first = 0 THEN Passed ELSE checks[first][2]
  BY Zenon DEF FirstFailure, SelectInSeq
<1>2. failing \subseteq 1..Len(checks)
  OBVIOUS
<1> HIDE DEF failing
<1>3. first # 0 => first \in 1..Len(checks)
  <2>1. failing # {} => Min(failing) \in failing
    <3>1. failing \in SUBSET Nat
      BY <1>2
    <3>2. QED
      BY <3>1, MinFacts
  <2>2. QED
    BY <1>2, <2>1
<1> HIDE DEF first
<1>4. QED
  BY <1>1, <1>3

ParserStates == {"idle", "reading", "accepted", "returned"}
IsRefusal(reason) == reason \notin ParserStates

LEMMA RefusalOf2 ==
  ASSUME NEW a1, NEW a2, NEW x1, NEW x2, IsRefusal(x1), IsRefusal(x2)
  PROVE  IsRefusal(FirstFailure(<< <<a1, x1>>, <<a2, x2>> >>))
<1> DEFINE checks == << <<a1, x1>>, <<a2, x2>> >>
<1>1. Len(checks) = 2 /\ checks[1][2] = x1 /\ checks[2][2] = x2
  OBVIOUS
<1> HIDE DEF checks
<1>2. \A i \in 1..2 : i = 1 \/ i = 2
  OBVIOUS
<1>3. IsRefusal(Passed)
  BY DEF IsRefusal, ParserStates, Passed
<1>4. FirstFailure(checks) = Passed \/ \E i \in 1..2 : FirstFailure(checks) = checks[i][2]
  <2>1. Len(checks) \in Nat
    BY <1>1
  <2>2. QED
    BY <1>1, <2>1, FailureIsAReason
<1>5. IsRefusal(FirstFailure(checks))
  BY <1>1, <1>2, <1>3, <1>4
<1>6. QED
  BY <1>5 DEF checks

LEMMA RefusalOf3 ==
  ASSUME NEW a1, NEW a2, NEW a3, NEW x1, NEW x2, NEW x3, IsRefusal(x1), IsRefusal(x2), IsRefusal(x3)
  PROVE  IsRefusal(FirstFailure(<< <<a1, x1>>, <<a2, x2>>, <<a3, x3>> >>))
<1> DEFINE checks == << <<a1, x1>>, <<a2, x2>>, <<a3, x3>> >>
<1>1. Len(checks) = 3 /\ checks[1][2] = x1 /\ checks[2][2] = x2 /\ checks[3][2] = x3
  OBVIOUS
<1> HIDE DEF checks
<1>2. \A i \in 1..3 : i = 1 \/ i = 2 \/ i = 3
  OBVIOUS
<1>3. IsRefusal(Passed)
  BY DEF IsRefusal, ParserStates, Passed
<1>4. FirstFailure(checks) = Passed \/ \E i \in 1..3 : FirstFailure(checks) = checks[i][2]
  <2>1. Len(checks) \in Nat
    BY <1>1
  <2>2. QED
    BY <1>1, <2>1, FailureIsAReason
<1>5. IsRefusal(FirstFailure(checks))
  BY <1>1, <1>2, <1>3, <1>4
<1>6. QED
  BY <1>5 DEF checks

LEMMA RefusalOf4 ==
  ASSUME NEW a1, NEW a2, NEW a3, NEW a4, NEW x1, NEW x2, NEW x3, NEW x4,
         IsRefusal(x1), IsRefusal(x2), IsRefusal(x3), IsRefusal(x4)
  PROVE  IsRefusal(FirstFailure(<< <<a1, x1>>, <<a2, x2>>, <<a3, x3>>, <<a4, x4>> >>))
<1> DEFINE checks == << <<a1, x1>>, <<a2, x2>>, <<a3, x3>>, <<a4, x4>> >>
<1>1. Len(checks) = 4 /\ checks[1][2] = x1 /\ checks[2][2] = x2 /\ checks[3][2] = x3 /\ checks[4][2] = x4
  OBVIOUS
<1> HIDE DEF checks
<1>2. \A i \in 1..4 : i = 1 \/ i = 2 \/ i = 3 \/ i = 4
  OBVIOUS
<1>3. IsRefusal(Passed)
  BY DEF IsRefusal, ParserStates, Passed
<1>4. FirstFailure(checks) = Passed \/ \E i \in 1..4 : FirstFailure(checks) = checks[i][2]
  <2>1. Len(checks) \in Nat
    BY <1>1
  <2>2. QED
    BY <1>1, <2>1, FailureIsAReason
<1>5. IsRefusal(FirstFailure(checks))
  BY <1>1, <1>2, <1>3, <1>4
<1>6. QED
  BY <1>5 DEF checks

LEMMA RefusalOf6 ==
  ASSUME NEW a1, NEW a2, NEW a3, NEW a4, NEW a5, NEW a6, NEW x1, NEW x2, NEW x3, NEW x4, NEW x5, NEW x6,
         IsRefusal(x1), IsRefusal(x2), IsRefusal(x3), IsRefusal(x4), IsRefusal(x5), IsRefusal(x6)
  PROVE  IsRefusal(FirstFailure(<< <<a1, x1>>, <<a2, x2>>, <<a3, x3>>, <<a4, x4>>, <<a5, x5>>, <<a6, x6>> >>))
<1> DEFINE checks == << <<a1, x1>>, <<a2, x2>>, <<a3, x3>>, <<a4, x4>>, <<a5, x5>>, <<a6, x6>> >>
<1>1. /\ Len(checks) = 6 /\ checks[1][2] = x1 /\ checks[2][2] = x2 /\ checks[3][2] = x3
      /\ checks[4][2] = x4 /\ checks[5][2] = x5 /\ checks[6][2] = x6
  OBVIOUS
<1> HIDE DEF checks
<1>2. \A i \in 1..6 : i = 1 \/ i = 2 \/ i = 3 \/ i = 4 \/ i = 5 \/ i = 6
  OBVIOUS
<1>3. IsRefusal(Passed)
  BY DEF IsRefusal, ParserStates, Passed
<1>4. FirstFailure(checks) = Passed \/ \E i \in 1..6 : FirstFailure(checks) = checks[i][2]
  <2>1. Len(checks) \in Nat
    BY <1>1
  <2>2. QED
    BY <1>1, <2>1, FailureIsAReason
<1>5. IsRefusal(FirstFailure(checks))
  BY <1>1, <1>2, <1>3, <1>4
<1>6. QED
  BY <1>5 DEF checks

LEMMA ParametersRefusal == \A tokens : IsRefusal(ParametersFailure(tokens))
<1>1. IsRefusal("syntax") /\ IsRefusal("repeated")
  BY DEF IsRefusal, ParserStates
<1>2. QED
  BY <1>1, RefusalOf2 DEF ParametersFailure

LEMMA SplitRefusal == \A tokens : IsRefusal(SplitFailure(tokens))
<1>1. IsRefusal("markers") /\ IsRefusal("marker order") /\ IsRefusal("empty marker")
  BY DEF IsRefusal, ParserStates
<1>2. QED
  BY <1>1, ParametersRefusal, RefusalOf4 DEF SplitFailure

LEMMA LineRefusal == \A line : IsRefusal(PrimitiveFailure(line)) /\ IsRefusal(InstanceLineFailure(line))
<1>1. IsRefusal("family") /\ IsRefusal("short") /\ IsRefusal("identifier") /\ IsRefusal("repeated")
  BY DEF IsRefusal, ParserStates
<1>2. ASSUME NEW line PROVE IsRefusal(PrimitiveFailure(line))
  <2>1. CASE line.family \notin DOMAIN Terminals
    BY <1>1, <2>1 DEF PrimitiveFailure
  <2>2. CASE line.family \in DOMAIN Terminals /\ Len(line.tokens) < Terminals[line.family] + 1
    BY <1>1, <2>2 DEF PrimitiveFailure
  <2>3. CASE line.family \in DOMAIN Terminals /\ ~(Len(line.tokens) < Terminals[line.family] + 1)
    BY <1>1, <2>3, ParametersRefusal, RefusalOf3 DEF PrimitiveFailure
  <2>4. QED
    BY <2>1, <2>2, <2>3
<1>3. ASSUME NEW line PROVE IsRefusal(InstanceLineFailure(line))
  BY <1>1, SplitRefusal, RefusalOf2 DEF InstanceLineFailure
<1>4. QED
  BY <1>2, <1>3

LEMMA StatementRefusal == \A p, line : IsRefusal(StatementFailure(p, line))
<1>1. /\ IsRefusal("nested") /\ IsRefusal("short") /\ IsRefusal("duplicate subcircuit") /\ IsRefusal("ports")
      /\ IsRefusal("subcircuits") /\ IsRefusal("unopened") /\ IsRefusal("mismatch") /\ IsRefusal("elements")
      /\ IsRefusal("names") /\ IsRefusal("identifier") /\ IsRefusal("duplicate element") /\ IsRefusal("directive") /\ IsRefusal(Passed)
  BY DEF IsRefusal, ParserStates, Passed
<1>2. SUFFICES ASSUME NEW p, NEW line PROVE IsRefusal(StatementFailure(p, line))
  OBVIOUS
<1>3. CASE line.op = ".subckt"
  <2> DEFINE inside == p.current # Root
             short == line.tokens = <<>>
             defined == IsDefined(p, line.name)
             v == SplitFailure(line.tokens)
             unsplit == v # Passed
             ports == Positional(line.tokens) = <<>> \/ ~IsInjective(Positional(line.tokens))
             full == Cardinality(DOMAIN p.scopes) - 1 >= limits.subcircuits
  <2>1. StatementFailure(p, line) =
          FirstFailure(<< <<inside, "nested">>, <<short, "short">>, <<defined, "duplicate subcircuit">>,
                          <<unsplit, v>>, <<ports, "ports">>, <<full, "subcircuits">> >>)
    BY <1>3 DEF StatementFailure
  <2>2. IsRefusal(v)
    BY SplitRefusal
  <2> HIDE DEF inside, short, defined, v, unsplit, ports, full
  <2>3. IsRefusal(FirstFailure(<< <<inside, "nested">>, <<short, "short">>, <<defined, "duplicate subcircuit">>,
                                  <<unsplit, v>>, <<ports, "ports">>, <<full, "subcircuits">> >>))
    BY <1>1, <2>2, RefusalOf6
  <2>4. QED
    BY <2>1, <2>3
<1>4. CASE line.op = ".ends"
  BY <1>1, <1>4, RefusalOf3 DEF StatementFailure
<1>5. CASE line.op = "element"
  BY <1>1, <1>5, LineRefusal, RefusalOf4 DEF StatementFailure
<1>6. CASE line.op = ".global"
  BY <1>1, <1>6, RefusalOf2 DEF StatementFailure
<1>7. CASE line.op = ".model"
  BY <1>1, <1>7 DEF StatementFailure
<1>8. CASE line.op \notin {".subckt", ".ends", "element", ".global", ".model"}
  BY <1>1, <1>8 DEF StatementFailure
<1>9. QED
  BY <1>3, <1>4, <1>5, <1>6, <1>7, <1>8

\* The invariant of the parser: it is where its lines say.
TextInv ==
  /\ IsText(statements) /\ at \in 1..(Len(statements) + 1)
  /\ parser.verdict = "idle" => at = 1
  /\ parser.verdict = "reading" => BlocksRead(at) /\ ScopesRead(parser, at)
  /\ ElementsStayInTheirBlock

LEMMA SameText ==
  ASSUME TextInv, UNCHANGED <<statements, at>>, parser' = parser \/ parser'.verdict \notin {"idle", "reading", "accepted"}
  PROVE  TextInv'
<1>1. CASE parser' = parser
  <2>1. Opens' = Opens /\ Closes' = Closes
    BY DEF Opens, Closes
  <2>2. \A i : (Block(i))' = Block(i)
    BY <2>1 DEF Block
  <2>3. \A i : (Owner(i))' = Owner(i)
    BY <2>2 DEF Owner
  <2>4. \A k : (BlocksRead(k))' <=> BlocksRead(k)
    BY <2>1, <2>2 DEF BlocksRead
  <2>5. \A k : (ElementLines(k))' = ElementLines(k)
    BY DEF ElementLines
  <2>6. \A p, k : (ScopesRead(p, k))' <=> ScopesRead(p, k)
    BY <2>1, <2>3, <2>5 DEF ScopesRead, KeptIn
  <2>7. Placed' = Placed
    BY <1>1 DEF Placed
  <2>8. ElementsStayInTheirBlock'
    <3>1. ElementsStayInTheirBlock
      BY DEF TextInv
    <3>2. QED
      BY <1>1, <2>1, <2>2, <2>3, <2>7, <3>1 DEF ElementsStayInTheirBlock
  <2>9. (BlocksRead(at))' <=> BlocksRead(at)
    BY <2>4
  <2>10. (ScopesRead(parser, at))' <=> ScopesRead(parser, at)
    BY <1>1, <2>6
  <2>11. QED
    BY <1>1, <2>8, <2>9, <2>10 DEF TextInv
<1>2. CASE parser'.verdict \notin {"idle", "reading", "accepted"}
  BY <1>2 DEF TextInv, ElementsStayInTheirBlock
<1>3. QED
  BY <1>1, <1>2

LEMMA NothingReadYet ==
  ASSUME NEW text, IsText(text), statements' = text, at' = 1, parser' = Start
  PROVE  TextInv'
<1>1. 1 \in 1..(Len(text) + 1) /\ DOMAIN text = 1..Len(text) /\ Len(text) \in Nat
  BY DEF IsText
<1>2. /\ Start.verdict = "reading" /\ Start.current = Root /\ DOMAIN Start.scopes = {Root}
      /\ {"current", "scopes"} \subseteq DOMAIN Start
      /\ "elements" \in DOMAIN Start.scopes[Root] /\ DOMAIN Start.scopes[Root].elements = {}
  BY DEF Start
<1> HIDE DEF Start
<1>3. Opens' \subseteq 1..Len(text) /\ Closes' \subseteq 1..Len(text)
  BY <1>1 DEF Opens, Closes
<1>0. \A j \in 1..Len(text) : ~(j < 1)
  BY <1>1
<1>4. BlocksRead(at)'
  BY <1>3 DEF BlocksRead
<1>5. Block(1)' = 0
  <2>1. {j \in Opens' \cup Closes' : j < 1} = {}
    BY <1>3, <1>0
  <2>2. QED
    BY <2>1 DEF Block
<1>6. Owner(1)' = Root
  BY <1>5 DEF Owner
<1>7. {j \in Opens' : j < 1} = {}
  BY <1>3, <1>0
<1>8. ElementLines(1)' = {}
  BY DEF ElementLines
<1>9. PlacedIn(Start) = {}
  BY <1>2 DEF PlacedIn
<1>10. IsFiniteSet({}) /\ Cardinality({}) = 0
  BY FS_EmptySet
<1>11. Shaped(Start)
  BY <1>2 DEF Shaped
<1>12. ScopesRead(parser, at)'
  <2>1. (ScopesRead(parser, at))' = (ScopesRead(Start, 1))'
    OBVIOUS
  <2>2. DOMAIN Start.scopes = {Root} \cup {text[i].name : i \in {j \in Opens' : j < 1}}
    BY <1>2, <1>7
  <2>3. QED
    BY <1>2, <1>6, <1>8, <1>9, <1>10, <1>11, <2>2 DEF ScopesRead
<1>13. QED
  BY <1>1, <1>2, <1>4, <1>12 DEF TextInv, ElementsStayInTheirBlock, IsText

\* At the end of an accepted text every block is closed.
LEMMA EndIsClosed ==
  ASSUME IsText(statements), at = Len(statements) + 1, BlocksRead(at), ScopesRead(parser, at), parser.current = Root
  PROVE  /\ \A i \in Opens : Block(i) = 0 /\ \E j \in Closes : Block(j) = i
         /\ \A j \in Closes : Block(j) # 0
         /\ DOMAIN parser.scopes = {Root} \cup {statements[i].name : i \in Opens}
         /\ \A i \in DOMAIN statements : statements[i].op = "element" =>
              /\ statements[i].name \in DOMAIN parser.scopes[Owner(i)].elements
              /\ Kept(statements[i], parser.scopes[Owner(i)].elements[statements[i].name]) = Len(statements[i].tokens)
         /\ Cardinality(Placed) = Cardinality({i \in DOMAIN statements : statements[i].op = "element"})
<1>1. Len(statements) \in Nat /\ DOMAIN statements = 1..Len(statements) /\ at \in 1..(Len(statements) + 1)
  BY DEF IsText
<1>2. \A i \in DOMAIN statements : i < at
  BY <1>1
<1>3. Opens \subseteq DOMAIN statements /\ Closes \subseteq DOMAIN statements
  BY DEF Opens, Closes
<1>4. Block(at) # 0 => Block(at) \in Opens /\ Block(at) < at
  BY <1>1, BlockFacts
<1>5. Block(at) = 0
  <2>1. Owner(at) = Root
    BY DEF ScopesRead
  <2>2. QED
    BY <1>4, <2>1 DEF Owner, BlocksRead
<1>6. \A i \in Opens : i # 0
  BY <1>1, <1>3
<1>7. \A i \in Opens : Block(i) = 0 /\ \E j \in Closes : Block(j) = i
  BY <1>2, <1>3, <1>5, <1>6 DEF BlocksRead
<1>8. \A j \in Closes : Block(j) # 0
  BY <1>2, <1>3 DEF BlocksRead
<1>9. {j \in Opens : j < at} = Opens
  BY <1>2, <1>3
<1>10. 1..(at - 1) = DOMAIN statements
  BY <1>1
<1>11. ElementLines(at) = {i \in DOMAIN statements : statements[i].op = "element"}
  BY <1>10 DEF ElementLines
<1>12. PlacedIn(parser) = Placed
  BY DEF PlacedIn, Placed
<1>13. \A i \in DOMAIN statements : statements[i].op = "element" => KeptIn(parser, i)
  BY <1>11 DEF ScopesRead
<1>14. DOMAIN parser.scopes = {Root} \cup {statements[i].name : i \in Opens}
  BY <1>9 DEF ScopesRead
<1>15. Cardinality(Placed) = Cardinality({i \in DOMAIN statements : statements[i].op = "element"})
  BY <1>11, <1>12 DEF ScopesRead
<1>16. QED
  BY <1>7, <1>8, <1>13, <1>14, <1>15 DEF KeptIn

LEMMA ReadStatementKeeps ==
  ASSUME TextInv, ReadStatement, "verdict" \in DOMAIN parser
  PROVE  TextInv'
<1> DEFINE line == statements[at]
           v == StatementFailure(parser, line)
<1>1. /\ parser.verdict = "reading" /\ at <= Len(statements) /\ parser' = Step(parser, line)
      /\ at' = at + 1 /\ statements' = statements
  BY DEF ReadStatement
<1>2. IsText(statements) /\ BlocksRead(at) /\ ScopesRead(parser, at) /\ at \in 1..(Len(statements) + 1)
  BY <1>1 DEF TextInv
<1>3. Len(statements) \in Nat /\ at \in 1..Len(statements) /\ at + 1 \in 1..(Len(statements) + 1)
  BY <1>1, <1>2 DEF IsText
<1>4. IsText(statements)' /\ at' \in 1..(Len(statements') + 1)
  BY <1>1, <1>2, <1>3 DEF IsText
<1>5. CASE v # Passed
  <2>1. parser' = [parser EXCEPT !.verdict = v]
    BY <1>1, <1>5 DEF Step
  <2>2. IsRefusal(v)
    BY StatementRefusal
  <2> HIDE DEF v
  <2>3. parser'.verdict = v
    BY <2>1
  <2>4. parser'.verdict \notin {"idle", "reading", "accepted"}
    BY <2>2, <2>3 DEF IsRefusal, ParserStates
  <2>5. QED
    BY <1>4, <2>4 DEF TextInv, ElementsStayInTheirBlock
<1>6. CASE v = Passed
  <2>1. parser' = Taken(parser, line)
    BY <1>1, <1>6 DEF Step
  <2>2. BlocksRead(at + 1) /\ ScopesRead(parser', at + 1)
    BY <1>2, <1>3, <1>6, <2>1, ReadingGoesOn
  <2>3. parser'.verdict = "reading"
    BY <1>1, <2>1 DEF Taken, Closed
  <2>4. Opens' = Opens /\ Closes' = Closes
    BY <1>1 DEF Opens, Closes
  <2>5. \A i : (Block(i))' = Block(i)
    BY <2>4 DEF Block
  <2>6. \A i : (Owner(i))' = Owner(i)
    BY <1>1, <2>5 DEF Owner
  <2>7. (BlocksRead(at))'
    BY <1>1, <2>2, <2>4, <2>5 DEF BlocksRead
  <2>8. \A k : (ElementLines(k))' = ElementLines(k)
    BY <1>1 DEF ElementLines
  <2>9. (ScopesRead(parser, at))'
    BY <1>1, <2>2, <2>4, <2>6, <2>8 DEF ScopesRead, KeptIn, PlacedIn
  <2>10. QED
    BY <1>4, <2>3, <2>7, <2>9 DEF TextInv, ElementsStayInTheirBlock
<1>7. QED
  BY <1>5, <1>6

LEMMA EndParseKeeps ==
  ASSUME TextInv, EndParse, "verdict" \in DOMAIN parser
  PROVE  TextInv'
<1> DEFINE empty == \A s \in DOMAIN parser.scopes : parser.scopes[s].elements = <<>>
           v == IF parser.current # Root THEN "unclosed" ELSE IF empty THEN "empty" ELSE "accepted"
<1>1. /\ parser.verdict = "reading" /\ at > Len(statements) /\ parser' = Ended(parser)
      /\ at' = at /\ statements' = statements
  BY DEF EndParse
<1>2. IsText(statements) /\ BlocksRead(at) /\ ScopesRead(parser, at) /\ at \in 1..(Len(statements) + 1)
  BY <1>1 DEF TextInv
<1>3. at = Len(statements) + 1
  BY <1>1, <1>2 DEF IsText
<1>4. parser' = [parser EXCEPT !.verdict = v]
  BY <1>1 DEF Ended
<1>5. v \in {"unclosed", "empty", "accepted"} /\ (v = "accepted" => parser.current = Root)
  OBVIOUS
<1> HIDE DEF v
<1>6. parser'.verdict = v
  BY <1>4
<1>7. CASE v # "accepted"
  BY <1>1, <1>5, <1>6, <1>7, SameText
<1>8. CASE v = "accepted"
  <2>1. parser.current = Root
    BY <1>5, <1>8
  <2>2. /\ \A i \in Opens : Block(i) = 0 /\ \E j \in Closes : Block(j) = i
        /\ \A j \in Closes : Block(j) # 0
        /\ DOMAIN parser.scopes = {Root} \cup {statements[i].name : i \in Opens}
        /\ \A i \in DOMAIN statements : statements[i].op = "element" =>
             /\ statements[i].name \in DOMAIN parser.scopes[Owner(i)].elements
             /\ Kept(statements[i], parser.scopes[Owner(i)].elements[statements[i].name]) = Len(statements[i].tokens)
        /\ Cardinality(Placed) = Cardinality({i \in DOMAIN statements : statements[i].op = "element"})
    BY <1>2, <1>3, <2>1, EndIsClosed
  <2>3. parser'.scopes = parser.scopes
    BY <1>2, <1>4 DEF ScopesRead, Shaped
  <2>4. Opens' = Opens /\ Closes' = Closes
    BY <1>1 DEF Opens, Closes
  <2>5. \A i : (Block(i))' = Block(i)
    BY <2>4 DEF Block
  <2>6. \A i : (Owner(i))' = Owner(i)
    BY <1>1, <2>5 DEF Owner
  <2>7. Placed' = Placed
    BY <2>3 DEF Placed
  <2>8. ElementsStayInTheirBlock'
    BY <1>1, <2>2, <2>3, <2>4, <2>5, <2>6, <2>7 DEF ElementsStayInTheirBlock
  <2>9. IsText(statements)' /\ at' \in 1..(Len(statements') + 1)
    BY <1>1, <1>2 DEF IsText
  <2>10. parser'.verdict \notin {"idle", "reading"}
    BY <1>6, <1>8
  <2>11. QED
    BY <2>8, <2>9, <2>10 DEF TextInv
<1>9. QED
  BY <1>7, <1>8

ReadingInv ==
  limits \in {input.limits : input \in Inputs} /\ "verdict" \in DOMAIN parser /\ TextInv

LEMMA ReadingStart == Init => ReadingInv
<1>1. SUFFICES ASSUME Init PROVE ReadingInv
  OBVIOUS
<1>2. limits \in {input.limits : input \in Inputs}
  BY <1>1 DEF Init, ReaderInit
<1>3. statements = <<>> /\ at = 1 /\ "verdict" \in DOMAIN parser /\ parser.verdict = "idle"
  BY <1>1 DEF Init, ParserInit, Start
<1>4. IsText(<<>>) /\ Len(<<>>) = 0
  BY DEF IsText, ToSet
<1>5. QED
  BY <1>2, <1>3, <1>4 DEF ReadingInv, TextInv, ElementsStayInTheirBlock

LEMMA StartParseKeeps ==
  ASSUME ReadingInv, StartParse
  PROVE  ReadingInv'
<1>1. PICK text \in Says(limits) : StartParsing(text)
  BY DEF StartParse
<1>2. IsText(text)
  BY <1>1, TextAssumption DEF ReadingInv
<1>3. statements' = text /\ at' = 1 /\ parser' = Start /\ limits' = limits
  BY <1>1 DEF StartParse, StartParsing, ReadingInv, TextInv
<1>4. "verdict" \in DOMAIN Start
  BY DEF Start
<1>5. QED
  BY <1>2, <1>3, <1>4, NothingReadYet DEF ReadingInv

LEMMA VerdictStays ==
  ASSUME NEW p, "verdict" \in DOMAIN p, NEW line
  PROVE  "verdict" \in DOMAIN Step(p, line) /\ "verdict" \in DOMAIN Ended(p)
<1>1. "verdict" \in DOMAIN Taken(p, line)
  <2>1. CASE line.op = ".subckt"
    BY <2>1 DEF Taken
  <2>2. CASE line.op = ".ends"
    BY <2>2 DEF Taken, Closed
  <2>3. CASE line.op = ".global"
    BY <2>3 DEF Taken
  <2>4. CASE line.op = "element"
    BY <2>4 DEF Taken
  <2>5. CASE line.op \notin {".subckt", ".ends", ".global", "element"}
    BY <2>5 DEF Taken
  <2>6. QED
    BY <2>1, <2>2, <2>3, <2>4, <2>5
<1>2. "verdict" \in DOMAIN Ended(p)
  BY DEF Ended
<1>3. QED
  BY <1>1, <1>2 DEF Step

LEMMA ReadingKeeps == ReadingInv /\ [Next]_netlistVars => ReadingInv'
<1>1. SUFFICES ASSUME ReadingInv, [Next]_netlistVars PROVE ReadingInv'
  OBVIOUS
<1>2. limits \in {input.limits : input \in Inputs} /\ "verdict" \in DOMAIN parser /\ TextInv
  BY <1>1 DEF ReadingInv
<1>3. limits' = limits
  BY <1>1 DEF Next, Reading, StartParse, Parsing, StartBuild, Building, Finished, netlistVars
<1>4. ASSUME UNCHANGED parserVars PROVE ReadingInv'
  BY <1>2, <1>3, <1>4, SameText DEF ReadingInv, parserVars
<1>5. CASE Reading
  BY <1>4, <1>5 DEF Reading
<1>6. CASE StartParse
  BY <1>1, <1>6, StartParseKeeps
<1>7. CASE Parsing
  <2>1. CASE ReadStatement
    <3>1. TextInv'
      BY <1>2, <2>1, ReadStatementKeeps
    <3>2. parser' = Step(parser, statements[at])
      BY <2>1 DEF ReadStatement
    <3>3. QED
      BY <1>2, <1>3, <3>1, <3>2, VerdictStays DEF ReadingInv
  <2>2. CASE EndParse
    <3>1. TextInv'
      BY <1>2, <2>2, EndParseKeeps
    <3>2. parser' = Ended(parser)
      BY <2>2 DEF EndParse
    <3>3. QED
      BY <1>2, <1>3, <3>1, <3>2, VerdictStays DEF ReadingInv
  <2>3. QED
    BY <1>7, <2>1, <2>2 DEF Parsing, ParserNext
<1>8. CASE StartBuild
  <2>1. parser' = [parser EXCEPT !.verdict = "returned"] /\ UNCHANGED <<statements, at>>
    BY <1>8 DEF StartBuild
  <2>2. parser'.verdict = "returned" /\ "verdict" \in DOMAIN parser'
    BY <1>2, <2>1
  <2>3. TextInv'
    BY <1>2, <2>1, <2>2, SameText
  <2>4. QED
    BY <1>2, <1>3, <2>2, <2>3 DEF ReadingInv
<1>9. CASE Building
  BY <1>4, <1>9 DEF Building
<1>10. CASE UNCHANGED netlistVars
  BY <1>4, <1>10 DEF netlistVars
<1>11. CASE Finished
  BY <1>10, <1>11 DEF Finished
<1>12. QED
  BY <1>1, <1>5, <1>6, <1>7, <1>8, <1>9, <1>10, <1>11 DEF Next

\* An accepted source is a sequence of closed blocks, and _parse_lines keeps
\* every element of it once, with every token of its line, in the scope whose
\* block it stands in.
THEOREM ElementsStayAlways == Spec => []ElementsStayInTheirBlock
<1>1. Init => ReadingInv
  BY ReadingStart
<1>2. ReadingInv /\ [Next]_netlistVars => ReadingInv'
  BY ReadingKeeps
<1>3. ReadingInv => ElementsStayInTheirBlock
  BY DEF ReadingInv, TextInv
<1>4. QED
  BY <1>1, <1>2, <1>3, PTL DEF Spec

(***************************************************************************)
(* The reader: files, calls and lines.  V is the set of files read, O that *)
(* of the files whose calls run, R that of the lines read, each with its   *)
(* file.                                                                   *)
(***************************************************************************)
\* The running calls of _read_expanded, the outermost first, and the files and
\* lines they have read.
Frames == [path : Paths, next : Nat, ended : BOOLEAN, expanded : Seq(Paths \X Nat)]
OpenIn(st) == {st[i].path : i \in DOMAIN st}
ReadIn(V, st) ==
  {x \in Paths \X Nat :
     x[1] \in V /\ x[2] \in Heads(x[1]) /\ \A i \in DOMAIN st : st[i].path = x[1] => x[2] < st[i].next}

\* What call i waits for; Nowhere if it runs.
Awaited(st, ask, i) == IF i = Len(st) THEN ask ELSE st[i + 1].path

\* The last line f has read is an include of q.
LastRead(f, h) == h \in Heads(f.path) /\ h < f.next /\ \A g \in Heads(f.path) : h < g => g >= f.next
WaitsFor(f, q) == \E h \in Heads(f.path) : LastRead(f, h) /\ disk[f.path][h] = q

\* The running calls are a chain of includes from the entry file, each of a
\* file of its own.
Stacked(fs, st, ask) ==
  /\ fs \in Seq(Paths) /\ IsInjective(fs) /\ st \in Seq(Frames) /\ ask \in Paths \cup {Nowhere}
  /\ OpenIn(st) \subseteq ToSet(fs)
  /\ \A i, j \in DOMAIN st : i # j => st[i].path # st[j].path
  /\ st = <<>> => ask = Entry /\ fs = <<>>
  /\ Entry \in ToSet(fs) \cup {ask}
  /\ \A i \in DOMAIN st : Awaited(st, ask, i) # Nowhere => WaitsFor(st[i], Awaited(st, ask, i))
  /\ \A i \in DOMAIN st : st[i].ended <=> \E g \in Heads(st[i].path) : g < st[i].next /\ disk[st[i].path][g] = ".end"

\* An include that was read is a file that is read to its end, or the one the
\* call waits for.
Settled(V, st, ask, R) ==
  \A x \in R : disk[x[1]][x[2]] \in Paths =>
    \/ disk[x[1]][x[2]] \in V \ OpenIn(st)
    \/ \E i \in DOMAIN st : st[i].path = x[1] /\ Awaited(st, ask, i) = disk[x[1]][x[2]] /\ LastRead(st[i], x[2])

\* No line and no file read so far has a defect.
LinesAreFine(R) ==
  \A x \in R :
    /\ disk[x[1]][x[2]] \in Paths \cup {"text", ".end"}
    /\ disk[x[1]][x[2]] = ".end" => x[1] = Entry /\ \A y \in R : y[1] = Entry => y[2] <= x[2]
    /\ disk[x[1]][x[2]] # "text" => ~Continued(x[1], x[2])
FilesAreFine(V) ==
  \A p \in V : disk[p] \notin {<<"missing">>, <<"garbled">>} /\ Len(disk[p]) <= limits.file_bytes /\ ~Orphan(p)

\* The three totals count what was read, and are within their limits.
Bytes(V) == UNION {{p} \X DOMAIN disk[p] : p \in V}
Counted(fs, R, size, count) ==
  /\ Len(fs) <= limits.files
  /\ size = Cardinality(Bytes(ToSet(fs))) /\ size <= limits.bytes
  /\ count = Cardinality(R) /\ count <= limits.lines

\* Files read to the end lead to files read to the end, never back.
ReadToTheEnd(V, O) ==
  \A p \in V \ O : Includes[p] \subseteq V \ O /\ p \notin Reachable(Includes, Includes[p])

\* The text lines read are all held by the running calls, once and in order:
\* nothing that stands after an include comes before what it includes.
Before(x, y) ==
  (x[1] = y[1] => x[2] < y[2]) /\ \A g \in Heads(x[1]) : g < x[2] => disk[x[1]][g] # y[1]
InOrder(s) == \A k, l \in DOMAIN s : k < l => Before(s[k], s[l])
IsTextLine(x) == disk[x[1]][x[2]] = "text"
Expanded(st, R) ==
  /\ \A i \in DOMAIN st : InOrder(st[i].expanded) /\ \A k \in DOMAIN st[i].expanded :
       st[i].expanded[k] \in R /\ IsTextLine(st[i].expanded[k])
  /\ \A i, j \in DOMAIN st : i < j =>
       \A k \in DOMAIN st[i].expanded, l \in DOMAIN st[j].expanded : Before(st[i].expanded[k], st[j].expanded[l])
  /\ \A x \in R : IsTextLine(x) => \E i \in DOMAIN st : x \in ToSet(st[i].expanded)

\* Only files the entry file needs are read.
Wanted(V, ask) == V \subseteq Needed /\ (ask # Nowhere => ask \in Needed)

\* Every line of the files V that counts.
LinesOf(V) == UNION {{p} \X Heads(p) : p \in V}

\* What is true while files are read, and when they all are.
Expanding(fs, st, ask, size, count) ==
  LET V == ToSet(fs)
      R == ReadIn(V, st)
  IN  /\ Stacked(fs, st, ask)
      /\ Settled(V, st, ask, R) /\ LinesAreFine(R) /\ FilesAreFine(V)
      /\ Counted(fs, R, size, count) /\ ReadToTheEnd(V, OpenIn(st)) /\ Expanded(st, R) /\ Wanted(V, ask)
AllRead(fs, read, size, count) ==
  LET V == ToSet(fs)
      R == LinesOf(V)
  IN  /\ fs \in Seq(Paths) /\ IsInjective(fs) /\ V = Needed
      /\ LinesAreFine(R) /\ FilesAreFine(V)
      /\ Counted(fs, R, size, count) /\ ReadToTheEnd(V, {})
      /\ read \in Seq(Paths \X Nat) /\ InOrder(read) /\ ToSet(read) = {x \in R : IsTextLine(x)}

LEMMA AppendFacts ==
  ASSUME NEW S, NEW e \in Seq(S), NEW z
  PROVE  /\ DOMAIN Append(e, z) = DOMAIN e \cup {Len(e) + 1} /\ Append(e, z)[Len(e) + 1] = z
         /\ \A k \in DOMAIN e : Append(e, z)[k] = e[k]
         /\ DOMAIN e = 1..Len(e) /\ Len(e) \in Nat
OBVIOUS

LEMMA Shifted ==
  ASSUME NEW a \in Nat, NEW b \in Nat, NEW k \in 1..b
  PROVE  k + a \in 1..(a + b) /\ ~(k + a <= a) /\ k + a - a = k
OBVIOUS

\* What the input promises: files are sequences of lines, limits are numbers.
Readable ==
  /\ \A p \in Paths : disk[p] \in Seq(ToSet(disk[p]))
  /\ {limits.files, limits.file_bytes, limits.bytes, limits.lines} \subseteq Nat

LEMMA HeadsFacts ==
  ASSUME Readable, NEW p \in Paths
  PROVE  /\ Len(disk[p]) \in Nat /\ DOMAIN disk[p] = 1..Len(disk[p]) /\ Heads(p) \subseteq 1..Len(disk[p])
         /\ IsFiniteSet(Heads(p)) /\ IsFiniteSet(DOMAIN disk[p])
<1>1. Len(disk[p]) \in Nat /\ DOMAIN disk[p] = 1..Len(disk[p])
  BY DEF Readable
<1>2. Heads(p) \in SUBSET (1..Len(disk[p]))
  BY <1>1 DEF Heads
<1>3. IsFiniteSet(1..Len(disk[p]))
  BY <1>1, FS_Interval
<1>4. QED
  BY <1>1, <1>2, <1>3, FS_Subset

LEMMA IncludesFacts ==
  ASSUME Readable
  PROVE  /\ IsFiniteSet(Paths) /\ Includes \in [Paths -> SUBSET Paths]
         /\ \A p \in Paths : Includes[p] = Paths \cap {disk[p][h] : h \in Heads(p)}
         /\ Needed \in SUBSET Paths /\ Entry \in Needed /\ \A p \in Needed : Includes[p] \subseteq Needed
         /\ \A T : Entry \in T /\ (\A p \in T \cap Paths : Includes[p] \subseteq T) => Needed \subseteq T
<1>1. /\ IsFiniteSet(Paths) /\ {Entry} \in SUBSET Paths
  BY PathsAssumption
<1>2. Includes \in [Paths -> SUBSET Paths] /\ \A p \in Paths : Includes[p] = Paths \cap {disk[p][h] : h \in Heads(p)}
  BY DEF Includes
<1>3. LET R == Reachable(Includes, {Entry})
      IN  /\ {Entry} \subseteq R /\ R \subseteq Paths /\ \A v \in R : Includes[v] \subseteq R
          /\ \A T : {Entry} \subseteq T /\ (\A v \in T \cap Paths : Includes[v] \subseteq T) => R \subseteq T
  BY <1>1, <1>2, ReachableFacts
<1>4. QED
  BY <1>1, <1>2, <1>3 DEF Needed

\* What is reached from the includes of a file.
LEMMA IncludedFacts ==
  ASSUME Readable, NEW p \in Paths
  PROVE  LET R == Reachable(Includes, Includes[p])
         IN  /\ Includes[p] \subseteq R /\ R \in SUBSET Paths /\ \A v \in R : Includes[v] \subseteq R
             /\ \A T : Includes[p] \subseteq T /\ (\A v \in T \cap Paths : Includes[v] \subseteq T) => R \subseteq T
<1>1. IsFiniteSet(Paths) /\ Includes \in [Paths -> SUBSET Paths]
  BY IncludesFacts
<1>2. Includes[p] \in SUBSET Paths
  BY <1>1
<1>3. QED
  BY <1>1, <1>2, ReachableFacts

LEMMA StackFacts ==
  ASSUME NEW fs, NEW st, NEW ask, Stacked(fs, st, ask)
  PROVE  /\ Len(st) \in Nat /\ DOMAIN st = 1..Len(st) /\ (st = <<>> <=> Len(st) = 0)
         /\ \A i \in DOMAIN st : /\ st[i] \in Frames /\ st[i].path \in Paths /\ st[i].next \in Nat
                                 /\ st[i].ended \in BOOLEAN /\ st[i].expanded \in Seq(Paths \X Nat)
                                 /\ st[i].path \in ToSet(fs) /\ st[i].path \in OpenIn(st)
         /\ ToSet(fs) \in SUBSET Paths
<1>1. fs \in Seq(Paths) /\ st \in Seq(Frames) /\ OpenIn(st) \subseteq ToSet(fs)
  BY DEF Stacked
<1>2. Len(st) \in Nat /\ DOMAIN st = 1..Len(st) /\ (st = <<>> <=> Len(st) = 0)
  BY <1>1
<1>3. \A i \in DOMAIN st : st[i] \in Frames
  BY <1>1
<1>4. \A i \in DOMAIN st : st[i].path \in Paths /\ st[i].next \in Nat /\ st[i].ended \in BOOLEAN /\ st[i].expanded \in Seq(Paths \X Nat)
  BY <1>3 DEF Frames
<1>5. \A i \in DOMAIN st : st[i].path \in OpenIn(st)
  BY DEF OpenIn
<1>6. ToSet(fs) \in SUBSET Paths
  BY <1>1 DEF ToSet
<1>7. QED
  BY <1>1, <1>2, <1>3, <1>4, <1>5, <1>6

\* Entering a file.
NewFrame(p) == [path |-> p, next |-> 1, ended |-> FALSE, expanded |-> <<>>]

LEMMA EnterEffect ==
  ASSUME Readable, NEW fs, NEW st, NEW p \in Paths, Stacked(fs, st, p), p \notin ToSet(fs)
  PROVE  LET st2 == Append(st, NewFrame(p))
             fs2 == Append(fs, p)
         IN  /\ ToSet(fs2) = ToSet(fs) \cup {p} /\ OpenIn(st2) = OpenIn(st) \cup {p} /\ p \notin OpenIn(st)
             /\ ReadIn(ToSet(fs2), st2) = ReadIn(ToSet(fs), st)
             /\ \A h : <<p, h>> \notin ReadIn(ToSet(fs), st)
             /\ Len(st2) = Len(st) + 1 /\ DOMAIN st2 = DOMAIN st \cup {Len(st) + 1}
             /\ st2[Len(st) + 1] = NewFrame(p) /\ \A i \in DOMAIN st : st2[i] = st[i]
<1> DEFINE st2 == Append(st, NewFrame(p))
           fs2 == Append(fs, p)
           n == Len(st)
<1>1. /\ n \in Nat /\ DOMAIN st = 1..n /\ st \in Seq(Frames) /\ fs \in Seq(Paths) /\ OpenIn(st) \subseteq ToSet(fs)
      /\ \A i \in DOMAIN st : st[i].path \in ToSet(fs)
  BY StackFacts DEF Stacked
<1>2. NewFrame(p) \in Frames
  BY DEF NewFrame, Frames
<1>3. NewFrame(p).path = p /\ NewFrame(p).next = 1
  BY DEF NewFrame
<1>4. /\ Len(st2) = n + 1 /\ DOMAIN st2 = 1..(n + 1) /\ st2[n + 1] = NewFrame(p) /\ \A i \in 1..n : st2[i] = st[i]
  BY <1>1, <1>2
<1>5. 1..(n + 1) = 1..n \cup {n + 1}
  BY <1>1
<1>6. ToSet(fs2) = ToSet(fs) \cup {p}
  <2>1. /\ DOMAIN fs2 = DOMAIN fs \cup {Len(fs) + 1} /\ fs2[Len(fs) + 1] = p /\ \A i \in DOMAIN fs : fs2[i] = fs[i]
    BY <1>1
  <2>2. QED
    BY <2>1 DEF ToSet
<1> HIDE DEF st2, fs2, n
<1>7. OpenIn(st2) = OpenIn(st) \cup {p}
  BY <1>1, <1>3, <1>4, <1>5 DEF OpenIn
<1>8. p \notin OpenIn(st)
  BY <1>1
<1>9. ASSUME NEW x PROVE x \in ReadIn(ToSet(fs2), st2) <=> x \in ReadIn(ToSet(fs), st)
  <2>1. CASE x \notin Paths \X Nat
    BY <2>1 DEF ReadIn
  <2>2. CASE x \in Paths \X Nat /\ x[1] = p
    <3>1. x \notin ReadIn(ToSet(fs), st)
      BY <2>2 DEF ReadIn
    <3>2. x[2] \in Heads(p) => ~(x[2] < 1)
      BY HeadsFacts
    <3>3. st2[n + 1].path = p /\ st2[n + 1].next = 1 /\ n + 1 \in DOMAIN st2
      BY <1>1, <1>3, <1>4, <1>5
    <3>4. x \notin ReadIn(ToSet(fs2), st2)
      BY <2>2, <3>2, <3>3 DEF ReadIn
    <3>5. QED
      BY <3>1, <3>4
  <2>3. CASE x \in Paths \X Nat /\ x[1] # p
    <3>1. (\A i \in DOMAIN st2 : st2[i].path = x[1] => x[2] < st2[i].next)
            <=> (\A i \in DOMAIN st : st[i].path = x[1] => x[2] < st[i].next)
      BY <1>1, <1>3, <1>4, <1>5, <2>3
    <3>2. x[1] \in ToSet(fs2) <=> x[1] \in ToSet(fs)
      BY <1>6, <2>3
    <3>3. QED
      BY <3>1, <3>2 DEF ReadIn
  <2>4. QED
    BY <2>1, <2>2, <2>3
<1>10. \A h : <<p, h>> \notin ReadIn(ToSet(fs), st)
  BY DEF ReadIn
<1>11. ReadIn(ToSet(fs2), st2) = ReadIn(ToSet(fs), st)
  <2>1. /\ \A x \in ReadIn(ToSet(fs2), st2) : x \in ReadIn(ToSet(fs), st)
        /\ \A x \in ReadIn(ToSet(fs), st) : x \in ReadIn(ToSet(fs2), st2)
    BY <1>9
  <2>2. QED
    BY <2>1
<1>12. QED
  BY <1>1, <1>4, <1>5, <1>6, <1>7, <1>8, <1>10, <1>11 DEF st2, fs2, n

\* Reading the next line of the running call.
LeftIn(f) == {h \in Heads(f.path) : h >= f.next}

\* Call n of fs and st reads line l of p: st2 is the stack after it.
Advances(fs, st, st2, g, l) ==
  /\ Len(st) \in Nat /\ Len(st) \in DOMAIN st /\ DOMAIN st = 1..Len(st)
  /\ g.path = st[Len(st)].path /\ g.next = l + 1 /\ g.path \in ToSet(fs) /\ g.path \in Paths
  /\ l \in Heads(g.path) /\ l \in Nat /\ \A h \in Heads(g.path) : h < l <=> h < st[Len(st)].next
  /\ st2 \in Seq(Frames) /\ DOMAIN st2 = DOMAIN st /\ Len(st2) = Len(st) /\ st2[Len(st)] = g
  /\ \A i \in DOMAIN st : st2[i].path = st[i].path /\ (i # Len(st) => st2[i] = st[i])
  /\ OpenIn(st2) = OpenIn(st) /\ ReadIn(ToSet(fs), st2) = ReadIn(ToSet(fs), st) \cup {<<g.path, l>>}
  /\ <<g.path, l>> \notin ReadIn(ToSet(fs), st)
  /\ \A h : <<g.path, h>> \in ReadIn(ToSet(fs), st) <=> h \in Heads(g.path) /\ h < l

LEMMA AdvanceEffect ==
  ASSUME Readable, NEW fs, NEW st, Stacked(fs, st, Nowhere), st # <<>>, LeftIn(st[Len(st)]) # {},
         NEW g \in Frames, g.path = st[Len(st)].path, g.next = Min(LeftIn(st[Len(st)])) + 1
  PROVE  Advances(fs, st, [st EXCEPT ![Len(st)] = g], g, Min(LeftIn(st[Len(st)])))
<1> DEFINE n == Len(st)
           p == st[n].path
           L == LeftIn(st[n])
           l == Min(L)
           st2 == [st EXCEPT ![n] = g]
           V == ToSet(fs)
           R == ReadIn(V, st)
<1>1. /\ n \in Nat /\ DOMAIN st = 1..n /\ n # 0 /\ V \in SUBSET Paths
      /\ \A i \in DOMAIN st : st[i].path \in V /\ st[i].path \in Paths /\ st[i].next \in Nat
  BY StackFacts
<1>2. n \in 1..n /\ n \in DOMAIN st /\ p \in V /\ p \in Paths /\ st[n].next \in Nat
  BY <1>1
<1>3. \A i \in DOMAIN st : st[i].path = p => i = n
  BY <1>2 DEF Stacked
<1>4. Heads(p) \subseteq Nat
  BY <1>2, HeadsFacts
<1>5. l \in L /\ \A h \in L : l <= h
  <2>1. L \in SUBSET Nat /\ L # {}
    BY <1>4 DEF LeftIn
  <2> HIDE DEF L
  <2>2. QED
    BY <2>1, MinFacts
<1>6. l \in Heads(p) /\ l \in Nat /\ l >= st[n].next
  BY <1>4, <1>5 DEF LeftIn
<1>7. \A h \in Heads(p) : h \in L <=> h >= st[n].next
  BY DEF LeftIn
<1> HIDE DEF L, l
<1>8. \A h \in Heads(p) : h < l <=> h < st[n].next
  <2>1. ASSUME NEW h \in Heads(p) PROVE h < l <=> h < st[n].next
    <3>1. h \in Nat /\ l \in Nat /\ st[n].next \in Nat /\ l >= st[n].next /\ (h >= st[n].next => l <= h)
      BY <1>2, <1>4, <1>5, <1>6, <1>7
    <3>2. QED
      BY <3>1
  <2>2. QED
    BY <2>1
<1>9. DOMAIN st2 = DOMAIN st /\ Len(st2) = n /\ st2[n] = g /\ \A i \in 1..(n - 1) : st2[i] = st[i]
  <2>1. st2 = [i \in 1..n |-> IF i = n THEN g ELSE st[i]]
    BY <1>1 DEF Stacked
  <2>2. st2 \in Seq(Frames)
    BY <1>1 DEF Stacked
  <2>3. \A i \in 1..(n - 1) : i \in 1..n /\ i # n
    <3>1. n \in Nat
      BY <1>1
    <3> HIDE DEF n
    <3>2. QED
      BY <3>1
  <2>4. QED
    BY <1>1, <1>2, <2>1, <2>2, <2>3
<1>99. st2 \in Seq(Frames) /\ n \in Nat /\ DOMAIN st = 1..n
  BY <1>1 DEF Stacked
<1>10. \A i \in DOMAIN st : i = n \/ i \in 1..(n - 1)
  BY <1>1
<1> HIDE DEF st2
<1>11. g.path = p /\ g.next = l + 1
  BY DEF l, L
<1>12. \A i \in DOMAIN st : st2[i].path = st[i].path
  BY <1>9, <1>10, <1>11
<1>13. OpenIn(st2) = OpenIn(st)
  BY <1>9, <1>12 DEF OpenIn
<1> HIDE DEF V
<1>14. \A h : <<p, h>> \in R <=> h \in Heads(p) /\ h < l
  <2>1. \A h : <<p, h>> \in R <=> h \in Heads(p) /\ h < st[n].next
    BY <1>2, <1>3, <1>4 DEF ReadIn
  <2>2. QED
    BY <1>8, <2>1
<1>15. \A h : <<p, h>> \in ReadIn(V, st2) <=> h \in Heads(p) /\ h < l + 1
  BY <1>2, <1>3, <1>4, <1>9, <1>11, <1>12 DEF ReadIn
<1>16. \A x : x[1] # p => (x \in ReadIn(V, st2) <=> x \in R)
  <2>1. \A i \in DOMAIN st : st[i].path # p => st2[i] = st[i]
    BY <1>9, <1>10
  <2>2. QED
    BY <1>9, <1>12, <2>1 DEF ReadIn
<1>17. ReadIn(V, st2) = R \cup {<<p, l>>}
  <2>1. R \subseteq Paths \X Nat /\ ReadIn(V, st2) \subseteq Paths \X Nat
    BY DEF ReadIn
  <2>2. \A h \in Heads(p) : h < l + 1 <=> h < l \/ h = l
    BY <1>4, <1>6
  <2>3. \A h : <<p, h>> \in ReadIn(V, st2) <=> <<p, h>> \in R \/ h = l
    BY <1>6, <1>14, <1>15, <2>2
  <2>4. \A x \in Paths \X Nat : x = <<x[1], x[2]>>
    OBVIOUS
  <2>5. \A x \in Paths \X Nat : x \in ReadIn(V, st2) <=> x \in R \/ x = <<p, l>>
    <3> HIDE DEF R, p
    <3>1. QED
      BY <1>16, <2>3, <2>4
  <2>6. <<p, l>> \in Paths \X Nat
    BY <1>2, <1>6
  <2> HIDE DEF R, p
  <2>7. QED
    BY <2>1, <2>5, <2>6
<1>18. <<p, l>> \notin R
  BY <1>6, <1>14
<1>19. \A i \in DOMAIN st : i # n => st2[i] = st[i]
  BY <1>9, <1>10
<1> HIDE DEF R
<1>20. /\ Len(st) = n /\ st[Len(st)].path = p /\ ToSet(fs) = V /\ ReadIn(V, st) = R
  BY DEF n, p, V, R
<1> HIDE DEF n, p
<1>21. Advances(fs, st, st2, g, l)
  BY <1>2, <1>6, <1>8, <1>9, <1>11, <1>12, <1>13, <1>14, <1>17, <1>18, <1>19, <1>20, <1>99 DEF Advances
<1>22. QED
  BY <1>21 DEF l, L, st2, n, p

LEMMA ReplacedAt ==
  ASSUME NEW S, NEW s \in Seq(S), NEW i \in DOMAIN s, NEW e \in S
  PROVE  LET t == [s EXCEPT ![i] = e]
         IN  /\ t \in Seq(S) /\ Len(t) = Len(s) /\ DOMAIN t = DOMAIN s /\ t[i] = e
             /\ \A j \in DOMAIN s : j # i => t[j] = s[j]
OBVIOUS

\* The last call of st is over: st2 is the stack after it.
Returns(fs, st, st2, more) ==
  LET m == Len(st) - 1
      p == st[Len(st)].path
  IN  /\ Len(st) \in Nat /\ m \in Nat /\ m # 0 /\ m \in DOMAIN st /\ Len(st) \in DOMAIN st /\ m + 1 = Len(st)
      /\ DOMAIN st = 1..m \cup {Len(st)} /\ Len(st) \notin 1..m /\ \A i \in 1..m : i < Len(st)
      /\ p \in ToSet(fs) /\ p \in Paths
      /\ st2 \in Seq(Frames) /\ DOMAIN st2 = 1..m /\ Len(st2) = m
      /\ \A i \in 1..m : /\ st2[i].path = st[i].path /\ st2[i].next = st[i].next /\ st2[i].ended = st[i].ended
                         /\ i # m => st2[i] = st[i]
      /\ st2[m].expanded = more
      /\ OpenIn(st2) = OpenIn(st) \ {p} /\ ReadIn(ToSet(fs), st2) = ReadIn(ToSet(fs), st)
      /\ \A h : <<p, h>> \in ReadIn(ToSet(fs), st) <=> h \in Heads(p)

\* A call whose loop is done goes back to its caller.
LEMMA ReturnEffect ==
  ASSUME Readable, NEW fs, NEW st, Stacked(fs, st, Nowhere), Len(st) > 1, LeftIn(st[Len(st)]) = {},
         NEW more \in Seq(Paths \X Nat)
  PROVE  Returns(fs, st, [Front(st) EXCEPT ![Len(st) - 1].expanded = more], more)
<1> DEFINE n == Len(st)
           m == n - 1
           p == st[n].path
           f == Front(st)
           st2 == [f EXCEPT ![m].expanded = more]
           V == ToSet(fs)
           R == ReadIn(V, st)
<1>1. /\ n \in Nat /\ DOMAIN st = 1..n /\ V \in SUBSET Paths
      /\ \A i \in DOMAIN st : st[i].path \in V /\ st[i].path \in Paths /\ st[i].next \in Nat /\ st[i] \in Frames
  BY StackFacts
<1>2. m + 1 = n /\ n \in DOMAIN st /\ m \in DOMAIN st /\ m \in Nat /\ m # 0 /\ 1..n = 1..m \cup {n} /\ n \notin 1..m
      /\ m \in 1..m /\ \A i \in 1..m : i \in 1..n /\ i # n /\ i < n
  <2>1. n \in Nat /\ n > 1 /\ DOMAIN st = 1..n
    BY <1>1
  <2> HIDE DEF n
  <2>2. QED
    BY <2>1
<1>3. f \in Seq(Frames) /\ Len(f) = m /\ DOMAIN f = 1..m /\ \A i \in 1..m : f[i] = st[i]
  <2>1. f = SubSeq(st, 1, m)
    BY DEF Front
  <2>2. 1 \in Nat /\ m \in Nat /\ 1 <= 1 /\ 1 <= m + 1 /\ m <= Len(st) /\ st \in Seq(Frames) /\ m - 1 + 1 = m
    <3>1. st \in Seq(Frames)
      BY DEF Stacked
    <3>2. n \in Nat /\ m \in Nat /\ m = n - 1 /\ n = Len(st)
      BY <1>1, <1>2
    <3> HIDE DEF n, m
    <3>3. 1 <= m + 1 /\ m <= n /\ m - 1 + 1 = m
      BY <3>2
    <3>4. QED
      BY <3>1, <3>2, <3>3
  <2> HIDE DEF m, f
  <2>3. /\ SubSeq(st, 1, m) \in Seq(Frames) /\ Len(SubSeq(st, 1, m)) = m - 1 + 1
        /\ DOMAIN SubSeq(st, 1, m) = 1..(m - 1 + 1)
        /\ \A i \in 1..(m - 1 + 1) : SubSeq(st, 1, m)[i] = st[1 + i - 1]
    BY <2>2, SubSeqFacts
  <2>4. \A i \in 1..m : 1 + i - 1 = i
    BY <2>2
  <2>5. QED
    BY <2>1, <2>2, <2>3, <2>4
<1>4. p \in V /\ p \in Paths
  BY <1>1, <1>2
<1> HIDE DEF f
<1>5. f[m] \in Frames /\ [f[m] EXCEPT !.expanded = more] \in Frames
  BY <1>1, <1>2, <1>3 DEF Frames
<1>6. st2 = [f EXCEPT ![m] = [f[m] EXCEPT !.expanded = more]]
  OBVIOUS
<1> DEFINE e == [f[m] EXCEPT !.expanded = more]
<1>7. e \in Frames /\ e.path = f[m].path /\ e.next = f[m].next /\ e.ended = f[m].ended /\ e.expanded = more
  BY <1>5 DEF Frames
<1> HIDE DEF e, st2
<1>8. st2 = [f EXCEPT ![m] = e]
  BY <1>6 DEF e
<1>9. st2 \in Seq(Frames) /\ Len(st2) = m /\ DOMAIN st2 = 1..m /\ st2[m] = e /\ \A i \in 1..m : i # m => st2[i] = f[i]
  <2>1. f \in Seq(Frames) /\ m \in DOMAIN f /\ e \in Frames
    BY <1>2, <1>3, <1>7
  <2> HIDE DEF m
  <2>2. /\ st2 \in Seq(Frames) /\ Len(st2) = Len(f) /\ DOMAIN st2 = DOMAIN f /\ st2[m] = e
        /\ \A i \in DOMAIN f : i # m => st2[i] = f[i]
    BY <1>8, <2>1, ReplacedAt
  <2>3. QED
    BY <1>3, <2>2
<1>10. \A i \in 1..m : /\ st2[i].path = st[i].path /\ st2[i].next = st[i].next /\ st2[i].ended = st[i].ended
                       /\ i # m => st2[i] = st[i]
  BY <1>2, <1>3, <1>7, <1>9
<1>11. \A i, j \in DOMAIN st : st[i].path = st[j].path => i = j
  BY DEF Stacked
<1> HIDE DEF m, n, V
<1>12. OpenIn(st2) = OpenIn(st) \ {p}
  <2>1. \A i \in 1..m : st2[i].path = st[i].path /\ st[i].path # p
    BY <1>1, <1>2, <1>10, <1>11
  <2>2. OpenIn(st) = {st[i].path : i \in 1..m} \cup {p}
    BY <1>1, <1>2 DEF OpenIn
  <2>3. OpenIn(st2) = {st[i].path : i \in 1..m}
    BY <1>9, <2>1 DEF OpenIn
  <2> HIDE DEF p
  <2>4. QED
    BY <2>1, <2>2, <2>3
<1>13. \A h \in Heads(p) : h < st[n].next
  <2>1. ASSUME NEW h \in Heads(p), ~(h < st[n].next) PROVE FALSE
    <3>1. h \in Nat /\ st[n].next \in Nat
      BY <1>1, <1>2, <1>4, HeadsFacts
    <3>2. h >= st[n].next
      BY <2>1, <3>1
    <3>3. h \in LeftIn(st[n])
      BY <3>2 DEF LeftIn
    <3>4. QED
      BY <3>3 DEF n
  <2>2. QED
    BY <2>1
<1>14. \A h : <<p, h>> \in R <=> h \in Heads(p)
  <2>1. \A i \in DOMAIN st : st[i].path = p => i = n
    BY <1>2, <1>11
  <2>2. Heads(p) \subseteq Nat
    BY <1>4, HeadsFacts
  <2>3. QED
    BY <1>4, <1>13, <2>1, <2>2 DEF ReadIn
<1>15. ReadIn(V, st2) = R
  <2>1. ASSUME NEW x \in Paths \X Nat, x[1] \in V, x[2] \in Heads(x[1])
        PROVE  (\A i \in DOMAIN st2 : st2[i].path = x[1] => x[2] < st2[i].next)
                 <=> (\A i \in DOMAIN st : st[i].path = x[1] => x[2] < st[i].next)
    <3>1. \A i \in 1..m : st2[i].path = st[i].path /\ st2[i].next = st[i].next
      BY <1>10
    <3>2. st[n].path = x[1] => x[2] < st[n].next
      BY <1>13, <2>1
    <3>3. QED
      BY <1>1, <1>2, <1>9, <3>1, <3>2
  <2>2. QED
    BY <2>1 DEF ReadIn
<1> HIDE DEF R, p
<1>16. Len(st) = n /\ m = Len(st) - 1 /\ st[Len(st)].path = p /\ ToSet(fs) = V /\ ReadIn(V, st) = R
  BY DEF n, m, p, V, R
<1>17. Returns(fs, st, st2, more)
  BY <1>1, <1>2, <1>4, <1>7, <1>9, <1>10, <1>12, <1>14, <1>15, <1>16 DEF Returns
<1>18. QED
  BY <1>17 DEF m, n, st2, f

\* The stack of calls stays a stack.
LEMMA EnterStacks ==
  ASSUME Readable, NEW fs, NEW st, NEW p \in Paths, Stacked(fs, st, p), p \notin ToSet(fs)
  PROVE  Stacked(Append(fs, p), Append(st, NewFrame(p)), Nowhere)
<1> DEFINE st2 == Append(st, NewFrame(p))
           fs2 == Append(fs, p)
           n == Len(st)
<1>1. /\ ToSet(fs2) = ToSet(fs) \cup {p} /\ OpenIn(st2) = OpenIn(st) \cup {p}
      /\ Len(st2) = n + 1 /\ DOMAIN st2 = DOMAIN st \cup {n + 1}
      /\ st2[n + 1] = NewFrame(p) /\ \A i \in DOMAIN st : st2[i] = st[i]
  BY EnterEffect
<1>2. /\ n \in Nat /\ DOMAIN st = 1..n /\ st \in Seq(Frames) /\ fs \in Seq(Paths) /\ IsInjective(fs)
      /\ OpenIn(st) \subseteq ToSet(fs) /\ \A i \in DOMAIN st : st[i].path \in ToSet(fs)
  BY StackFacts DEF Stacked
<1>3. NewFrame(p) \in Frames /\ NewFrame(p).path = p /\ NewFrame(p).next = 1 /\ NewFrame(p).ended = FALSE
  BY DEF NewFrame, Frames
<1>4. fs2 \in Seq(Paths) /\ st2 \in Seq(Frames) /\ Nowhere \in Paths \cup {Nowhere}
  BY <1>2, <1>3
<1>5. IsInjective(fs2)
  <2>1. /\ DOMAIN fs2 = DOMAIN fs \cup {Len(fs) + 1} /\ fs2[Len(fs) + 1] = p /\ \A i \in DOMAIN fs : fs2[i] = fs[i]
    BY <1>2
  <2>2. \A i \in DOMAIN fs : fs[i] # p
    BY DEF ToSet
  <2> HIDE DEF fs2
  <2>3. QED
    BY <1>2, <2>1, <2>2 DEF IsInjective
<1> HIDE DEF st2, fs2, n
<1>6. OpenIn(st2) \subseteq ToSet(fs2)
  BY <1>1, <1>2
<1>7. \A i, j \in DOMAIN st2 : i # j => st2[i].path # st2[j].path
  BY <1>1, <1>2, <1>3 DEF Stacked
<1>8. st2 # <<>>
  BY <1>1, <1>2, <1>4
<1>9. Entry \in ToSet(fs2) \cup {Nowhere}
  BY <1>1 DEF Stacked
<1>10. ASSUME NEW i \in DOMAIN st2, Awaited(st2, Nowhere, i) # Nowhere
       PROVE  WaitsFor(st2[i], Awaited(st2, Nowhere, i))
  <2>1. i # n + 1
    BY <1>1, <1>10 DEF Awaited
  <2>2. i \in DOMAIN st /\ st2[i] = st[i]
    BY <1>1, <2>1
  <2>3. Awaited(st2, Nowhere, i) = st2[i + 1].path
    BY <1>1, <2>1 DEF Awaited
  <2>4. CASE i = n
    <3>1. Awaited(st2, Nowhere, i) = p /\ Awaited(st, p, i) = p
      BY <1>1, <1>3, <2>3, <2>4 DEF Awaited, n
    <3>2. p # Nowhere
      BY PathsAssumption
    <3>3. WaitsFor(st[i], p)
      BY <2>2, <3>1, <3>2 DEF Stacked
    <3>4. QED
      BY <2>2, <3>1, <3>3
  <2>5. CASE i # n
    <3>1. i + 1 \in DOMAIN st
      BY <1>2, <2>2, <2>5
    <3>2. Awaited(st2, Nowhere, i) = Awaited(st, p, i)
      BY <1>1, <2>3, <2>5, <3>1 DEF Awaited, n
    <3>3. QED
      BY <1>10, <2>2, <3>2 DEF Stacked
  <2>6. QED
    BY <2>4, <2>5
<1>11. ASSUME NEW i \in DOMAIN st2
       PROVE  st2[i].ended <=> \E g \in Heads(st2[i].path) : g < st2[i].next /\ disk[st2[i].path][g] = ".end"
  <2>1. CASE i = n + 1
    <3>1. \A g \in Heads(p) : ~(g < 1)
      BY HeadsFacts
    <3>2. QED
      BY <1>1, <1>3, <2>1, <3>1
  <2>2. CASE i # n + 1
    BY <1>1, <2>2 DEF Stacked
  <2>3. QED
    BY <2>1, <2>2
<1>12. Stacked(fs2, st2, Nowhere)
  BY <1>4, <1>5, <1>6, <1>7, <1>8, <1>9, <1>10, <1>11 DEF Stacked
<1>13. QED
  BY <1>12 DEF fs2, st2

LEMMA AdvanceStacks ==
  ASSUME Readable, NEW fs, NEW st, Stacked(fs, st, Nowhere), st # <<>>, LeftIn(st[Len(st)]) # {},
         NEW g \in Frames, g.path = st[Len(st)].path, g.next = Min(LeftIn(st[Len(st)])) + 1,
         g.ended <=> st[Len(st)].ended \/ disk[g.path][Min(LeftIn(st[Len(st)]))] = ".end",
         NEW ask \in Paths \cup {Nowhere}, ask # Nowhere => disk[g.path][Min(LeftIn(st[Len(st)]))] = ask
  PROVE  Stacked(fs, [st EXCEPT ![Len(st)] = g], ask)
<1> DEFINE n == Len(st)
           p == st[n].path
           l == Min(LeftIn(st[n]))
           st2 == [st EXCEPT ![n] = g]
<1>0. Advances(fs, st, st2, g, l)
  BY AdvanceEffect
<1>4. (g.ended <=> st[n].ended \/ disk[g.path][l] = ".end") /\ (ask # Nowhere => disk[g.path][l] = ask)
  OBVIOUS
<1> HIDE DEF l, st2
<1>1. /\ n \in Nat /\ n \in DOMAIN st /\ DOMAIN st = 1..n /\ p \in ToSet(fs) /\ p \in Paths
      /\ l \in Heads(p) /\ l \in Nat /\ g.path = p /\ g.next = l + 1
      /\ \A h \in Heads(p) : h < l <=> h < st[n].next
      /\ st2 \in Seq(Frames) /\ DOMAIN st2 = DOMAIN st /\ Len(st2) = n /\ st2[n] = g
      /\ \A i \in DOMAIN st : st2[i].path = st[i].path /\ (i # n => st2[i] = st[i])
      /\ OpenIn(st2) = OpenIn(st)
  BY <1>0 DEF Advances
<1>2. \A i \in DOMAIN st : st[i].path \in Paths
  BY StackFacts
<1>3. st2 # <<>>
  BY <1>1
<1>7. \A h \in Heads(p) : h < l + 1 <=> h < l \/ h = l
  BY <1>1, <1>2, HeadsFacts
<1>8. \A i, j \in DOMAIN st2 : i # j => st2[i].path # st2[j].path
  BY <1>1 DEF Stacked
<1> HIDE DEF n
<1>9. ASSUME NEW i \in DOMAIN st2, Awaited(st2, ask, i) # Nowhere
      PROVE  WaitsFor(st2[i], Awaited(st2, ask, i))
  <2>1. CASE i = n
    <3>1. Awaited(st2, ask, i) = ask /\ disk[p][l] = ask
      BY <1>1, <1>4, <1>9, <2>1 DEF Awaited
    <3>2. \A h \in Heads(p) : l < h => h >= l + 1
      BY <1>1, <1>2, HeadsFacts
    <3>3. l < l + 1
      BY <1>1
    <3>4. LastRead(g, l)
      BY <1>1, <1>4, <3>2, <3>3 DEF LastRead
    <3>5. QED
      BY <1>1, <1>4, <2>1, <3>1, <3>4 DEF WaitsFor
  <2>2. CASE i # n
    <3>1. st2[i] = st[i] /\ i \in DOMAIN st /\ i + 1 \in DOMAIN st
      BY <1>1, <2>2
    <3>2. Awaited(st2, ask, i) = Awaited(st, Nowhere, i)
      BY <1>1, <2>2, <3>1 DEF Awaited, n
    <3>3. QED
      BY <1>9, <3>1, <3>2 DEF Stacked
  <2>3. QED
    BY <2>1, <2>2
<1>10. ASSUME NEW i \in DOMAIN st2
       PROVE  st2[i].ended <=> \E h \in Heads(st2[i].path) : h < st2[i].next /\ disk[st2[i].path][h] = ".end"
  <2>1. CASE i = n
    <3>1. st[n].ended <=> \E h \in Heads(p) : h < st[n].next /\ disk[p][h] = ".end"
      BY <1>1 DEF Stacked
    <3> HIDE DEF p
    <3>2. g.ended <=> \E h \in Heads(p) : h < l + 1 /\ disk[p][h] = ".end"
      BY <1>1, <1>4, <1>7, <3>1
    <3>3. QED
      BY <1>1, <1>4, <2>1, <3>2
  <2>2. CASE i # n
    <3>1. st2[i] = st[i] /\ i \in DOMAIN st
      BY <1>1, <2>2
    <3>2. QED
      BY <3>1 DEF Stacked
  <2>3. QED
    BY <2>1, <2>2
<1>11. Stacked(fs, st2, ask)
  <2>1. Entry \in ToSet(fs) \cup {ask}
    BY PathsAssumption DEF Stacked
  <2>2. fs \in Seq(Paths) /\ IsInjective(fs) /\ OpenIn(st2) \subseteq ToSet(fs)
    BY <1>1 DEF Stacked
  <2>3. QED
    BY <1>1, <1>3, <1>8, <1>9, <1>10, <2>1, <2>2 DEF Stacked
<1>12. QED
  BY <1>11 DEF st2, n

LEMMA ReturnStacks ==
  ASSUME Readable, NEW fs, NEW st, Stacked(fs, st, Nowhere), Len(st) > 1, LeftIn(st[Len(st)]) = {},
         NEW more \in Seq(Paths \X Nat)
  PROVE  Stacked(fs, [Front(st) EXCEPT ![Len(st) - 1].expanded = more], Nowhere)
<1> DEFINE n == Len(st)
           m == n - 1
           p == st[n].path
           st2 == [Front(st) EXCEPT ![m].expanded = more]
<1>0. Returns(fs, st, st2, more)
  BY ReturnEffect
<1> HIDE DEF st2
<1>1. /\ n \in DOMAIN st /\ m \in DOMAIN st /\ m \in Nat /\ m # 0 /\ n \in Nat /\ m + 1 = n
      /\ DOMAIN st2 = 1..m /\ Len(st2) = m /\ st2 \in Seq(Frames)
      /\ DOMAIN st = 1..m \cup {n} /\ n \notin 1..m
      /\ \A i \in 1..m : st2[i].path = st[i].path /\ st2[i].next = st[i].next /\ st2[i].ended = st[i].ended
      /\ OpenIn(st2) = OpenIn(st) \ {p}
  BY <1>0 DEF Returns
<1> HIDE DEF n, m
<1>3. st2 # <<>>
  BY <1>1
<1>4. \A i, j \in DOMAIN st2 : i # j => st2[i].path # st2[j].path
  <2>1. \A i, j \in 1..m : i # j => st[i].path # st[j].path
    BY <1>1 DEF Stacked
  <2>2. QED
    BY <1>1, <2>1
<1>5. ASSUME NEW i \in DOMAIN st2, Awaited(st2, Nowhere, i) # Nowhere
      PROVE  WaitsFor(st2[i], Awaited(st2, Nowhere, i))
  <2>1. i # m /\ i \in 1..m
    BY <1>1, <1>5 DEF Awaited
  <2>2. i \in DOMAIN st /\ i # n /\ i + 1 \in 1..m
    BY <1>1, <2>1
  <2>3. Awaited(st2, Nowhere, i) = Awaited(st, Nowhere, i)
    BY <1>1, <2>1, <2>2 DEF Awaited
  <2>4. WaitsFor(st[i], Awaited(st, Nowhere, i))
    BY <1>5, <2>2, <2>3 DEF Stacked
  <2>5. st2[i].path = st[i].path /\ st2[i].next = st[i].next
    BY <1>1, <2>1
  <2>6. QED
    BY <2>3, <2>4, <2>5 DEF WaitsFor, LastRead
<1>6. ASSUME NEW i \in DOMAIN st2
      PROVE  st2[i].ended <=> \E h \in Heads(st2[i].path) : h < st2[i].next /\ disk[st2[i].path][h] = ".end"
  <2>1. i \in DOMAIN st /\ st2[i].path = st[i].path /\ st2[i].next = st[i].next /\ st2[i].ended = st[i].ended
    BY <1>1
  <2>2. QED
    BY <2>1 DEF Stacked
<1>7. /\ fs \in Seq(Paths) /\ IsInjective(fs) /\ OpenIn(st2) \subseteq ToSet(fs) /\ Entry \in ToSet(fs) \cup {Nowhere}
  BY <1>1 DEF Stacked
<1>8. Stacked(fs, st2, Nowhere)
  BY <1>1, <1>3, <1>4, <1>5, <1>6, <1>7 DEF Stacked
<1>9. QED
  BY <1>8 DEF st2, m, n

LEMMA SkipStacks ==
  ASSUME NEW fs, NEW st, NEW p \in Paths, Stacked(fs, st, p), p \in ToSet(fs)
  PROVE  Stacked(fs, st, Nowhere) /\ st # <<>>
<1>1. st # <<>>
  BY DEF Stacked, ToSet
<1>2. ASSUME NEW i \in DOMAIN st, Awaited(st, Nowhere, i) # Nowhere PROVE WaitsFor(st[i], Awaited(st, Nowhere, i))
  <2>1. Awaited(st, Nowhere, i) = Awaited(st, p, i)
    BY <1>2 DEF Awaited
  <2>2. QED
    BY <1>2, <2>1 DEF Stacked
<1>3. QED
  BY <1>1, <1>2 DEF Stacked

\* A call starts to read p, or nothing is left to read of a call.
LEMMA EnterAwaits ==
  ASSUME Readable, NEW fs, NEW st, NEW p \in Paths, Stacked(fs, st, p), p \notin ToSet(fs)
  PROVE  \A i \in DOMAIN st : Awaited(Append(st, NewFrame(p)), Nowhere, i) = Awaited(st, p, i)
<1> DEFINE st2 == Append(st, NewFrame(p))
           n == Len(st)
<1>1. /\ Len(st2) = n + 1 /\ DOMAIN st2 = DOMAIN st \cup {n + 1}
      /\ st2[n + 1] = NewFrame(p) /\ \A i \in DOMAIN st : st2[i] = st[i]
  BY EnterEffect
<1>2. n \in Nat /\ DOMAIN st = 1..n
  BY StackFacts
<1>3. NewFrame(p).path = p
  BY DEF NewFrame
<1> HIDE DEF st2
<1>4. ASSUME NEW i \in DOMAIN st PROVE Awaited(st2, Nowhere, i) = Awaited(st, p, i)
  <2>1. i # n + 1 /\ i \in Int
    BY <1>2
  <2>2. Awaited(st2, Nowhere, i) = st2[i + 1].path
    BY <1>1, <2>1 DEF Awaited
  <2>3. CASE i = n
    BY <1>1, <1>3, <2>2, <2>3 DEF Awaited
  <2>4. CASE i # n
    <3>1. i + 1 \in DOMAIN st
      BY <1>2, <2>4
    <3>2. QED
      BY <1>1, <2>2, <2>4, <3>1 DEF Awaited
  <2>5. QED
    BY <2>3, <2>4
<1>5. QED
  BY <1>4 DEF st2

LEMMA EndIsRead ==
  ASSUME Readable, NEW fs, NEW st, Stacked(fs, st, Nowhere), st # <<>>, LeftIn(st[Len(st)]) = {}
  PROVE  \A h : <<st[Len(st)].path, h>> \in ReadIn(ToSet(fs), st) <=> h \in Heads(st[Len(st)].path)
<1> DEFINE n == Len(st)
           p == st[n].path
<1>1. n \in Nat /\ DOMAIN st = 1..n /\ n # 0
  BY StackFacts
<1>2. n \in DOMAIN st
  <2> HIDE DEF n
  <2>1. QED
    BY <1>1
<1>3. st[n].next \in Nat /\ p \in Paths /\ p \in ToSet(fs)
  BY <1>2, StackFacts
<1>4. \A i \in DOMAIN st : st[i].path = p => i = n
  BY <1>2 DEF Stacked
<1> HIDE DEF n
<1>5. Heads(p) \subseteq Nat
  BY <1>3, HeadsFacts
<1>6. \A h \in Heads(p) : h < st[n].next
  <2>1. ASSUME NEW h \in Heads(p), ~(h < st[n].next) PROVE FALSE
    <3>1. h >= st[n].next
      BY <1>3, <1>5, <2>1
    <3>2. h \in LeftIn(st[n])
      BY <3>1 DEF LeftIn
    <3>3. QED
      BY <3>2 DEF n
  <2>2. QED
    BY <2>1
<1>7. \A h : <<p, h>> \in ReadIn(ToSet(fs), st) <=> h \in Heads(p)
  BY <1>3, <1>4, <1>5, <1>6 DEF ReadIn
<1>8. QED
  BY <1>7 DEF n

\* The files that are read to the end, with the one that just was.
LEMMA EndOfFile ==
  ASSUME Readable, NEW fs, NEW st, Stacked(fs, st, Nowhere), st # <<>>, LeftIn(st[Len(st)]) = {},
         Settled(ToSet(fs), st, Nowhere, ReadIn(ToSet(fs), st)), ReadToTheEnd(ToSet(fs), OpenIn(st))
  PROVE  ReadToTheEnd(ToSet(fs), OpenIn(st) \ {st[Len(st)].path})
<1> DEFINE n == Len(st)
           p == st[n].path
           V == ToSet(fs)
           O == OpenIn(st)
           R == ReadIn(V, st)
<1>1. n \in Nat /\ DOMAIN st = 1..n /\ n # 0 /\ V \in SUBSET Paths
  BY StackFacts
<1>2. n \in DOMAIN st
  <2> HIDE DEF n
  <2>1. QED
    BY <1>1
<1>3. p \in Paths /\ p \in V /\ p \in O
  BY <1>2, StackFacts
<1>4. \A i \in DOMAIN st : st[i].path = p => i = n
  BY <1>2 DEF Stacked
<1>5. \A h : <<p, h>> \in R <=> h \in Heads(p)
  BY EndIsRead
<1>6. Settled(V, st, Nowhere, R)
  OBVIOUS
<1>7. ReadToTheEnd(V, O)
  OBVIOUS
<1> HIDE DEF V, O, R
<1>8. /\ Includes[p] = Paths \cap {disk[p][h] : h \in Heads(p)}
      /\ Includes \in [Paths -> SUBSET Paths]
  BY <1>3, IncludesFacts
<1>9. Awaited(st, Nowhere, n) = Nowhere
  BY DEF Awaited
<1> HIDE DEF n
<1>10. Includes[p] \subseteq V \ O
  <2>1. ASSUME NEW q \in Includes[p] PROVE q \in V \ O
    <3>1. PICK h \in Heads(p) : disk[p][h] = q
      BY <1>8, <2>1
    <3>2. q \in Paths
      BY <1>8, <2>1
    <3> DEFINE x == <<p, h>>
    <3>3. x \in R /\ x[1] = p /\ x[2] = h
      BY <1>5, <3>1
    <3> HIDE DEF x, p
    <3>4. disk[x[1]][x[2]] = q
      BY <3>1, <3>3
    <3>5. q \in V \ O \/ \E i \in DOMAIN st : st[i].path = p /\ Awaited(st, Nowhere, i) = q
      BY <1>6, <3>2, <3>3, <3>4 DEF Settled, O
    <3>6. q # Nowhere
      BY <3>2, PathsAssumption
    <3>7. QED
      BY <1>4, <1>9, <3>5, <3>6
  <2>2. QED
    BY <2>1
<1>11. p \notin Reachable(Includes, Includes[p])
  <2>1. \A v \in (V \ O) \cap Paths : Includes[v] \subseteq V \ O
    BY <1>7 DEF ReadToTheEnd
  <2>2. Reachable(Includes, Includes[p]) \subseteq V \ O
    BY <1>3, <1>10, <2>1, IncludedFacts
  <2>3. QED
    BY <1>3, <2>2
<1>12. ReadToTheEnd(V, O \ {p})
  <2>1. ASSUME NEW q \in V \ (O \ {p}) PROVE Includes[q] \subseteq V \ (O \ {p}) /\ q \notin Reachable(Includes, Includes[q])
    <3>1. CASE q = p
      BY <1>10, <1>11, <3>1
    <3>2. CASE q # p
      <4>1. q \in V \ O
        BY <2>1, <3>2
      <4>2. Includes[q] \subseteq V \ O /\ q \notin Reachable(Includes, Includes[q])
        BY <1>7, <4>1 DEF ReadToTheEnd
      <4>3. QED
        BY <4>2
    <3>3. QED
      BY <3>1, <3>2
  <2>2. QED
    BY <2>1 DEF ReadToTheEnd
<1>13. QED
  BY <1>12 DEF V, O, n

LEMMA BytesAreFinite ==
  ASSUME Readable, NEW V \in SUBSET Paths
  PROVE  IsFiniteSet(Bytes(V)) /\ Cardinality(Bytes(V)) \in Nat
<1> DEFINE f == [q \in V |-> {q} \X DOMAIN disk[q]]
<1>1. IsFiniteSet(V)
  BY PathsAssumption, FS_Subset
<1>2. ASSUME NEW q \in V PROVE IsFiniteSet(f[q])
  <2> DEFINE D == DOMAIN disk[q]
  <2>1. IsFiniteSet(D) /\ IsFiniteSet({q})
    BY HeadsFacts, FS_Singleton
  <2> HIDE DEF D
  <2>2. IsFiniteSet({q} \X D)
    BY <2>1, FS_Product
  <2>3. QED
    BY <2>2 DEF D
<1>3. f = [q \in V |-> f[q]] /\ UNION {f[q] : q \in V} = Bytes(V)
  BY DEF Bytes
<1> HIDE DEF f
<1>4. IsFiniteSet(UNION {f[q] : q \in V})
  BY <1>1, <1>2, <1>3, UnionIsFinite
<1>5. QED
  BY <1>3, <1>4, FS_CardinalityType

LEMMA BytesGrow ==
  ASSUME Readable, NEW V \in SUBSET Paths, NEW p \in Paths, p \notin V
  PROVE  Cardinality(Bytes(V \cup {p})) = Cardinality(Bytes(V)) + Len(disk[p])
<1> DEFINE D == DOMAIN disk[p]
           Of == {p} \X D
<1>1. Len(disk[p]) \in Nat /\ D = 1..Len(disk[p])
  BY HeadsFacts
<1>2. IsFiniteSet(D) /\ Cardinality(D) = Len(disk[p])
  BY <1>1, FS_Interval
<1>3. IsFiniteSet({p}) /\ Cardinality({p}) = 1
  BY FS_Singleton
<1>4. Bytes(V \cup {p}) = Bytes(V) \cup Of /\ Bytes(V) \cap Of = {}
  BY DEF Bytes
<1> HIDE DEF D
<1>5. IsFiniteSet(Of) /\ Cardinality(Of) = Cardinality({p}) * Cardinality(D)
  BY <1>2, <1>3, FS_Product
<1>6. Cardinality(Of) = Len(disk[p])
  BY <1>1, <1>2, <1>3, <1>5
<1>7. IsFiniteSet(Bytes(V)) /\ Cardinality(Bytes(V)) \in Nat
  BY BytesAreFinite
<1> HIDE DEF Of
<1>8. Cardinality(Bytes(V) \cup Of) = Cardinality(Bytes(V)) + Cardinality(Of) - Cardinality(Bytes(V) \cap Of)
  BY <1>5, <1>7, FS_Union
<1>9. Cardinality(Bytes(V) \cap Of) = 0
  BY <1>4, FS_EmptySet
<1> DEFINE a == Cardinality(Bytes(V))
           b == Cardinality(Bytes(V) \cup Of)
           c == Cardinality(Of)
           d == Cardinality(Bytes(V) \cap Of)
<1>10. a \in Nat /\ c \in Nat /\ c = Len(disk[p]) /\ d = 0 /\ b = a + c - d
  BY <1>1, <1>6, <1>7, <1>8, <1>9
<1>11. Cardinality(Bytes(V \cup {p})) = b
  BY <1>4
<1> HIDE DEF a, b, c, d
<1>12. b = a + Len(disk[p])
  BY <1>10
<1>13. QED
  BY <1>11, <1>12 DEF a

LEMMA LinesAreFinite ==
  ASSUME Readable, NEW V \in SUBSET Paths
  PROVE  IsFiniteSet(LinesOf(V)) /\ Cardinality(LinesOf(V)) \in Nat
<1> DEFINE f == [q \in V |-> {q} \X Heads(q)]
<1>1. IsFiniteSet(V)
  BY PathsAssumption, FS_Subset
<1>2. ASSUME NEW q \in V PROVE IsFiniteSet(f[q])
  <2>1. IsFiniteSet(Heads(q)) /\ IsFiniteSet({q})
    BY HeadsFacts, FS_Singleton
  <2>2. QED
    BY <2>1, FS_Product
<1>3. f = [q \in V |-> f[q]] /\ UNION {f[q] : q \in V} = LinesOf(V)
  BY DEF LinesOf
<1> HIDE DEF f
<1>4. IsFiniteSet(UNION {f[q] : q \in V})
  BY <1>1, <1>2, <1>3, UnionIsFinite
<1>5. QED
  BY <1>3, <1>4, FS_CardinalityType

LEMMA ReadIsFinite ==
  ASSUME Readable, NEW V \in SUBSET Paths, NEW st
  PROVE  /\ ReadIn(V, st) \subseteq LinesOf(V)
         /\ IsFiniteSet(ReadIn(V, st)) /\ Cardinality(ReadIn(V, st)) \in Nat
<1>1. \A x \in ReadIn(V, st) : x = <<x[1], x[2]>> /\ x[1] \in V /\ x[2] \in Heads(x[1])
  BY DEF ReadIn
<1>2. ReadIn(V, st) \subseteq LinesOf(V)
  BY <1>1 DEF LinesOf
<1>3. IsFiniteSet(ReadIn(V, st))
  BY <1>2, LinesAreFinite, FS_Subset
<1>4. QED
  BY <1>2, <1>3, FS_CardinalityType

LEMMA EnterReads ==
  ASSUME Readable, NEW fs, NEW st, NEW p \in Paths, NEW size, NEW count, Expanding(fs, st, p, size, count), p \notin ToSet(fs),
         Len(fs) < limits.files, size + Len(disk[p]) <= limits.bytes, Len(disk[p]) <= limits.file_bytes,
         disk[p] \notin {<<"missing">>, <<"garbled">>}, ~Orphan(p)
  PROVE  Expanding(Append(fs, p), Append(st, NewFrame(p)), Nowhere, size + Len(disk[p]), count)
<1> DEFINE st2 == Append(st, NewFrame(p))
           fs2 == Append(fs, p)
           n == Len(st)
           V == ToSet(fs)
           O == OpenIn(st)
           R == ReadIn(V, st)
<1>1. /\ Stacked(fs, st, p) /\ Settled(V, st, p, R) /\ LinesAreFine(R) /\ FilesAreFine(V)
      /\ Counted(fs, R, size, count) /\ ReadToTheEnd(V, O) /\ Expanded(st, R) /\ Wanted(V, p)
  BY DEF Expanding
<1>2. /\ ToSet(fs2) = V \cup {p} /\ OpenIn(st2) = O \cup {p} /\ p \notin O
      /\ ReadIn(ToSet(fs2), st2) = R
      /\ Len(st2) = n + 1 /\ DOMAIN st2 = DOMAIN st \cup {n + 1}
      /\ st2[n + 1] = NewFrame(p) /\ \A i \in DOMAIN st : st2[i] = st[i]
  BY <1>1, EnterEffect
<1>3. Stacked(fs2, st2, Nowhere)
  BY <1>1, EnterStacks
<1>4. \A i \in DOMAIN st : Awaited(st2, Nowhere, i) = Awaited(st, p, i)
  BY <1>1, EnterAwaits
<1>5. n \in Nat /\ DOMAIN st = 1..n /\ V \in SUBSET Paths
  BY <1>1, StackFacts
<1>6. fs \in Seq(Paths) /\ Len(fs) \in Nat /\ Len(fs2) = Len(fs) + 1
  BY <1>1 DEF Stacked
<1>7. limits.files \in Nat /\ p \notin V
  BY DEF Readable
<1> HIDE DEF st2, fs2, n, V, O, R
<1>8. Settled(ToSet(fs2), st2, Nowhere, R)
  <2>1. ASSUME NEW x \in R, disk[x[1]][x[2]] \in Paths
        PROVE  \/ disk[x[1]][x[2]] \in ToSet(fs2) \ OpenIn(st2)
               \/ \E i \in DOMAIN st2 : st2[i].path = x[1] /\ Awaited(st2, Nowhere, i) = disk[x[1]][x[2]] /\ LastRead(st2[i], x[2])
    <3>1. CASE disk[x[1]][x[2]] \in V \ O
      BY <1>2, <1>7, <3>1
    <3>2. CASE \E i \in DOMAIN st : st[i].path = x[1] /\ Awaited(st, p, i) = disk[x[1]][x[2]] /\ LastRead(st[i], x[2])
      BY <1>2, <1>4, <3>2
    <3>3. QED
      BY <1>1, <2>1, <3>1, <3>2 DEF Settled, O
  <2>2. QED
    BY <2>1 DEF Settled
<1>9. FilesAreFine(ToSet(fs2))
  BY <1>1, <1>2 DEF FilesAreFine
<1>10. Counted(fs2, R, size + Len(disk[p]), count)
  <2>1. Cardinality(Bytes(ToSet(fs2))) = Cardinality(Bytes(V)) + Len(disk[p])
    BY <1>2, <1>5, <1>7, BytesGrow
  <2>2. Len(fs2) <= limits.files
    BY <1>6, <1>7
  <2>3. QED
    BY <1>1, <2>1, <2>2 DEF Counted, V
<1>11. ReadToTheEnd(ToSet(fs2), OpenIn(st2))
  <2>1. ToSet(fs2) \ OpenIn(st2) = V \ O
    BY <1>2, <1>7
  <2>2. QED
    BY <1>1, <2>1 DEF ReadToTheEnd
<1>12. Expanded(st2, R)
  <2>1. st2[n + 1].expanded = <<>>
    BY <1>2 DEF NewFrame
  <2>2. \A i \in DOMAIN st2 : (i \in DOMAIN st /\ st2[i] = st[i]) \/ DOMAIN st2[i].expanded = {}
    BY <1>2, <2>1
  <2>3. ASSUME NEW i \in DOMAIN st2
        PROVE  InOrder(st2[i].expanded) /\ \A k \in DOMAIN st2[i].expanded :
                 st2[i].expanded[k] \in R /\ IsTextLine(st2[i].expanded[k])
    BY <1>1, <2>2 DEF Expanded, InOrder
  <2>4. ASSUME NEW i \in DOMAIN st2, NEW j \in DOMAIN st2, i < j,
               NEW k \in DOMAIN st2[i].expanded, NEW l \in DOMAIN st2[j].expanded
        PROVE  Before(st2[i].expanded[k], st2[j].expanded[l])
    BY <1>1, <2>2, <2>4 DEF Expanded
  <2>5. \A x \in R : IsTextLine(x) => \E i \in DOMAIN st2 : x \in ToSet(st2[i].expanded)
    BY <1>1, <1>2 DEF Expanded
  <2>6. QED
    BY <2>3, <2>4, <2>5 DEF Expanded
<1>13. Wanted(ToSet(fs2), Nowhere)
  <2>1. p # Nowhere
    BY PathsAssumption
  <2>2. QED
    BY <1>1, <1>2, <2>1 DEF Wanted
<1>14. Expanding(fs2, st2, Nowhere, size + Len(disk[p]), count)
  BY <1>1, <1>2, <1>3, <1>8, <1>9, <1>10, <1>11, <1>12, <1>13 DEF Expanding
<1>15. QED
  BY <1>14 DEF st2, fs2

LEMMA SkipReads ==
  ASSUME NEW fs, NEW st, NEW p \in Paths, NEW size, NEW count, Expanding(fs, st, p, size, count),
         p \in ToSet(fs) \ OpenIn(st)
  PROVE  Expanding(fs, st, Nowhere, size, count)
<1> DEFINE V == ToSet(fs)
           O == OpenIn(st)
           R == ReadIn(V, st)
<1>1. /\ Stacked(fs, st, p) /\ Settled(V, st, p, R) /\ LinesAreFine(R) /\ FilesAreFine(V)
      /\ Counted(fs, R, size, count) /\ ReadToTheEnd(V, O) /\ Expanded(st, R) /\ Wanted(V, p)
  BY DEF Expanding
<1>2. Stacked(fs, st, Nowhere)
  BY <1>1, SkipStacks
<1> HIDE DEF V, O, R
<1>3. Settled(V, st, Nowhere, R)
  <2>1. ASSUME NEW x \in R, disk[x[1]][x[2]] \in Paths
        PROVE  \/ disk[x[1]][x[2]] \in V \ O
               \/ \E i \in DOMAIN st : st[i].path = x[1] /\ Awaited(st, Nowhere, i) = disk[x[1]][x[2]] /\ LastRead(st[i], x[2])
    <3>1. CASE disk[x[1]][x[2]] \in V \ O
      BY <3>1
    <3>2. ASSUME NEW i \in DOMAIN st, st[i].path = x[1], Awaited(st, p, i) = disk[x[1]][x[2]], LastRead(st[i], x[2])
          PROVE  disk[x[1]][x[2]] \in V \ O \/ Awaited(st, Nowhere, i) = disk[x[1]][x[2]]
      BY <3>2 DEF Awaited, V, O
    <3>3. QED
      BY <1>1, <2>1, <3>1, <3>2 DEF Settled, O
  <2>2. QED
    BY <2>1 DEF Settled, O
<1>4. Wanted(V, Nowhere)
  BY <1>1 DEF Wanted
<1>5. QED
  BY <1>1, <1>2, <1>3, <1>4 DEF Expanding, V, O, R

\* No line that was read comes after an include of a file that is being read.
LEMMA LineIsLast ==
  ASSUME Readable, NEW fs, NEW st, NEW st2, NEW g, NEW l, Advances(fs, st, st2, g, l), Stacked(fs, st, Nowhere),
         Settled(ToSet(fs), st, Nowhere, ReadIn(ToSet(fs), st))
  PROVE  \A y \in ReadIn(ToSet(fs), st) : Before(y, <<g.path, l>>)
<1> DEFINE n == Len(st)
           p == g.path
           R == ReadIn(ToSet(fs), st)
           z == <<p, l>>
<1>1. /\ n \in DOMAIN st /\ st[n].path = p /\ p \in Paths /\ p \in OpenIn(st)
      /\ \A h : <<p, h>> \in R <=> h \in Heads(p) /\ h < l
  BY DEF Advances, OpenIn
<1>2. z[1] = p /\ z[2] = l
  OBVIOUS
<1>3. Settled(ToSet(fs), st, Nowhere, R)
  OBVIOUS
<1>4. R \subseteq Paths \X Nat /\ \A x \in R : x[1] \in ToSet(fs) /\ x[2] \in Heads(x[1])
                                     /\ \A i \in DOMAIN st : st[i].path = x[1] => x[2] < st[i].next
  BY DEF ReadIn
<1> HIDE DEF z, n
<1>5. ASSUME NEW y \in R PROVE Before(y, z)
  <2>1. y = <<y[1], y[2]>> /\ y[1] \in Paths /\ y[2] \in Heads(y[1]) /\ y[2] \in Nat
    BY <1>4, <1>5
  <2>2. y[1] = p => y[2] < l
    <3> HIDE DEF R, p
    <3>1. QED
      BY <1>1, <1>5, <2>1
  <2>3. ASSUME NEW h \in Heads(y[1]), h < y[2], disk[y[1]][h] = p PROVE FALSE
    <3> DEFINE x == <<y[1], h>>
    <3>1. x[1] = y[1] /\ x[2] = h
      OBVIOUS
    <3>2. h \in Nat
      BY <2>1, HeadsFacts
    <3>3. \A i \in DOMAIN st : st[i].next \in Nat
      BY StackFacts
    <3>4. \A i \in DOMAIN st : st[i].path = y[1] => h < st[i].next
      BY <1>4, <1>5, <2>1, <2>3, <3>2, <3>3
    <3>5. x \in R
      BY <1>4, <2>1, <3>2, <3>4 DEF ReadIn
    <3> HIDE DEF x, R, p
    <3>6. p \in ToSet(fs) \ OpenIn(st) \/ \E i \in DOMAIN st : st[i].path = y[1] /\ LastRead(st[i], h)
      BY <1>1, <1>3, <2>3, <3>1, <3>5 DEF Settled
    <3>7. ASSUME NEW i \in DOMAIN st, st[i].path = y[1], LastRead(st[i], h) PROVE FALSE
      <4>1. y[2] >= st[i].next /\ y[2] < st[i].next
        BY <1>4, <1>5, <2>1, <2>3, <3>7 DEF LastRead
      <4>2. y[2] \in Nat /\ st[i].next \in Nat
        BY <2>1, StackFacts
      <4>3. QED
        BY <4>1, <4>2
    <3>8. QED
      BY <1>1, <3>6, <3>7
  <2>4. QED
    BY <1>2, <2>2, <2>3 DEF Before
<1>6. QED
  BY <1>5 DEF z

LEMMA AdvanceReads ==
  ASSUME Readable, NEW fs, NEW st, NEW st2, NEW g, NEW l, NEW size, NEW count, NEW ask \in Paths \cup {Nowhere},
         Expanding(fs, st, Nowhere, size, count), Advances(fs, st, st2, g, l), Stacked(fs, st2, ask),
         count + 1 <= limits.lines,
         disk[g.path][l] \in Paths \cup {"text", ".end"}, disk[g.path][l] # "text" => ~Continued(g.path, l),
         disk[g.path][l] = ".end" => g.path = Entry, ~st[Len(st)].ended,
         IF disk[g.path][l] \in Paths THEN ask = disk[g.path][l] ELSE ask = Nowhere,
         g.expanded = IF disk[g.path][l] = "text" THEN Append(st[Len(st)].expanded, <<g.path, l>>) ELSE st[Len(st)].expanded
  PROVE  Expanding(fs, st2, ask, size, count + 1)
<1> DEFINE n == Len(st)
           p == g.path
           V == ToSet(fs)
           O == OpenIn(st)
           R == ReadIn(V, st)
           z == <<p, l>>
<1>1. /\ Stacked(fs, st, Nowhere) /\ Settled(V, st, Nowhere, R) /\ LinesAreFine(R) /\ FilesAreFine(V)
      /\ Counted(fs, R, size, count) /\ ReadToTheEnd(V, O) /\ Expanded(st, R) /\ Wanted(V, Nowhere)
  BY DEF Expanding
<1>2. /\ n \in Nat /\ n \in DOMAIN st /\ DOMAIN st = 1..n
      /\ st[n].path = p /\ g.next = l + 1 /\ p \in V /\ p \in Paths
      /\ l \in Heads(p) /\ l \in Nat /\ \A h \in Heads(p) : h < l <=> h < st[n].next
      /\ st2 \in Seq(Frames) /\ DOMAIN st2 = DOMAIN st /\ Len(st2) = n /\ st2[n] = g
      /\ \A i \in DOMAIN st : st2[i].path = st[i].path /\ (i # n => st2[i] = st[i])
      /\ OpenIn(st2) = O /\ ReadIn(V, st2) = R \cup {z} /\ z \notin R
      /\ \A h : <<p, h>> \in R <=> h \in Heads(p) /\ h < l
  BY DEF Advances
<1>3. \A y \in R : Before(y, z)
  BY <1>1, LineIsLast
<1>4. z[1] = p /\ z[2] = l
  OBVIOUS
<1>5. IsFiniteSet(R) /\ Cardinality(R) \in Nat
  BY <1>1, StackFacts, ReadIsFinite
<1>6. R \subseteq Paths \X Nat /\ \A x \in R : x = <<x[1], x[2]>> /\ x[1] \in Paths /\ x[2] \in Heads(x[1])
  BY DEF ReadIn
<1> DEFINE what == disk[p][l]
<1>7. /\ what \in Paths \cup {"text", ".end"} /\ (what # "text" => ~Continued(p, l))
      /\ (what = ".end" => p = Entry) /\ (what \in Paths => ask = what) /\ (what \notin Paths => ask = Nowhere)
      /\ (what = "text" => g.expanded = Append(st[n].expanded, z)) /\ (what # "text" => g.expanded = st[n].expanded)
  OBVIOUS
<1>8. /\ count + 1 <= limits.lines /\ ~st[n].ended
  OBVIOUS
<1>9. disk[z[1]][z[2]] = what
  OBVIOUS
<1> HIDE DEF n, V, O, R, z, p, what
<1>10. Nowhere \notin Paths /\ "text" \notin Paths /\ ".end" \notin Paths
  BY PathsAssumption
<1>11. Settled(V, st2, ask, R \cup {z})
  <2>1. ASSUME NEW x \in R, disk[x[1]][x[2]] \in Paths
        PROVE  \/ disk[x[1]][x[2]] \in V \ O
               \/ \E i \in DOMAIN st2 : st2[i].path = x[1] /\ Awaited(st2, ask, i) = disk[x[1]][x[2]] /\ LastRead(st2[i], x[2])
    <3>1. CASE disk[x[1]][x[2]] \in V \ O
      BY <3>1
    <3>2. ASSUME NEW i \in DOMAIN st, st[i].path = x[1], Awaited(st, Nowhere, i) = disk[x[1]][x[2]], LastRead(st[i], x[2])
          PROVE  \E k \in DOMAIN st2 : st2[k].path = x[1] /\ Awaited(st2, ask, k) = disk[x[1]][x[2]] /\ LastRead(st2[k], x[2])
      <4>1. i # n
        BY <1>10, <2>1, <3>2 DEF Awaited, n
      <4>2. i + 1 \in DOMAIN st
        BY <1>2, <4>1
      <4>3. st2[i] = st[i] /\ Awaited(st2, ask, i) = Awaited(st, Nowhere, i)
        BY <1>2, <4>1, <4>2 DEF Awaited, n
      <4>4. QED
        BY <1>2, <3>2, <4>3
    <3>3. QED
      BY <1>1, <2>1, <3>1, <3>2 DEF Settled, O
  <2>2. ASSUME what \in Paths
        PROVE  st2[n].path = p /\ Awaited(st2, ask, n) = what /\ LastRead(st2[n], l)
    <3>1. \A h \in Heads(p) : l < h => h >= l + 1
      BY <1>2, HeadsFacts
    <3>2. l < l + 1
      BY <1>2
    <3>3. LastRead(g, l)
      BY <1>2, <3>1, <3>2 DEF LastRead, p
    <3>4. QED
      BY <1>2, <1>7, <2>2, <3>3 DEF Awaited, p
  <2>3. QED
    BY <1>2, <1>4, <1>9, <2>1, <2>2 DEF Settled
<1>12. LinesAreFine(R \cup {z})
  <2>1. \A x \in R : disk[x[1]][x[2]] = ".end" => x[1] = Entry /\ \A y \in R : y[1] = Entry => y[2] <= x[2]
    BY <1>1 DEF LinesAreFine
  <2>2. ASSUME NEW x \in R, disk[x[1]][x[2]] = ".end" PROVE p # Entry
    <3>1. SUFFICES ASSUME p = Entry PROVE FALSE
      OBVIOUS
    <3>2. x[1] = p /\ x = <<x[1], x[2]>>
      BY <1>6, <2>1, <2>2, <3>1
    <3>3. x[2] \in Heads(p) /\ x[2] < st[n].next
      BY <1>2, <3>2
    <3>4. st[n].ended
      BY <1>1, <1>2, <2>2, <3>2, <3>3 DEF Stacked
    <3>5. QED
      BY <1>8, <3>4
  <2>3. \A x \in R : disk[x[1]][x[2]] = ".end" => \A y \in R \cup {z} : y[1] = Entry => y[2] <= x[2]
    BY <1>4, <2>1, <2>2
  <2>4. \A y \in R \cup {z} : y[1] = p => y[2] <= l
    <3>1. ASSUME NEW y \in R, y[1] = p PROVE y[2] <= l
      <4>1. y[2] < l /\ y[2] \in Nat
        BY <1>2, <1>6, <3>1, HeadsFacts
      <4>2. QED
        BY <1>2, <4>1
    <3>2. l <= l
      BY <1>2
    <3>3. QED
      BY <1>4, <3>1, <3>2
  <2>5. \A x \in R : /\ disk[x[1]][x[2]] \in Paths \cup {"text", ".end"}
                     /\ disk[x[1]][x[2]] # "text" => ~Continued(x[1], x[2])
    BY <1>1 DEF LinesAreFine
  <2>6. QED
    BY <1>4, <1>7, <1>9, <2>1, <2>3, <2>4, <2>5 DEF LinesAreFine
<1>13. Counted(fs, R \cup {z}, size, count + 1)
  <2>1. Cardinality(R \cup {z}) = Cardinality(R) + 1
    BY <1>2, <1>5, FS_AddElement
  <2>2. QED
    BY <1>1, <1>8, <2>1 DEF Counted
<1>14. Expanded(st2, R \cup {z})
  <2>1. \A i \in DOMAIN st : st[i].expanded \in Seq(Paths \X Nat)
    BY <1>1, StackFacts
  <2>2. \A i \in DOMAIN st : \A k \in DOMAIN st[i].expanded : st[i].expanded[k] \in R /\ IsTextLine(st[i].expanded[k])
    BY <1>1 DEF Expanded
  <2>3. CASE what # "text"
    <3>1. \A i \in DOMAIN st2 : st2[i].expanded = st[i].expanded
      BY <1>2, <1>7, <2>3
    <3>2. ~IsTextLine(z)
      BY <1>9, <2>3 DEF IsTextLine
    <3>3. QED
      BY <1>1, <1>2, <3>1, <3>2 DEF Expanded
  <2>4. CASE what = "text"
    <3> DEFINE e == st[n].expanded
               e2 == Append(e, z)
    <3>1. e \in Seq(Paths \X Nat) /\ g.expanded = e2 /\ st2[n].expanded = e2
      BY <1>2, <1>7, <2>1, <2>4
    <3> HIDE DEF e
    <3>2. DOMAIN e2 = DOMAIN e \cup {Len(e) + 1} /\ e2[Len(e) + 1] = z /\ \A k \in DOMAIN e : e2[k] = e[k]
      BY <3>1, AppendFacts
    <3>3. DOMAIN e = 1..Len(e) /\ Len(e) \in Nat
      BY <3>1, AppendFacts
    <3> USE DEF e
    <3> HIDE DEF e2
    <3>4. \A i \in DOMAIN st : i # n => st2[i].expanded = st[i].expanded
      BY <1>2
    <3>5. \A k \in DOMAIN e2 : (k \in DOMAIN e /\ e2[k] = e[k] /\ e2[k] \in R) \/ (k = Len(e) + 1 /\ e2[k] = z)
      BY <1>2, <2>2, <3>2
    <3>6. InOrder(e2)
      <4>1. ASSUME NEW k \in DOMAIN e2, NEW j \in DOMAIN e2, k < j PROVE Before(e2[k], e2[j])
        <5>1. k \in DOMAIN e /\ e2[k] = e[k] /\ e2[k] \in R
          BY <3>2, <3>3, <3>5, <4>1
        <5>2. CASE j \in DOMAIN e
          <6>1. e2[j] = e[j]
            BY <3>2, <5>2
          <6>2. InOrder(e)
            BY <1>1, <1>2 DEF Expanded
          <6>3. QED
            BY <4>1, <5>1, <5>2, <6>1, <6>2 DEF InOrder
        <5>3. CASE e2[j] = z
          BY <1>3, <5>1, <5>3
        <5>4. QED
          BY <3>5, <5>2, <5>3
      <4>2. QED
        BY <4>1 DEF InOrder
    <3>7. IsTextLine(z)
      BY <1>9, <2>4 DEF IsTextLine
    <3>8. ASSUME NEW i \in DOMAIN st2
          PROVE  InOrder(st2[i].expanded) /\ \A k \in DOMAIN st2[i].expanded :
                   st2[i].expanded[k] \in R \cup {z} /\ IsTextLine(st2[i].expanded[k])
      <4>1. CASE i = n
        <5>1. st2[i].expanded = e2
          BY <1>2, <2>2, <3>1, <4>1
        <5>2. \A k \in DOMAIN e : e[k] \in R /\ IsTextLine(e[k])
          BY <1>2, <2>2
        <5> HIDE DEF e
        <5>3. \A k \in DOMAIN e2 : e2[k] \in R \cup {z} /\ IsTextLine(e2[k])
          BY <3>5, <3>7, <5>2
        <5>4. QED
          BY <3>6, <5>1, <5>3
      <4>2. CASE i # n
        BY <1>1, <1>2, <3>4, <4>2 DEF Expanded
      <4>3. QED
        BY <4>1, <4>2
    <3>9. ASSUME NEW i \in DOMAIN st2, NEW j \in DOMAIN st2, i < j,
                 NEW k \in DOMAIN st2[i].expanded, NEW m \in DOMAIN st2[j].expanded
          PROVE  Before(st2[i].expanded[k], st2[j].expanded[m])
      <4>1. i # n /\ i \in DOMAIN st /\ j \in DOMAIN st
        BY <1>2, <3>9
      <4>2. st2[i].expanded = st[i].expanded /\ k \in DOMAIN st[i].expanded
        BY <3>4, <3>9, <4>1
      <4>3. CASE j = n /\ st2[j].expanded[m] = z
        BY <1>3, <2>2, <4>1, <4>2, <4>3
      <4>4. CASE m \in DOMAIN st[j].expanded /\ st2[j].expanded[m] = st[j].expanded[m]
        BY <1>1, <3>9, <4>1, <4>2, <4>4 DEF Expanded
      <4>5. QED
        BY <3>1, <3>4, <3>5, <3>9, <4>1, <4>3, <4>4
    <3>10. ASSUME NEW x \in R \cup {z}, IsTextLine(x) PROVE \E i \in DOMAIN st2 : x \in ToSet(st2[i].expanded)
      <4>1. \A k \in DOMAIN e2 : e2[k] \in ToSet(e2)
        BY DEF ToSet
      <4>2. CASE x = z
        BY <1>2, <3>1, <3>2, <4>1, <4>2
      <4>3. CASE x \in R
        <5>1. PICK i \in DOMAIN st : x \in ToSet(st[i].expanded)
          BY <1>1, <3>10, <4>3 DEF Expanded
        <5>2. CASE i # n
          BY <1>2, <3>4, <5>1, <5>2
        <5>3. CASE i = n
          <6>1. PICK k \in DOMAIN e : e[k] = x
            BY <5>1, <5>3 DEF ToSet
          <6>2. e2[k] = x /\ k \in DOMAIN e2
            BY <3>2, <6>1
          <6>3. QED
            BY <1>2, <3>1, <4>1, <6>2
        <5>4. QED
          BY <5>2, <5>3
      <4>4. QED
        BY <4>2, <4>3
    <3>11. QED
      BY <3>8, <3>9, <3>10 DEF Expanded
  <2>5. QED
    BY <2>3, <2>4
<1>15. Wanted(V, ask)
  <2>1. ASSUME ask # Nowhere PROVE ask \in Needed
    <3>1. what \in Paths /\ ask = what
      BY <1>7, <2>1
    <3>2. p \in Needed
      BY <1>1, <1>2 DEF Wanted
    <3>3. what \in Includes[p]
      BY <1>2, <3>1, IncludesFacts DEF what
    <3>4. QED
      BY <3>1, <3>2, <3>3, IncludesFacts
  <2>2. QED
    BY <1>1, <2>1 DEF Wanted
<1>16. Expanding(fs, st2, ask, size, count + 1)
  BY <1>1, <1>2, <1>11, <1>12, <1>13, <1>14, <1>15 DEF Expanding, V
<1>17. QED
  BY <1>16

\* What an included file brings follows what its includer has.
LEMMA JoinedInOrder ==
  ASSUME NEW s \in Seq(Paths \X Nat), NEW t \in Seq(Paths \X Nat), InOrder(s), InOrder(t),
         \A k \in DOMAIN s, l \in DOMAIN t : Before(s[k], t[l])
  PROVE  /\ s \o t \in Seq(Paths \X Nat) /\ InOrder(s \o t)
         /\ \A k \in DOMAIN (s \o t) : \/ \E i \in DOMAIN s : (s \o t)[k] = s[i]
                                       \/ \E i \in DOMAIN t : (s \o t)[k] = t[i]
         /\ ToSet(s) \subseteq ToSet(s \o t) /\ ToSet(t) \subseteq ToSet(s \o t)
<1> DEFINE u == s \o t
           a == Len(s)
           b == Len(t)
<1>1. /\ a \in Nat /\ b \in Nat /\ DOMAIN s = 1..a /\ DOMAIN t = 1..b
      /\ u \in Seq(Paths \X Nat) /\ DOMAIN u = 1..(a + b)
      /\ \A k \in 1..(a + b) : u[k] = IF k <= a THEN s[k] ELSE t[k - a]
  OBVIOUS
<1> HIDE DEF u, a, b
<1>2. \A k \in DOMAIN u : (k \in DOMAIN s /\ u[k] = s[k] /\ k <= a) \/ (k - a \in DOMAIN t /\ u[k] = t[k - a] /\ k > a)
  BY <1>1
<1>3. ASSUME NEW k \in DOMAIN u, NEW l \in DOMAIN u, k < l PROVE Before(u[k], u[l])
  <2>1. CASE l \in DOMAIN s /\ u[l] = s[l] /\ l <= a
    <3>1. k \in DOMAIN s /\ u[k] = s[k]
      BY <1>1, <1>2, <1>3, <2>1
    <3>2. QED
      BY <1>3, <2>1, <3>1 DEF InOrder
  <2>2. CASE l - a \in DOMAIN t /\ u[l] = t[l - a] /\ l > a
    <3>1. CASE k \in DOMAIN s /\ u[k] = s[k]
      BY <2>2, <3>1
    <3>2. CASE k - a \in DOMAIN t /\ u[k] = t[k - a]
      <4>1. k - a < l - a
        BY <1>1, <1>3
      <4>2. QED
        BY <2>2, <3>2, <4>1 DEF InOrder
    <3>3. QED
      BY <1>2, <3>1, <3>2
  <2>3. QED
    BY <1>2, <2>1, <2>2
<1>4. ToSet(s) \subseteq ToSet(u)
  <2>1. \A k \in DOMAIN s : k \in DOMAIN u /\ u[k] = s[k]
    BY <1>1
  <2>2. QED
    BY <2>1 DEF ToSet
<1>5. ToSet(t) \subseteq ToSet(u)
  <2>1. ASSUME NEW k \in DOMAIN t PROVE k + a \in DOMAIN u /\ u[k + a] = t[k]
    <3>1. k \in 1..b
      BY <1>1
    <3>2. k + a \in 1..(a + b) /\ ~(k + a <= a) /\ k + a - a = k
      BY <1>1, <3>1, Shifted
    <3>3. QED
      BY <1>1, <3>2
  <2>2. QED
    BY <2>1 DEF ToSet
<1>6. InOrder(u)
  BY <1>3 DEF InOrder
<1>7. \A k \in DOMAIN u : (\E i \in DOMAIN s : u[k] = s[i]) \/ \E i \in DOMAIN t : u[k] = t[i]
  BY <1>2
<1>8. QED
  BY <1>1, <1>4, <1>5, <1>6, <1>7 DEF u

LEMMA ReturnReads ==
  ASSUME Readable, NEW fs, NEW st, NEW size, NEW count, Expanding(fs, st, Nowhere, size, count),
         Len(st) > 1, LeftIn(st[Len(st)]) = {}
  PROVE  Expanding(fs, [Front(st) EXCEPT ![Len(st) - 1].expanded = st[Len(st) - 1].expanded \o st[Len(st)].expanded],
                   Nowhere, size, count)
<1> DEFINE n == Len(st)
           m == n - 1
           p == st[n].path
           V == ToSet(fs)
           O == OpenIn(st)
           R == ReadIn(V, st)
           more == st[m].expanded \o st[n].expanded
           st2 == [Front(st) EXCEPT ![m].expanded = more]
<1>1. /\ Stacked(fs, st, Nowhere) /\ Settled(V, st, Nowhere, R) /\ LinesAreFine(R) /\ FilesAreFine(V)
      /\ Counted(fs, R, size, count) /\ ReadToTheEnd(V, O) /\ Expanded(st, R) /\ Wanted(V, Nowhere)
  BY DEF Expanding
<1>2. n \in Nat /\ DOMAIN st = 1..n /\ n > 1 /\ st # <<>>
  BY <1>1, StackFacts
<1>3. n \in DOMAIN st /\ m \in DOMAIN st /\ m < n
  <2> HIDE DEF n
  <2>1. QED
    BY <1>2
<1>4. st[n].expanded \in Seq(Paths \X Nat) /\ st[m].expanded \in Seq(Paths \X Nat)
  BY <1>1, <1>3, StackFacts
<1>5. /\ InOrder(st[n].expanded) /\ InOrder(st[m].expanded)
      /\ \A k \in DOMAIN st[m].expanded, l \in DOMAIN st[n].expanded : Before(st[m].expanded[k], st[n].expanded[l])
  BY <1>1, <1>3 DEF Expanded
<1>6. /\ more \in Seq(Paths \X Nat) /\ InOrder(more)
      /\ \A k \in DOMAIN more : \/ \E i \in DOMAIN st[m].expanded : more[k] = st[m].expanded[i]
                                \/ \E i \in DOMAIN st[n].expanded : more[k] = st[n].expanded[i]
      /\ ToSet(st[m].expanded) \subseteq ToSet(more) /\ ToSet(st[n].expanded) \subseteq ToSet(more)
  BY <1>4, <1>5, JoinedInOrder
<1>7. Returns(fs, st, st2, more)
  BY <1>1, <1>6, ReturnEffect
<1>8. Stacked(fs, st2, Nowhere)
  BY <1>1, <1>6, ReturnStacks
<1>9. ReadToTheEnd(V, O \ {p})
  BY <1>1, <1>2, EndOfFile
<1> HIDE DEF more, st2
<1>10. /\ m \in Nat /\ m # 0 /\ m \in DOMAIN st /\ n \in DOMAIN st /\ m + 1 = n
       /\ DOMAIN st = 1..m \cup {n} /\ n \notin 1..m /\ \A i \in 1..m : i < n
       /\ p \in V /\ p \in Paths
       /\ st2 \in Seq(Frames) /\ DOMAIN st2 = 1..m /\ Len(st2) = m
       /\ \A i \in 1..m : /\ st2[i].path = st[i].path /\ st2[i].next = st[i].next /\ st2[i].ended = st[i].ended
                          /\ i # m => st2[i] = st[i]
       /\ st2[m].expanded = more
       /\ OpenIn(st2) = O \ {p} /\ ReadIn(V, st2) = R
  BY <1>7 DEF Returns
<1> HIDE DEF n, m, V, O, R, p
<1>11. st[n].path = p
  BY DEF p
<1>12. Settled(V, st2, Nowhere, R)
  <2>1. ASSUME NEW x \in R, disk[x[1]][x[2]] \in Paths
        PROVE  \/ disk[x[1]][x[2]] \in V \ (O \ {p})
               \/ \E i \in DOMAIN st2 : st2[i].path = x[1] /\ Awaited(st2, Nowhere, i) = disk[x[1]][x[2]] /\ LastRead(st2[i], x[2])
    <3>1. CASE disk[x[1]][x[2]] \in V \ O
      BY <3>1
    <3>2. ASSUME NEW i \in DOMAIN st, st[i].path = x[1], Awaited(st, Nowhere, i) = disk[x[1]][x[2]], LastRead(st[i], x[2])
          PROVE  \/ disk[x[1]][x[2]] \in V \ (O \ {p})
                 \/ \E k \in DOMAIN st2 : st2[k].path = x[1] /\ Awaited(st2, Nowhere, k) = disk[x[1]][x[2]] /\ LastRead(st2[k], x[2])
      <4>1. i # n
        BY <2>1, <3>2, PathsAssumption DEF Awaited, n
      <4>2. CASE i = m
        <5>1. Awaited(st, Nowhere, i) = p
          BY <1>10, <1>11, <4>1, <4>2 DEF Awaited, n
        <5>2. QED
          BY <1>10, <3>2, <5>1
      <4>3. CASE i # m
        <5>1. i \in 1..m /\ i + 1 \in 1..m
          BY <1>10, <4>1, <4>3
        <5>2. Awaited(st2, Nowhere, i) = Awaited(st, Nowhere, i)
          BY <1>10, <4>1, <4>3, <5>1 DEF Awaited, n
        <5>3. st2[i] = st[i]
          BY <1>10, <4>3, <5>1
        <5>4. QED
          BY <1>10, <3>2, <5>1, <5>2, <5>3
      <4>4. QED
        BY <4>2, <4>3
    <3>3. QED
      BY <1>1, <2>1, <3>1, <3>2 DEF Settled, O
  <2>2. QED
    BY <1>10, <2>1 DEF Settled
<1>13. Expanded(st2, R)
  <2>1. \A i \in 1..m : i # m => st2[i].expanded = st[i].expanded
    BY <1>10
  <2>2. \A i \in DOMAIN st : InOrder(st[i].expanded) /\ \A k \in DOMAIN st[i].expanded : st[i].expanded[k] \in R /\ IsTextLine(st[i].expanded[k])
    BY <1>1 DEF Expanded
  <2>3. ASSUME NEW i \in DOMAIN st2
        PROVE  InOrder(st2[i].expanded) /\ \A k \in DOMAIN st2[i].expanded :
                 st2[i].expanded[k] \in R /\ IsTextLine(st2[i].expanded[k])
    <3>1. CASE i = m
      <4>1. st2[i].expanded = more
        BY <1>10, <3>1
      <4>2. ASSUME NEW k \in DOMAIN more PROVE more[k] \in R /\ IsTextLine(more[k])
        <5>1. CASE \E h \in DOMAIN st[m].expanded : more[k] = st[m].expanded[h]
          BY <1>10, <2>2, <5>1
        <5>2. CASE \E h \in DOMAIN st[n].expanded : more[k] = st[n].expanded[h]
          BY <1>10, <2>2, <5>2
        <5>3. QED
          BY <1>6, <5>1, <5>2
      <4>3. QED
        BY <1>6, <4>1, <4>2
    <3>2. CASE i # m
      BY <1>10, <2>1, <2>2, <3>2
    <3>3. QED
      BY <3>1, <3>2
  <2>4. ASSUME NEW i \in DOMAIN st2, NEW j \in DOMAIN st2, i < j,
               NEW k \in DOMAIN st2[i].expanded, NEW l \in DOMAIN st2[j].expanded
        PROVE  Before(st2[i].expanded[k], st2[j].expanded[l])
    <3>1. i \in 1..m /\ i # m /\ i < m /\ i < n /\ j \in 1..m
      BY <1>10, <2>4
    <3>2. st2[i].expanded = st[i].expanded /\ k \in DOMAIN st[i].expanded /\ i \in DOMAIN st /\ j \in DOMAIN st
      BY <1>10, <2>1, <2>4, <3>1
    <3>3. CASE j # m
      BY <1>1, <2>1, <2>4, <3>1, <3>2, <3>3 DEF Expanded
    <3>4. CASE j = m
      <4>1. l \in DOMAIN more /\ st2[j].expanded[l] = more[l]
        BY <1>10, <2>4, <3>4
      <4>2. CASE \E h \in DOMAIN st[m].expanded : more[l] = st[m].expanded[h]
        BY <1>1, <1>10, <3>1, <3>2, <4>1, <4>2 DEF Expanded
      <4>3. CASE \E h \in DOMAIN st[n].expanded : more[l] = st[n].expanded[h]
        BY <1>1, <1>10, <3>1, <3>2, <4>1, <4>3 DEF Expanded
      <4>4. QED
        BY <1>6, <4>1, <4>2, <4>3
    <3>5. QED
      BY <3>3, <3>4
  <2>5. ASSUME NEW x \in R, IsTextLine(x) PROVE \E i \in DOMAIN st2 : x \in ToSet(st2[i].expanded)
    <3>1. PICK i \in DOMAIN st : x \in ToSet(st[i].expanded)
      BY <1>1, <2>5 DEF Expanded
    <3>2. CASE i = m \/ i = n
      <4>1. x \in ToSet(more)
        BY <1>6, <3>1, <3>2
      <4>2. m \in DOMAIN st2
        BY <1>10
      <4>3. QED
        BY <1>10, <4>1, <4>2
    <3>3. CASE i # m /\ i # n
      BY <1>10, <2>1, <3>1, <3>3
    <3>4. QED
      BY <3>2, <3>3
  <2>6. QED
    BY <2>3, <2>4, <2>5 DEF Expanded
<1>14. Expanding(fs, st2, Nowhere, size, count)
  BY <1>1, <1>8, <1>9, <1>10, <1>12, <1>13 DEF Expanding, V
<1>15. QED
  BY <1>14 DEF st2, more, m, n

LEMMA LastReturn ==
  ASSUME Readable, NEW fs, NEW st, NEW size, NEW count, Expanding(fs, st, Nowhere, size, count),
         Len(st) = 1, LeftIn(st[Len(st)]) = {}
  PROVE  AllRead(fs, st[Len(st)].expanded, size, count)
<1> DEFINE p == st[1].path
           V == ToSet(fs)
           O == OpenIn(st)
           R == ReadIn(V, st)
           S == LinesOf(V)
           e == st[1].expanded
<1>1. /\ Stacked(fs, st, Nowhere) /\ Settled(V, st, Nowhere, R) /\ LinesAreFine(R) /\ FilesAreFine(V)
      /\ Counted(fs, R, size, count) /\ ReadToTheEnd(V, O) /\ Expanded(st, R) /\ Wanted(V, Nowhere)
  BY DEF Expanding
<1>2. DOMAIN st = {1} /\ st # <<>> /\ V \in SUBSET Paths
  <2>1. DOMAIN st = 1..Len(st) /\ (st = <<>> <=> Len(st) = 0) /\ V \in SUBSET Paths
    BY <1>1, StackFacts
  <2>2. QED
    BY <2>1
<1>3. e \in Seq(Paths \X Nat) /\ p \in Paths /\ p \in V
  BY <1>1, <1>2, StackFacts
<1>4. O = {p}
  BY <1>2 DEF OpenIn
<1>5. ReadToTheEnd(V, O \ {p})
  BY <1>1, <1>2, EndOfFile
<1>6. \A h : <<p, h>> \in R <=> h \in Heads(p)
  BY <1>1, <1>2, EndIsRead
<1>7. fs \in Seq(Paths) /\ IsInjective(fs) /\ Entry \in V
  BY <1>1, PathsAssumption DEF Stacked
<1>8. \A q \in V : Heads(q) \subseteq Nat
  BY <1>2, HeadsFacts
<1>9. \A q \in V : \A h \in Heads(q) : <<q, h>> \in R
  <2>1. ASSUME NEW q \in V, NEW h \in Heads(q) PROVE <<q, h>> \in R
    <3>1. CASE q = p
      BY <1>6, <3>1
    <3>2. CASE q # p
      BY <1>2, <1>8, <3>2 DEF ReadIn
    <3>3. QED
      BY <3>1, <3>2
  <2>2. QED
    BY <2>1
<1>10. R \subseteq Paths \X Nat /\ \A x \in R : x = <<x[1], x[2]>> /\ x[1] \in V /\ x[2] \in Heads(x[1])
  BY DEF ReadIn
<1> HIDE DEF R, V, O, p, e
<1>11. R = S
  <2>1. \A x \in R : x \in S
    BY <1>10 DEF LinesOf
  <2>2. \A x \in S : x \in R
    BY <1>9 DEF LinesOf
  <2>3. QED
    BY <2>1, <2>2
<1>12. ReadToTheEnd(V, {})
  <2>1. O \ {p} = {}
    BY <1>4
  <2>2. QED
    BY <1>5, <2>1
<1>13. V = Needed
  <2>1. \A q \in V \cap Paths : Includes[q] \subseteq V
    BY <1>12 DEF ReadToTheEnd
  <2>2. Needed \subseteq V
    BY <1>7, <2>1, IncludesFacts
  <2>3. QED
    BY <1>1, <2>2 DEF Wanted
<1>14. InOrder(e) /\ (\A k \in DOMAIN e : e[k] \in R /\ IsTextLine(e[k])) /\ \A x \in R : IsTextLine(x) => x \in ToSet(e)
  BY <1>1, <1>2 DEF Expanded, e
<1>15. ToSet(e) = {x \in R : IsTextLine(x)}
  <2>1. \A x \in ToSet(e) : x \in R /\ IsTextLine(x)
    BY <1>14 DEF ToSet
  <2>2. QED
    BY <1>14, <2>1
<1>16. AllRead(fs, e, size, count)
  BY <1>1, <1>3, <1>7, <1>11, <1>12, <1>13, <1>14, <1>15 DEF AllRead, V
<1>17. QED
  BY <1>16 DEF e

\* Checks that do not pass fail first at one of them.
LEMMA FirstFails ==
  ASSUME NEW checks, Len(checks) \in Nat, FirstFailure(checks) # Passed
  PROVE  \E i \in 1..Len(checks) : FailsFirst(checks, i) /\ FirstFailure(checks) = checks[i][2]
<1> DEFINE failing == {i \in 1..Len(checks) : checks[i][1]}
           first == IF failing # {} THEN Min(failing) ELSE 0
<1>1. FirstFailure(checks) = IF first = 0 THEN Passed ELSE checks[first][2]
  BY Zenon DEF FirstFailure, SelectInSeq
<1>2. failing \in SUBSET Nat /\ failing \subseteq 1..Len(checks)
  OBVIOUS
<1>3. (\A i \in failing : checks[i][1]) /\ \A i \in 1..Len(checks) : i \notin failing => ~checks[i][1]
  BY Zenon
<1> HIDE DEF failing
<1>4. failing # {}
  BY <1>1
<1>5. first \in failing /\ \A i \in failing : first <= i
  BY <1>2, <1>4, MinFacts
<1> HIDE DEF first
<1>6. first \in 1..Len(checks) /\ first # 0
  BY <1>2, <1>5
<1>7. \A j \in 1..(first - 1) : j \in 1..Len(checks) /\ ~(first <= j)
  BY <1>6
<1>8. checks[first][1] /\ \A j \in 1..(first - 1) : ~checks[j][1]
  BY <1>3, <1>5, <1>7, Zenon
<1>9. FailsFirst(checks, first)
  BY <1>6, <1>8, Zenon DEF FailsFirst
<1>10. QED
  BY <1>1, <1>6, <1>9

LEMMA Checked5 ==
  ASSUME NEW checks, Len(checks) = 5, \A i \in 1..5 : checks[i][2] # Passed
  PROVE  \/ FirstFailure(checks) = Passed /\ ~checks[1][1] /\ ~checks[2][1] /\ ~checks[3][1] /\ ~checks[4][1] /\ ~checks[5][1]
         \/ FirstFailure(checks) = checks[1][2] /\ checks[1][1]
         \/ FirstFailure(checks) = checks[2][2] /\ checks[2][1]
         \/ FirstFailure(checks) = checks[3][2] /\ checks[3][1]
         \/ FirstFailure(checks) = checks[4][2] /\ checks[4][1]
         \/ FirstFailure(checks) = checks[5][2] /\ checks[5][1]
<1>1. /\ \A i \in 1..5 : i = 1 \/ i = 2 \/ i = 3 \/ i = 4 \/ i = 5
      /\ 1 \in 1..5 /\ 2 \in 1..5 /\ 3 \in 1..5 /\ 4 \in 1..5 /\ 5 \in 1..5 /\ 5 \in Nat
  OBVIOUS
<1>2. CASE FirstFailure(checks) = Passed
  <2>1. \A i \in 1..5 : ~checks[i][1]
    BY <1>1, <1>2, NothingFails
  <2>2. QED
    BY <1>1, <1>2, <2>1, Zenon
<1>3. CASE FirstFailure(checks) # Passed
  <2>1. Len(checks) \in Nat
    BY <1>1
  <2>2. PICK i \in 1..5 : FailsFirst(checks, i) /\ FirstFailure(checks) = checks[i][2]
    BY <1>3, <2>1, FirstFails
  <2>3. checks[i][1] /\ \A j \in 1..(i - 1) : ~checks[j][1]
    BY <2>2 DEF FailsFirst
  <2>4. CASE i = 1
    BY <2>2, <2>3, <2>4, Zenon
  <2>5. CASE i = 2
    BY <2>2, <2>3, <2>5, Zenon
  <2>6. CASE i = 3
    BY <2>2, <2>3, <2>6, Zenon
  <2>7. CASE i = 4
    BY <2>2, <2>3, <2>7, Zenon
  <2>8. CASE i = 5
    BY <2>2, <2>3, <2>8, Zenon
  <2>9. QED
    BY <1>1, <2>2, <2>4, <2>5, <2>6, <2>7, <2>8, Zenon
<1>4. QED
  BY <1>2, <1>3, Zenon

LEMMA Checked7 ==
  ASSUME NEW checks, Len(checks) = 7, \A i \in 1..7 : checks[i][2] # Passed
  PROVE  \/ FirstFailure(checks) = Passed /\ ~checks[1][1] /\ ~checks[2][1] /\ ~checks[3][1] /\ ~checks[4][1] /\ ~checks[5][1] /\ ~checks[6][1] /\ ~checks[7][1]
         \/ FirstFailure(checks) = checks[1][2] /\ checks[1][1]
         \/ FirstFailure(checks) = checks[2][2] /\ checks[2][1]
         \/ FirstFailure(checks) = checks[3][2] /\ checks[3][1]
         \/ FirstFailure(checks) = checks[4][2] /\ checks[4][1]
         \/ FirstFailure(checks) = checks[5][2] /\ ~checks[4][1] /\ checks[5][1]
         \/ FirstFailure(checks) = checks[6][2] /\ checks[6][1]
         \/ FirstFailure(checks) = checks[7][2] /\ checks[7][1]
<1>1. /\ \A i \in 1..7 : i = 1 \/ i = 2 \/ i = 3 \/ i = 4 \/ i = 5 \/ i = 6 \/ i = 7
      /\ 1 \in 1..7 /\ 2 \in 1..7 /\ 3 \in 1..7 /\ 4 \in 1..7 /\ 5 \in 1..7 /\ 6 \in 1..7 /\ 7 \in 1..7 /\ 7 \in Nat
  OBVIOUS
<1>2. CASE FirstFailure(checks) = Passed
  <2>1. \A i \in 1..7 : ~checks[i][1]
    BY <1>1, <1>2, NothingFails
  <2>2. QED
    BY <1>1, <1>2, <2>1, Zenon
<1>3. CASE FirstFailure(checks) # Passed
  <2>1. Len(checks) \in Nat
    BY <1>1
  <2>2. PICK i \in 1..7 : FailsFirst(checks, i) /\ FirstFailure(checks) = checks[i][2]
    BY <1>3, <2>1, FirstFails
  <2>3. checks[i][1] /\ \A j \in 1..(i - 1) : ~checks[j][1]
    BY <2>2 DEF FailsFirst
  <2>4. CASE i = 1
    BY <2>2, <2>3, <2>4, Zenon
  <2>5. CASE i = 2
    BY <2>2, <2>3, <2>5, Zenon
  <2>6. CASE i = 3
    BY <2>2, <2>3, <2>6, Zenon
  <2>7. CASE i = 4
    BY <2>2, <2>3, <2>7, Zenon
  <2>8. CASE i = 5
    <3>1. 4 \in 1..(i - 1)
      BY <2>8
    <3>2. QED
      BY <2>2, <2>3, <2>8, <3>1, Zenon
  <2>9. CASE i = 6
    BY <2>2, <2>3, <2>9, Zenon
  <2>10. CASE i = 7
    BY <2>2, <2>3, <2>10, Zenon
  <2>11. QED
    BY <1>1, <2>2, <2>4, <2>5, <2>6, <2>7, <2>8, <2>9, <2>10, Zenon
<1>4. QED
  BY <1>2, <1>3, Zenon

LEMMA FileChecked ==
  ASSUME NEW p
  PROVE  \/ /\ FileFailure(p) = Passed /\ ~IsOpen(p) /\ disk[p] \notin {<<"missing">>, <<"garbled">>} /\ ~Orphan(p)
            /\ IsIncluded(p) \/ (~(Len(files) >= limits.files) /\ ~(Len(disk[p]) > ReadLimit))
         \/ FileFailure(p) = "recursive" /\ IsOpen(p)
         \/ FileFailure(p) = "files" /\ ~IsIncluded(p) /\ Len(files) >= limits.files
         \/ FileFailure(p) = "unreadable" /\ disk[p] \in {<<"missing">>, <<"garbled">>}
         \/ FileFailure(p) = "bytes" /\ ~IsIncluded(p) /\ Len(disk[p]) > ReadLimit /\ ReadLimit < limits.file_bytes
         \/ FileFailure(p) = "file bytes" /\ ~IsIncluded(p) /\ Len(disk[p]) > ReadLimit /\ ~(ReadLimit < limits.file_bytes)
         \/ FileFailure(p) = "orphan" /\ Orphan(p)
<1> DEFINE open == IsOpen(p)
           many == ~IsIncluded(p) /\ Len(files) >= limits.files
           missing == disk[p] = <<"missing">>
           total == ~IsIncluded(p) /\ Len(disk[p]) > ReadLimit /\ ReadLimit < limits.file_bytes
           large == ~IsIncluded(p) /\ Len(disk[p]) > ReadLimit
           garbled == disk[p] = <<"garbled">>
           orphan == Orphan(p)
           checks == << <<open, "recursive">>, <<many, "files">>, <<missing, "unreadable">>, <<total, "bytes">>,
                        <<large, "file bytes">>, <<garbled, "unreadable">>, <<orphan, "orphan">> >>
<1>1. /\ FirstFailure(checks) = FileFailure(p) /\ Len(checks) = 7
      /\ checks[1] = <<open, "recursive">> /\ checks[2] = <<many, "files">> /\ checks[3] = <<missing, "unreadable">>
      /\ checks[4] = <<total, "bytes">> /\ checks[5] = <<large, "file bytes">>
      /\ checks[6] = <<garbled, "unreadable">> /\ checks[7] = <<orphan, "orphan">>
  BY DEF FileFailure
<1> HIDE DEF open, many, missing, total, large, garbled, orphan
<1>2. checks[1][1] = open /\ checks[2][1] = many /\ checks[3][1] = missing /\ checks[4][1] = total /\ checks[5][1] = large /\ checks[6][1] = garbled /\ checks[7][1] = orphan
  BY Zenon
<1>3. checks[1][2] = "recursive" /\ checks[2][2] = "files" /\ checks[3][2] = "unreadable" /\ checks[4][2] = "bytes" /\ checks[5][2] = "file bytes" /\ checks[6][2] = "unreadable" /\ checks[7][2] = "orphan"
  BY Zenon
<1> HIDE DEF checks
<1>4. \A i \in 1..7 : checks[i][2] # Passed
  <2>1. \A i \in 1..7 : i = 1 \/ i = 2 \/ i = 3 \/ i = 4 \/ i = 5 \/ i = 6 \/ i = 7
    OBVIOUS
  <2>2. QED
    BY <1>3, <2>1 DEF Passed
<1>5. \/ FirstFailure(checks) = Passed /\ ~checks[1][1] /\ ~checks[2][1] /\ ~checks[3][1] /\ ~checks[4][1] /\ ~checks[5][1] /\ ~checks[6][1] /\ ~checks[7][1]
      \/ FirstFailure(checks) = checks[1][2] /\ checks[1][1]
      \/ FirstFailure(checks) = checks[2][2] /\ checks[2][1]
      \/ FirstFailure(checks) = checks[3][2] /\ checks[3][1]
      \/ FirstFailure(checks) = checks[4][2] /\ checks[4][1]
      \/ FirstFailure(checks) = checks[5][2] /\ ~checks[4][1] /\ checks[5][1]
      \/ FirstFailure(checks) = checks[6][2] /\ checks[6][1]
      \/ FirstFailure(checks) = checks[7][2] /\ checks[7][1]
  BY <1>1, <1>4, Checked7
<1>6. \/ FirstFailure(checks) = Passed /\ ~open /\ ~many /\ ~missing /\ ~total /\ ~large /\ ~garbled /\ ~orphan
      \/ FirstFailure(checks) = "recursive" /\ open
      \/ FirstFailure(checks) = "files" /\ many
      \/ FirstFailure(checks) = "unreadable" /\ missing
      \/ FirstFailure(checks) = "bytes" /\ total
      \/ FirstFailure(checks) = "file bytes" /\ ~total /\ large
      \/ FirstFailure(checks) = "unreadable" /\ garbled
      \/ FirstFailure(checks) = "orphan" /\ orphan
  BY <1>2, <1>5, <1>3, Zenon
<1>7. QED
  BY <1>1, <1>6 DEF open, many, missing, total, large, garbled, orphan

LEMMA LineChecked ==
  \/ /\ ReadingFailure = Passed /\ ~(lines + 1 > limits.lines) /\ ~Frame.ended /\ ~(Line = ".end" /\ Frame.path # Entry)
     /\ ~(Line # "text" /\ Continued(Frame.path, Head1)) /\ Line # Outside
  \/ ReadingFailure = "lines" /\ lines + 1 > limits.lines
  \/ ReadingFailure = "after end" /\ Frame.ended
  \/ ReadingFailure = "included end" /\ Line = ".end" /\ Frame.path # Entry
  \/ ReadingFailure = "arguments" /\ Line # "text" /\ Continued(Frame.path, Head1)
  \/ ReadingFailure = "escape" /\ Line = Outside
<1> DEFINE many == lines + 1 > limits.lines
           ended == Frame.ended
           end == Line = ".end" /\ Frame.path # Entry
           arguments == Line # "text" /\ Continued(Frame.path, Head1)
           escape == Line = Outside
           checks == << <<many, "lines">>, <<ended, "after end">>, <<end, "included end">>,
                        <<arguments, "arguments">>, <<escape, "escape">> >>
<1>1. /\ FirstFailure(checks) = ReadingFailure /\ Len(checks) = 5
      /\ checks[1] = <<many, "lines">> /\ checks[2] = <<ended, "after end">> /\ checks[3] = <<end, "included end">>
      /\ checks[4] = <<arguments, "arguments">> /\ checks[5] = <<escape, "escape">>
  BY DEF ReadingFailure
<1> HIDE DEF many, ended, end, arguments, escape
<1>2. checks[1][1] = many /\ checks[2][1] = ended /\ checks[3][1] = end /\ checks[4][1] = arguments /\ checks[5][1] = escape
  BY Zenon
<1>3. checks[1][2] = "lines" /\ checks[2][2] = "after end" /\ checks[3][2] = "included end" /\ checks[4][2] = "arguments" /\ checks[5][2] = "escape"
  BY Zenon
<1> HIDE DEF checks
<1>4. \A i \in 1..5 : checks[i][2] # Passed
  <2>1. \A i \in 1..5 : i = 1 \/ i = 2 \/ i = 3 \/ i = 4 \/ i = 5
    OBVIOUS
  <2>2. QED
    BY <1>3, <2>1 DEF Passed
<1>5. \/ FirstFailure(checks) = Passed /\ ~checks[1][1] /\ ~checks[2][1] /\ ~checks[3][1] /\ ~checks[4][1] /\ ~checks[5][1]
      \/ FirstFailure(checks) = checks[1][2] /\ checks[1][1]
      \/ FirstFailure(checks) = checks[2][2] /\ checks[2][1]
      \/ FirstFailure(checks) = checks[3][2] /\ checks[3][1]
      \/ FirstFailure(checks) = checks[4][2] /\ checks[4][1]
      \/ FirstFailure(checks) = checks[5][2] /\ checks[5][1]
  BY <1>1, <1>4, Checked5
<1>6. \/ FirstFailure(checks) = Passed /\ ~many /\ ~ended /\ ~end /\ ~arguments /\ ~escape
      \/ FirstFailure(checks) = "lines" /\ many
      \/ FirstFailure(checks) = "after end" /\ ended
      \/ FirstFailure(checks) = "included end" /\ end
      \/ FirstFailure(checks) = "arguments" /\ arguments
      \/ FirstFailure(checks) = "escape" /\ escape
  BY <1>2, <1>5, <1>3, Zenon
<1>7. QED
  BY <1>1, <1>6 DEF many, ended, end, arguments, escape

LEMMA TotalFacts ==
  Total(LAMBDA p : DOMAIN disk[p]) = Cardinality(Bytes(Needed)) /\ Total(Heads) = Cardinality(LinesOf(Needed))
<1>1. Total(LAMBDA p : DOMAIN disk[p]) = Cardinality(Bytes(Needed))
  BY DEF Total, Bytes
<1>2. Total(Heads) = Cardinality(LinesOf(Needed))
  BY DEF Total, LinesOf
<1>3. QED
  BY <1>1, <1>2

\* Everything the reader can refuse a source for.
RefusalReasons == {"recursive", "files", "unreadable", "bytes", "file bytes", "orphan", "lines",
                   "after end", "included end", "arguments", "escape"}
LEMMA DefectsFacts ==
  /\ Defects \subseteq RefusalReasons
  /\ "recursive" \in Defects <=> \E p \in Needed : p \in Reachable(Includes, Includes[p])
  /\ "files" \in Defects <=> Cardinality(Needed) > limits.files
  /\ "unreadable" \in Defects <=> \E p \in Needed : disk[p] \in {<<"missing">>, <<"garbled">>}
  /\ "bytes" \in Defects <=> Cardinality(Bytes(Needed)) > limits.bytes
  /\ "file bytes" \in Defects <=> \E p \in Needed : Len(disk[p]) > limits.file_bytes
  /\ "lines" \in Defects <=> Cardinality(LinesOf(Needed)) > limits.lines
  /\ "orphan" \in Defects <=> \E p \in Needed : Orphan(p)
  /\ "after end" \in Defects <=> \E g, h \in Heads(Entry) : g < h /\ disk[Entry][g] = ".end"
  /\ "included end" \in Defects <=> \E p \in Needed \ {Entry} : \E h \in Heads(p) : disk[p][h] = ".end"
  /\ "escape" \in Defects <=> \E p \in Needed : \E h \in Heads(p) : disk[p][h] = Outside
  /\ "arguments" \in Defects <=> \E p \in Needed : \E h \in Heads(p) : disk[p][h] # "text" /\ Continued(p, h)
<1> DEFINE all == Total(LAMBDA p : DOMAIN disk[p])
           every == Total(Heads)
           Holds(reason) ==
    CASE reason = "recursive" -> \E p \in Needed : p \in Reachable(Includes, Includes[p])
      [] reason = "files" -> Cardinality(Needed) > limits.files
      [] reason = "unreadable" -> \E p \in Needed : disk[p] \in {<<"missing">>, <<"garbled">>}
      [] reason = "bytes" -> all > limits.bytes
      [] reason = "file bytes" -> \E p \in Needed : Len(disk[p]) > limits.file_bytes
      [] reason = "lines" -> every > limits.lines
      [] reason = "orphan" -> \E p \in Needed : Orphan(p)
      [] reason = "after end" -> \E g, h \in Heads(Entry) : g < h /\ disk[Entry][g] = ".end"
      [] reason = "included end" -> \E p \in Needed \ {Entry} : \E h \in Heads(p) : disk[p][h] = ".end"
      [] reason = "escape" -> \E p \in Needed : \E h \in Heads(p) : disk[p][h] = Outside
      [] OTHER -> \E p \in Needed : \E h \in Heads(p) : disk[p][h] # "text" /\ Continued(p, h)
<1>1. Defects = {reason \in RefusalReasons : Holds(reason)}
  BY Zenon DEF Defects, RefusalReasons
<1>2. all = Cardinality(Bytes(Needed)) /\ every = Cardinality(LinesOf(Needed))
  BY TotalFacts
<1> HIDE DEF all, every
<1>3. /\ Holds("recursive") <=> \E p \in Needed : p \in Reachable(Includes, Includes[p])
      /\ Holds("files") <=> Cardinality(Needed) > limits.files
      /\ Holds("unreadable") <=> \E p \in Needed : disk[p] \in {<<"missing">>, <<"garbled">>}
      /\ Holds("bytes") <=> all > limits.bytes
      /\ Holds("file bytes") <=> \E p \in Needed : Len(disk[p]) > limits.file_bytes
      /\ Holds("lines") <=> every > limits.lines
  BY SMT
<1>4. /\ Holds("orphan") <=> \E p \in Needed : Orphan(p)
      /\ Holds("after end") <=> \E g, h \in Heads(Entry) : g < h /\ disk[Entry][g] = ".end"
      /\ Holds("included end") <=> \E p \in Needed \ {Entry} : \E h \in Heads(p) : disk[p][h] = ".end"
      /\ Holds("escape") <=> \E p \in Needed : \E h \in Heads(p) : disk[p][h] = Outside
      /\ Holds("arguments") <=> \E p \in Needed : \E h \in Heads(p) : disk[p][h] # "text" /\ Continued(p, h)
  BY SMT
<1> HIDE DEF Holds
<1>5. \A reason \in RefusalReasons : reason \in Defects <=> Holds(reason)
  BY <1>1
<1>6. Defects \subseteq RefusalReasons
  BY <1>1
<1>7. QED
  BY <1>2, <1>3, <1>4, <1>5, <1>6, ZenonT(60) DEF RefusalReasons

\* A file that is asked for while its call runs includes itself along the calls.
LEMMA OpenIsRecursive ==
  ASSUME Readable, NEW fs, NEW st, NEW p \in Paths, Stacked(fs, st, p), p \in OpenIn(st)
  PROVE  p \in Reachable(Includes, Includes[p])
<1> DEFINE n == Len(st)
           R == Reachable(Includes, Includes[p])
<1>1. PICK k \in DOMAIN st : st[k].path = p
  BY DEF OpenIn
<1>2. n \in Nat /\ DOMAIN st = 1..n /\ \A i \in DOMAIN st : st[i].path \in Paths
  BY StackFacts
<1>3. Includes[p] \subseteq R /\ \A v \in R : Includes[v] \subseteq R
  BY IncludedFacts
<1> HIDE DEF n, R
<1>4. ASSUME NEW i \in DOMAIN st, Awaited(st, p, i) \in Paths PROVE Awaited(st, p, i) \in Includes[st[i].path]
  <2>1. Awaited(st, p, i) # Nowhere
    BY <1>4, PathsAssumption
  <2>2. PICK h \in Heads(st[i].path) : disk[st[i].path][h] = Awaited(st, p, i)
    BY <2>1 DEF Stacked, WaitsFor
  <2>3. QED
    BY <1>2, <1>4, <2>2, IncludesFacts
<1>5. \A j \in 1..n : j # n => st[j + 1].path \in Includes[st[j].path]
  <2>1. ASSUME NEW j \in 1..n, j # n PROVE st[j + 1].path \in Includes[st[j].path]
    <3>1. j + 1 \in 1..n
      BY <1>2, <2>1
    <3>2. Awaited(st, p, j) = st[j + 1].path
      BY <2>1, Zenon DEF Awaited, n
    <3>3. QED
      BY <1>2, <1>4, <3>1, <3>2
  <2>2. QED
    BY <2>1
<1>6. n \in DOMAIN st /\ p \in Includes[st[n].path]
  <2>1. n \in DOMAIN st
    BY <1>1, <1>2
  <2>2. Awaited(st, p, n) = p
    BY DEF Awaited, n
  <2>3. QED
    BY <1>4, <2>1, <2>2
<1> DEFINE T == {j \in Nat : k + j <= n => st[k + j].path \in {p} \cup R}
<1>7. 0 \in T
  BY <1>1, <1>2
<1>8. ASSUME NEW j \in Nat, j \in T PROVE j + 1 \in T
  <2>1. SUFFICES ASSUME k + (j + 1) <= n PROVE st[k + (j + 1)].path \in R
    OBVIOUS
  <2>2. k + j \in 1..n /\ k + j # n /\ k + j <= n /\ k + (j + 1) = (k + j) + 1
    BY <1>1, <1>2, <2>1
  <2>3. st[k + j].path \in {p} \cup R
    BY <1>8, <2>2
  <2>4. st[(k + j) + 1].path \in Includes[st[k + j].path]
    BY <1>5, <2>2
  <2>5. QED
    BY <1>3, <2>2, <2>3, <2>4
<1>9. n - k \in T
  <2>1. n - k \in Nat
    BY <1>1, <1>2
  <2> HIDE DEF T
  <2>2. QED
    BY <1>7, <1>8, <2>1, NaturalInduction
<1>10. st[n].path \in {p} \cup R
  <2>1. k + (n - k) = n /\ n <= n
    BY <1>1, <1>2
  <2>2. QED
    BY <1>9, <2>1
<1>11. p \in R
  BY <1>3, <1>6, <1>10
<1>12. QED
  BY <1>11 DEF R

LEMMA LengthIsCount ==
  ASSUME NEW fs \in Seq(Paths), IsInjective(fs)
  PROVE  IsFiniteSet(ToSet(fs)) /\ Cardinality(ToSet(fs)) = Len(fs)
<1> DEFINE S == ToSet(fs)
<1>1. Len(fs) \in Nat /\ DOMAIN fs = 1..Len(fs) /\ fs = [i \in 1..Len(fs) |-> fs[i]]
  OBVIOUS
<1>2. \A i, j \in 1..Len(fs) : fs[i] = fs[j] => i = j
  BY <1>1 DEF IsInjective
<1>3. S = {fs[i] : i \in 1..Len(fs)}
  BY <1>1 DEF ToSet
<1> HIDE DEF S
<1>4. fs \in [1..Len(fs) -> S]
  BY <1>1, <1>3
<1>5. ExistsBijection(1..Len(fs), S)
  <2>1. fs \in Bijection(1..Len(fs), S)
    BY <1>2, <1>3, <1>4 DEF Bijection, Injection, Surjection
  <2>2. QED
    BY <2>1 DEF ExistsBijection
<1> DEFINE I == 1..Len(fs)
<1>6. IsFiniteSet(I) /\ Cardinality(I) = Len(fs)
  <2>1. 1 \in Int /\ Len(fs) \in Int /\ (IF 1 > Len(fs) THEN 0 ELSE Len(fs) - 1 + 1) = Len(fs)
    BY <1>1
  <2>2. QED
    BY <2>1, FS_Interval
<1>7. IsFiniteSet(S) /\ Cardinality(S) = Cardinality(I)
  <2>1. ExistsBijection(I, S)
    BY <1>5
  <2> HIDE DEF I
  <2>2. QED
    BY <1>6, <2>1, FS_Bijection
<1>8. QED
  BY <1>6, <1>7 DEF S

\* When everything is read nothing is wrong, and the order is right.
LEMMA NothingIsWrong ==
  ASSUME Readable, NEW fs, NEW read, NEW size, NEW count, AllRead(fs, read, size, count)
  PROVE  Defects = {}
<1> DEFINE R == LinesOf(Needed)
<1>1. /\ fs \in Seq(Paths) /\ IsInjective(fs) /\ ToSet(fs) = Needed /\ LinesAreFine(R) /\ FilesAreFine(Needed)
      /\ Counted(fs, R, size, count) /\ ReadToTheEnd(Needed, {})
  BY DEF AllRead
<1>2. Needed \in SUBSET Paths /\ Entry \in Needed
  BY IncludesFacts
<1>3. Cardinality(Needed) = Len(fs) /\ Len(fs) \in Nat
  BY <1>1, LengthIsCount
<1>4. /\ Cardinality(Bytes(Needed)) \in Nat /\ Cardinality(R) \in Nat
      /\ {limits.files, limits.file_bytes, limits.bytes, limits.lines} \subseteq Nat
  BY <1>2, BytesAreFinite, LinesAreFinite DEF Readable
<1>5. \A p \in Needed : \A h \in Heads(p) : <<p, h>> \in R
  BY DEF LinesOf
<1> HIDE DEF R
<1>6. "recursive" \notin Defects
  BY <1>1, DefectsFacts DEF ReadToTheEnd
<1>7. ~(Cardinality(Needed) > limits.files) /\ ~(Cardinality(Bytes(Needed)) > limits.bytes) /\ ~(Cardinality(R) > limits.lines)
  BY <1>1, <1>3, <1>4 DEF Counted
<1>8. "files" \notin Defects /\ "bytes" \notin Defects /\ "lines" \notin Defects
  BY <1>7, DefectsFacts DEF R
<1>9. ASSUME NEW p \in Needed
      PROVE  disk[p] \notin {<<"missing">>, <<"garbled">>} /\ ~Orphan(p) /\ ~(Len(disk[p]) > limits.file_bytes)
  <2>1. Len(disk[p]) \in Nat
    BY <1>2, HeadsFacts
  <2>2. QED
    BY <1>1, <1>4, <2>1 DEF FilesAreFine
<1>10. "unreadable" \notin Defects /\ "orphan" \notin Defects /\ "file bytes" \notin Defects
  BY <1>9, DefectsFacts
<1>11. ASSUME NEW p \in Needed, NEW h \in Heads(p)
       PROVE  /\ disk[p][h] \in Paths \cup {"text", ".end"} /\ disk[p][h] # Outside
              /\ disk[p][h] = ".end" => p = Entry /\ \A g \in Heads(p) : g <= h
              /\ disk[p][h] # "text" => ~Continued(p, h)
  <2> DEFINE x == <<p, h>>
  <2>1. x \in R /\ x[1] = p /\ x[2] = h
    BY <1>5
  <2> HIDE DEF x
  <2>2. /\ disk[p][h] \in Paths \cup {"text", ".end"}
        /\ disk[p][h] = ".end" => p = Entry /\ \A y \in R : y[1] = Entry => y[2] <= h
        /\ disk[p][h] # "text" => ~Continued(p, h)
    BY <1>1, <2>1 DEF LinesAreFine
  <2>3. \A g \in Heads(p) : <<p, g>> \in R /\ <<p, g>>[1] = p /\ <<p, g>>[2] = g
    BY <1>5
  <2>4. disk[p][h] # Outside
    BY <2>2, PathsAssumption
  <2>5. QED
    BY <2>2, <2>3, <2>4
<1>12. "included end" \notin Defects /\ "escape" \notin Defects /\ "arguments" \notin Defects
  BY <1>11, DefectsFacts
<1>13. "after end" \notin Defects
  <2>1. ASSUME NEW g \in Heads(Entry), NEW h \in Heads(Entry), g < h, disk[Entry][g] = ".end" PROVE FALSE
    <3>1. h <= g
      BY <1>2, <1>11, <2>1
    <3>2. g \in Nat /\ h \in Nat
      BY <1>2, HeadsFacts
    <3>3. QED
      BY <2>1, <3>1, <3>2
  <2>2. QED
    BY <2>1, DefectsFacts
<1>14. QED
  BY <1>6, <1>8, <1>10, <1>12, <1>13, DefectsFacts, Zenon DEF RefusalReasons

LEMMA OrderIsRight ==
  ASSUME NEW fs, NEW read, NEW size, NEW count, AllRead(fs, read, size, count)
  PROVE  /\ ToSet(fs) = Needed /\ IsInjective(read)
         /\ ToSet(read) = UNION {{p} \X {h \in Heads(p) : disk[p][h] = "text"} : p \in Needed}
         /\ \A i, j \in DOMAIN read : i < j =>
              /\ read[i][1] = read[j][1] => read[i][2] < read[j][2]
              /\ ~\E h \in Heads(read[i][1]) : h < read[i][2] /\ disk[read[i][1]][h] = read[j][1]
<1> DEFINE R == LinesOf(Needed)
<1>1. /\ ToSet(fs) = Needed /\ read \in Seq(Paths \X Nat) /\ InOrder(read) /\ ToSet(read) = {x \in R : IsTextLine(x)}
  BY DEF AllRead
<1>2. \A i, j \in DOMAIN read : i < j => Before(read[i], read[j])
  BY <1>1 DEF InOrder
<1>3. \A i \in DOMAIN read : i \in Int /\ read[i] \in Paths \X Nat
  BY <1>1
<1>4. IsInjective(read)
  <2>1. ASSUME NEW i \in DOMAIN read, NEW j \in DOMAIN read, read[i] = read[j], i < j PROVE FALSE
    <3>1. read[i][2] < read[i][2] /\ read[i][2] \in Nat
      BY <1>2, <1>3, <2>1 DEF Before
    <3>2. QED
      BY <3>1
  <2>2. \A i, j \in DOMAIN read : i < j \/ j < i \/ i = j
    BY <1>3
  <2>3. QED
    BY <2>1, <2>2 DEF IsInjective
<1>5. ToSet(read) = UNION {{p} \X {h \in Heads(p) : disk[p][h] = "text"} : p \in Needed}
  <2> DEFINE S == UNION {{p} \X {h \in Heads(p) : disk[p][h] = "text"} : p \in Needed}
  <2>1. \A x \in R : x = <<x[1], x[2]>> /\ x[1] \in Needed /\ x[2] \in Heads(x[1])
    BY DEF LinesOf
  <2>2. \A x \in S : x = <<x[1], x[2]>> /\ x[1] \in Needed /\ x[2] \in Heads(x[1]) /\ disk[x[1]][x[2]] = "text"
    OBVIOUS
  <2>3. \A p \in Needed : \A h \in Heads(p) : <<p, h>> \in R /\ (disk[p][h] = "text" => <<p, h>> \in S)
    BY DEF LinesOf
  <2> HIDE DEF R, S
  <2>4. \A x : x \in R /\ IsTextLine(x) <=> x \in S
    BY <2>1, <2>2, <2>3 DEF IsTextLine
  <2>5. ToSet(read) = S
    BY <1>1, <2>4
  <2>6. QED
    BY <2>5 DEF S
<1>6. QED
  BY <1>1, <1>2, <1>4, <1>5 DEF Before

LEMMA ReadLimitFacts ==
  ASSUME Readable, bytes \in Nat, bytes <= limits.bytes
  PROVE  /\ ReadLimit \in {limits.file_bytes, limits.bytes - bytes}
         /\ ReadLimit <= limits.file_bytes /\ ReadLimit <= limits.bytes - bytes /\ limits.bytes - bytes \in Nat
<1> DEFINE rest == limits.bytes - bytes
<1>1. rest \in Nat /\ limits.file_bytes \in Nat
  BY DEF Readable
<1> HIDE DEF rest
<1>2. {limits.file_bytes, rest} \in SUBSET Nat /\ {limits.file_bytes, rest} # {}
  BY <1>1
<1>3. /\ Min({limits.file_bytes, rest}) \in {limits.file_bytes, rest}
      /\ \A x \in {limits.file_bytes, rest} : Min({limits.file_bytes, rest}) <= x
  BY <1>2, MinFacts
<1>4. QED
  BY <1>1, <1>3 DEF ReadLimit, rest

\* A refusal names something that is wrong with the directory.
LEMMA FileRefusalIsTrue ==
  ASSUME Readable, NEW p \in Paths, Expanding(files, active, p, bytes, lines), FileFailure(p) # Passed
  PROVE  FileFailure(p) \in Defects
<1> DEFINE V == ToSet(files)
           R == ReadIn(V, active)
<1>1. /\ Stacked(files, active, p) /\ Counted(files, R, bytes, lines) /\ V \subseteq Needed /\ p \in Needed
  BY PathsAssumption DEF Expanding, Wanted
<1>2. Needed \in SUBSET Paths /\ IsFiniteSet(Needed)
  BY IncludesFacts, PathsAssumption, FS_Subset
<1>3. /\ limits.files \in Nat /\ limits.file_bytes \in Nat /\ limits.bytes \in Nat /\ Len(disk[p]) \in Nat
  BY HeadsFacts DEF Readable
<1>4. IsIncluded(p) <=> p \in V
  BY DEF IsIncluded
<1>5. CASE FileFailure(p) = "recursive" /\ IsOpen(p)
  <2>1. p \in OpenIn(active)
    BY <1>5 DEF IsOpen, OpenIn
  <2>2. p \in Reachable(Includes, Includes[p])
    BY <1>1, <2>1, OpenIsRecursive
  <2>3. QED
    BY <1>1, <1>5, <2>2, DefectsFacts
<1>6. CASE FileFailure(p) = "files" /\ ~IsIncluded(p) /\ Len(files) >= limits.files
  <2>1. IsFiniteSet(V) /\ Cardinality(V) = Len(files) /\ Len(files) \in Nat
    BY <1>1, LengthIsCount DEF Stacked
  <2>2. Cardinality(V \cup {p}) = Cardinality(V) + 1
    BY <1>4, <1>6, <2>1, FS_AddElement
  <2>3. Cardinality(V \cup {p}) <= Cardinality(Needed) /\ Cardinality(Needed) \in Nat
    BY <1>1, <1>2, FS_Subset, FS_CardinalityType
  <2>4. Cardinality(Needed) > limits.files
    BY <1>3, <1>6, <2>1, <2>2, <2>3
  <2>5. QED
    BY <1>6, <2>4, DefectsFacts
<1>7. CASE FileFailure(p) = "unreadable" /\ disk[p] \in {<<"missing">>, <<"garbled">>}
  BY <1>1, <1>7, DefectsFacts
<1>8. /\ bytes = Cardinality(Bytes(V)) /\ bytes \in Nat /\ bytes <= limits.bytes
  BY <1>1, <1>2, BytesAreFinite DEF Counted
<1> DEFINE rest == limits.bytes - bytes
<1>9. ReadLimit \in {limits.file_bytes, rest} /\ ReadLimit <= limits.file_bytes /\ ReadLimit <= rest /\ rest \in Nat
  BY <1>8, ReadLimitFacts
<1>10. CASE FileFailure(p) = "bytes" /\ ~IsIncluded(p) /\ Len(disk[p]) > ReadLimit /\ ReadLimit < limits.file_bytes
  <2>1. Len(disk[p]) > rest
    BY <1>3, <1>9, <1>10
  <2>2. bytes + Len(disk[p]) > limits.bytes
    BY <1>3, <1>8, <2>1
  <2>3. Cardinality(Bytes(V \cup {p})) = bytes + Len(disk[p])
    BY <1>1, <1>2, <1>4, <1>8, <1>10, BytesGrow
  <2>4. Cardinality(Bytes(V \cup {p})) <= Cardinality(Bytes(Needed)) /\ Cardinality(Bytes(Needed)) \in Nat
    <3>1. Bytes(V \cup {p}) \subseteq Bytes(Needed)
      BY <1>1 DEF Bytes
    <3>2. IsFiniteSet(Bytes(Needed))
      BY <1>2, BytesAreFinite
    <3>3. QED
      BY <3>1, <3>2, FS_Subset, FS_CardinalityType
  <2>5. Cardinality(Bytes(Needed)) > limits.bytes
    BY <1>3, <1>8, <2>2, <2>3, <2>4
  <2>6. QED
    BY <1>10, <2>5, DefectsFacts
<1>11. CASE FileFailure(p) = "file bytes" /\ ~IsIncluded(p) /\ Len(disk[p]) > ReadLimit /\ ~(ReadLimit < limits.file_bytes)
  <2> HIDE DEF rest
  <2>1. ReadLimit \in Nat
    BY <1>3, <1>9
  <2> DEFINE a == Len(disk[p])
             b == limits.file_bytes
             c == ReadLimit
  <2>2. a > b
    <3>1. a \in Nat /\ b \in Nat /\ c \in Nat
      BY <1>3, <2>1
    <3>2. a > c /\ ~(c < b)
      BY <1>11
    <3> HIDE DEF a, b, c
    <3>3. QED
      BY <3>1, <3>2
  <2>3. QED
    BY <1>1, <1>11, <2>2, DefectsFacts
<1>12. CASE FileFailure(p) = "orphan" /\ Orphan(p)
  BY <1>1, <1>12, DefectsFacts
<1>13. QED
  BY <1>5, <1>6, <1>7, <1>10, <1>11, <1>12, FileChecked

LEMMA CurrentCall ==
  ASSUME Readable, NEW ask, Stacked(files, active, ask), active # <<>>
  PROVE  /\ Frame = active[Len(active)] /\ Left = LeftIn(active[Len(active)]) /\ Head1 = Min(LeftIn(active[Len(active)]))
         /\ Frame \in Frames /\ Frame.path \in Paths /\ Frame.path \in ToSet(files) /\ Frame.next \in Nat
         /\ Left # {} => Head1 \in Left /\ Head1 \in Heads(Frame.path) /\ Head1 \in Nat
<1> DEFINE n == Len(active)
<1>1. n \in Nat /\ n # 0 /\ DOMAIN active = 1..n
  BY StackFacts
<1>2. n \in DOMAIN active
  <2> HIDE DEF n
  <2>1. QED
    BY <1>1
<1>3. Frame = active[n] /\ Left = LeftIn(active[n])
  BY DEF Frame, Last, Left, LeftIn
<1>4. Frame \in Frames /\ Frame.path \in Paths /\ Frame.path \in ToSet(files) /\ Frame.next \in Nat
  BY <1>2, <1>3, StackFacts
<1>5. Head1 = Min(Left)
  BY DEF Head1
<1>6. Left \in SUBSET Nat /\ Left \subseteq Heads(Frame.path)
  BY <1>4, HeadsFacts DEF Left
<1> HIDE DEF n
<1>7. Left # {} => Head1 \in Left
  BY <1>5, <1>6, MinFacts
<1>8. QED
  BY <1>3, <1>4, <1>5, <1>6, <1>7 DEF n

LEMMA LineRefusalIsTrue ==
  ASSUME Readable, Expanding(files, active, Nowhere, bytes, lines), active # <<>>, Left # {}, ReadingFailure # Passed
  PROVE  ReadingFailure \in Defects
<1> DEFINE V == ToSet(files)
           R == ReadIn(V, active)
           n == Len(active)
           p == Frame.path
           l == Head1
           z == <<p, l>>
<1>1. /\ Stacked(files, active, Nowhere) /\ Counted(files, R, bytes, lines) /\ V \subseteq Needed /\ LinesAreFine(R)
  BY DEF Expanding, Wanted
<1>2. /\ Frame = active[n] /\ Left = LeftIn(active[n]) /\ l = Min(LeftIn(active[n]))
      /\ Frame \in Frames /\ p \in V /\ p \in Paths /\ Frame.next \in Nat
      /\ l \in Left /\ l \in Heads(p) /\ l \in Nat
  BY <1>1, CurrentCall
<1>3. p \in Needed /\ Line = disk[p][l] /\ Needed \in SUBSET Paths /\ V \in SUBSET Paths
  BY <1>1, <1>2, IncludesFacts DEF Line
<1>4. n \in DOMAIN active /\ \A i \in DOMAIN active : active[i].path = p => i = n
  <2>1. n \in Nat /\ n # 0 /\ DOMAIN active = 1..n
    BY <1>1, StackFacts
  <2> HIDE DEF n
  <2>2. n \in DOMAIN active
    BY <2>1
  <2>3. QED
    BY <1>1, <1>2, <2>2 DEF Stacked
<1>5. ~(l < Frame.next) /\ Frame.next \in Nat /\ l \in Nat /\ Heads(p) \subseteq Nat
  BY <1>2, HeadsFacts DEF Left
<1> HIDE DEF V, R, n, p, l
<1>6. CASE ReadingFailure = "lines" /\ lines + 1 > limits.lines
  <2>1. R \subseteq LinesOf(V) /\ IsFiniteSet(R) /\ Cardinality(R) \in Nat
    BY <1>3, ReadIsFinite DEF R
  <2>2. z \notin R
    <3>1. active[n].path = p
      BY <1>2 DEF p
    <3>2. z[1] = p /\ z[2] = l
      OBVIOUS
    <3>3. z \in R => l < active[n].next
      BY <1>4, <3>1, <3>2 DEF ReadIn, R
    <3>4. QED
      BY <1>2, <1>5, <3>3
  <2>3. z \in LinesOf(Needed)
    BY <1>2, <1>3 DEF LinesOf
  <2>4. LinesOf(V) \subseteq LinesOf(Needed)
    BY <1>1 DEF LinesOf
  <2>5. IsFiniteSet(LinesOf(Needed)) /\ Cardinality(LinesOf(Needed)) \in Nat
    BY <1>3, LinesAreFinite
  <2> HIDE DEF z
  <2>6. Cardinality(R \cup {z}) = Cardinality(R) + 1
    BY <2>1, <2>2, FS_AddElement
  <2>7. R \cup {z} \subseteq LinesOf(Needed)
    BY <2>1, <2>3, <2>4
  <2>8. Cardinality(R \cup {z}) <= Cardinality(LinesOf(Needed))
    BY <2>5, <2>7, FS_Subset
  <2>9. lines = Cardinality(R) /\ limits.lines \in Nat
    BY <1>1 DEF Counted, Readable
  <2>10. Cardinality(LinesOf(Needed)) > limits.lines
    BY <1>6, <2>1, <2>5, <2>6, <2>8, <2>9
  <2>11. QED
    BY <1>6, <2>10, DefectsFacts
<1>7. CASE ReadingFailure = "after end" /\ Frame.ended
  <2>1. PICK g \in Heads(p) : g < Frame.next /\ disk[p][g] = ".end"
    BY <1>1, <1>2, <1>4, <1>7 DEF Stacked, p
  <2>2. g < l /\ g \in Nat
    BY <1>5, <2>1
  <2> DEFINE x == <<p, g>>
  <2>3. x[1] = p /\ x[2] = g
    OBVIOUS
  <2>4. x \in R
    BY <1>2, <1>4, <2>1, <2>2 DEF ReadIn, R
  <2> HIDE DEF x
  <2>5. p = Entry
    BY <1>1, <2>1, <2>3, <2>4 DEF LinesAreFine
  <2>6. \E h1, h2 \in Heads(Entry) : h1 < h2 /\ disk[Entry][h1] = ".end"
    BY <1>2, <2>1, <2>2, <2>5
  <2>7. QED
    BY <1>7, <2>6, DefectsFacts
<1>8. CASE ReadingFailure = "included end" /\ Line = ".end" /\ Frame.path # Entry
  BY <1>2, <1>3, <1>8, DefectsFacts DEF p
<1>9. CASE ReadingFailure = "arguments" /\ Line # "text" /\ Continued(Frame.path, Head1)
  BY <1>2, <1>3, <1>9, DefectsFacts DEF p, l
<1>10. CASE ReadingFailure = "escape" /\ Line = Outside
  BY <1>2, <1>3, <1>10, DefectsFacts
<1>11. QED
  BY <1>6, <1>7, <1>8, <1>9, <1>10, LineChecked

\* The reader: what is true while it reads, when it is done, and when it refuses.
SourceInv ==
  /\ Readable
  /\ reader = "reading" => Expanding(files, active, asked, bytes, lines)
  /\ reader = "accepted" => AllRead(files, source, bytes, lines)
  /\ reader \notin {"reading", "accepted", "returned"} => reader \in Defects

LEMMA SameDirectory ==
  ASSUME disk' = disk, limits' = limits
  PROVE  /\ Readable' <=> Readable
         /\ Defects' = Defects
         /\ \A p : Heads(p)' = Heads(p)
         /\ Includes' = Includes /\ Needed' = Needed
<1>1. Readable' <=> Readable
  BY DEF Readable
<1>2. \A p : Heads(p)' = Heads(p)
  BY DEF Heads
<1>3. Includes' = Includes
  BY <1>2 DEF Includes
<1>4. Needed' = Needed
  BY <1>3 DEF Needed
<1>5. \A p : Orphan(p)' <=> Orphan(p)
  BY <1>2 DEF Orphan
<1>6. \A p, h : Continued(p, h)' <=> Continued(p, h)
  BY <1>2 DEF Continued
<1>7. Total(Heads)' = Total(Heads)
  BY <1>2, <1>4 DEF Total
<1>8. Defects' = Defects
  BY <1>2, <1>3, <1>4, <1>5, <1>6, <1>7 DEF Defects, Total
<1>9. QED
  BY <1>1, <1>2, <1>3, <1>4, <1>8

LEMMA SourceStart == Init => SourceInv
<1> SUFFICES ASSUME Init PROVE SourceInv
  OBVIOUS
<1>1. PICK input \in Inputs : disk = input.disk /\ limits = input.limits
  BY DEF Init, ReaderInit
<1>2. asked = Entry /\ active = <<>> /\ files = <<>> /\ bytes = 0 /\ lines = 0 /\ reader = "reading"
  BY DEF Init, ReaderInit
<1>3. Readable
  BY <1>1, DiskAssumption, LimitsAssumption DEF Readable
<1>4. ToSet(<<>>) = {} /\ OpenIn(<<>>) = {} /\ ReadIn({}, <<>>) = {} /\ Bytes({}) = {}
  BY DEF ToSet, OpenIn, ReadIn, Bytes
<1>5. Stacked(<<>>, <<>>, Entry)
  BY <1>4, PathsAssumption DEF Stacked, IsInjective
<1>6. Counted(<<>>, {}, 0, 0)
  <2>1. Cardinality({}) = 0 /\ Len(<<>>) = 0
    BY FS_EmptySet
  <2>2. limits.files \in Nat /\ limits.bytes \in Nat /\ limits.lines \in Nat
    BY <1>3 DEF Readable
  <2>3. 0 <= limits.files /\ 0 <= limits.bytes /\ 0 <= limits.lines
    BY <2>2
  <2>4. Cardinality(Bytes(ToSet(<<>>))) = 0
    BY <1>4, <2>1
  <2>5. QED
    BY <2>1, <2>3, <2>4, Zenon DEF Counted
<1>7. Wanted({}, Entry)
  BY <1>3, IncludesFacts DEF Wanted
<1>8. Settled({}, <<>>, Entry, {}) /\ LinesAreFine({}) /\ FilesAreFine({}) /\ ReadToTheEnd({}, {}) /\ Expanded(<<>>, {})
  BY DEF Settled, LinesAreFine, FilesAreFine, ReadToTheEnd, Expanded
<1>9. Expanding(<<>>, <<>>, Entry, 0, 0)
  BY <1>4, <1>5, <1>6, <1>7, <1>8 DEF Expanding
<1>10. QED
  BY <1>2, <1>3, <1>9 DEF SourceInv

LEMMA SameExpanding ==
  ASSUME disk' = disk, limits' = limits, NEW fs, NEW st, NEW ask, NEW size, NEW count,
         files' = fs, active' = st, asked' = ask, bytes' = size, lines' = count,
         Expanding(fs, st, ask, size, count)
  PROVE  Expanding(files, active, asked, bytes, lines)'
<1> DEFINE V == ToSet(fs)
           O == OpenIn(st)
           R == ReadIn(V, st)
<1>1. /\ Stacked(fs, st, ask) /\ Settled(V, st, ask, R) /\ LinesAreFine(R) /\ FilesAreFine(V)
      /\ Counted(fs, R, size, count) /\ ReadToTheEnd(V, O) /\ Expanded(st, R) /\ Wanted(V, ask)
  BY DEF Expanding
<1>2. /\ \A p : Heads(p)' = Heads(p)
      /\ Includes' = Includes /\ Needed' = Needed
  BY SameDirectory
<1>3. ToSet(files)' = V /\ OpenIn(active)' = O
  BY DEF OpenIn
<1>4. ReadIn(ToSet(files), active)' = R
  BY <1>2, <1>3 DEF ReadIn
<1> HIDE DEF V, O, R
<1>5. Stacked(files, active, asked)'
  BY <1>1, <1>2, <1>3 DEF Stacked, WaitsFor, LastRead, Awaited, V, O
<1>6. Settled(ToSet(files), active, asked, ReadIn(ToSet(files), active))'
  BY <1>1, <1>2, <1>3, <1>4 DEF Settled, LastRead, Awaited, O
<1>7. LinesAreFine(ReadIn(ToSet(files), active))'
  BY <1>1, <1>2, <1>4 DEF LinesAreFine, Continued
<1>8. FilesAreFine(ToSet(files))'
  BY <1>1, <1>2, <1>3 DEF FilesAreFine, Orphan
<1>9. Counted(files, ReadIn(ToSet(files), active), bytes, lines)'
  BY <1>1, <1>3, <1>4 DEF Counted, Bytes, V
<1>10. ReadToTheEnd(ToSet(files), OpenIn(active))'
  BY <1>1, <1>2, <1>3 DEF ReadToTheEnd
<1>11. Expanded(active, ReadIn(ToSet(files), active))'
  BY <1>1, <1>2, <1>4 DEF Expanded, InOrder, Before, IsTextLine
<1>12. Wanted(ToSet(files), asked)'
  BY <1>1, <1>2, <1>3 DEF Wanted
<1>13. QED
  BY <1>5, <1>6, <1>7, <1>8, <1>9, <1>10, <1>11, <1>12 DEF Expanding

LEMMA SameAllRead ==
  ASSUME disk' = disk, limits' = limits, NEW fs, NEW read, NEW size, NEW count,
         files' = fs, source' = read, bytes' = size, lines' = count,
         AllRead(fs, read, size, count)
  PROVE  AllRead(files, source, bytes, lines)'
<1> DEFINE V == ToSet(fs)
           R == LinesOf(V)
<1>1. /\ fs \in Seq(Paths) /\ IsInjective(fs) /\ V = Needed
      /\ LinesAreFine(R) /\ FilesAreFine(V)
      /\ Counted(fs, R, size, count) /\ ReadToTheEnd(V, {})
      /\ read \in Seq(Paths \X Nat) /\ InOrder(read) /\ ToSet(read) = {x \in R : IsTextLine(x)}
  BY DEF AllRead
<1>2. /\ \A p : Heads(p)' = Heads(p)
      /\ Includes' = Includes /\ Needed' = Needed
  BY SameDirectory
<1>3. ToSet(files)' = V
  OBVIOUS
<1>4. LinesOf(ToSet(files))' = R
  BY <1>2, <1>3 DEF LinesOf
<1> HIDE DEF V, R
<1>5. LinesAreFine(LinesOf(ToSet(files)))'
  BY <1>1, <1>2, <1>4 DEF LinesAreFine, Continued
<1>6. FilesAreFine(ToSet(files))'
  BY <1>1, <1>2, <1>3 DEF FilesAreFine, Orphan
<1>7. Counted(files, LinesOf(ToSet(files)), bytes, lines)'
  BY <1>1, <1>3, <1>4 DEF Counted, Bytes, V
<1>8. ReadToTheEnd(ToSet(files), {})'
  BY <1>1, <1>2, <1>3 DEF ReadToTheEnd
<1>9. InOrder(source)'
  BY <1>1, <1>2 DEF InOrder, Before
<1>10. (ToSet(source) = {x \in LinesOf(ToSet(files)) : IsTextLine(x)})'
  BY <1>1, <1>4 DEF IsTextLine
<1>11. (files \in Seq(Paths) /\ IsInjective(files) /\ ToSet(files) = Needed /\ source \in Seq(Paths \X Nat))'
  BY <1>1, <1>2, <1>3
<1>12. QED
  BY <1>5, <1>6, <1>7, <1>8, <1>9, <1>10, <1>11 DEF AllRead

LEMMA DefectsAreApart == \A reason \in Defects : reason \notin {"reading", "accepted", "returned", Passed}
BY DefectsFacts DEF RefusalReasons, Passed

LEMMA RefusesFile == SourceInv /\ limits' = limits /\ RefuseFile => SourceInv'
<1> SUFFICES ASSUME SourceInv, limits' = limits, RefuseFile PROVE SourceInv'
  OBVIOUS
<1>1. /\ Readable /\ Expanding(files, active, asked, bytes, lines) /\ disk' = disk
      /\ asked # Nowhere /\ FileFailure(asked) # Passed /\ reader' = FileFailure(asked)
  BY DEF SourceInv, RefuseFile
<1>2. asked \in Paths
  BY <1>1 DEF Expanding, Stacked
<1>3. reader' \in Defects
  BY <1>1, <1>2, FileRefusalIsTrue
<1>4. Readable' /\ Defects' = Defects
  BY <1>1, SameDirectory
<1>5. QED
  BY <1>3, <1>4, DefectsAreApart DEF SourceInv

LEMMA SkipsFile == SourceInv /\ limits' = limits /\ (\E p \in Paths : SkipFile(p)) => SourceInv'
<1> SUFFICES ASSUME SourceInv, limits' = limits, NEW p \in Paths, SkipFile(p) PROVE SourceInv'
  OBVIOUS
<1>1. /\ Readable /\ Expanding(files, active, p, bytes, lines) /\ disk' = disk /\ reader = "reading" /\ reader' = "reading"
      /\ FileFailure(p) = Passed /\ IsIncluded(p) /\ asked' = Nowhere
      /\ files' = files /\ active' = active /\ bytes' = bytes /\ lines' = lines
  BY DEF SourceInv, SkipFile, Call
<1>2. ~IsOpen(p)
  BY <1>1, FileChecked DEF Passed
<1>3. p \in ToSet(files) \ OpenIn(active)
  BY <1>1, <1>2 DEF IsIncluded, IsOpen, OpenIn
<1>4. Expanding(files, active, Nowhere, bytes, lines)
  BY <1>1, <1>3, SkipReads
<1>5. Expanding(files, active, asked, bytes, lines)'
  BY <1>1, <1>4, SameExpanding
<1>6. Readable'
  BY <1>1, SameDirectory
<1>7. QED
  BY <1>1, <1>5, <1>6 DEF SourceInv

LEMMA EntersFile == SourceInv /\ limits' = limits /\ (\E p \in Paths : EnterFile(p)) => SourceInv'
<1> SUFFICES ASSUME SourceInv, limits' = limits, NEW p \in Paths, EnterFile(p) PROVE SourceInv'
  OBVIOUS
<1>1. /\ Readable /\ Expanding(files, active, p, bytes, lines) /\ disk' = disk /\ reader = "reading" /\ reader' = "reading"
      /\ FileFailure(p) = Passed /\ ~IsIncluded(p) /\ asked' = Nowhere
      /\ files' = Append(files, p) /\ active' = Append(active, NewFrame(p)) /\ bytes' = bytes + Len(disk[p]) /\ lines' = lines
  BY DEF SourceInv, EnterFile, Call, NewFrame
<1>2. /\ disk[p] \notin {<<"missing">>, <<"garbled">>} /\ ~Orphan(p)
      /\ ~(Len(files) >= limits.files) /\ ~(Len(disk[p]) > ReadLimit)
  BY <1>1, FileChecked DEF Passed
<1>3. p \notin ToSet(files)
  BY <1>1 DEF IsIncluded
<1>4. /\ Stacked(files, active, p) /\ bytes = Cardinality(Bytes(ToSet(files))) /\ bytes <= limits.bytes
  BY <1>1 DEF Expanding, Counted
<1>5. ToSet(files) \in SUBSET Paths /\ Len(files) \in Nat
  <2>1. ToSet(files) \in SUBSET Paths
    BY <1>4, StackFacts
  <2>2. files \in Seq(Paths)
    BY <1>4 DEF Stacked
  <2>3. QED
    BY <2>1, <2>2
<1>6. bytes \in Nat
  BY <1>1, <1>4, <1>5, BytesAreFinite
<1> DEFINE size == Len(disk[p])
           limit == ReadLimit
           rest == limits.bytes - bytes
<1>7. /\ limit \in {limits.file_bytes, rest} /\ limit <= limits.file_bytes /\ limit <= rest /\ rest \in Nat
  BY <1>1, <1>4, <1>6, ReadLimitFacts
<1>8. size \in Nat /\ limits.file_bytes \in Nat /\ limits.bytes \in Nat /\ limits.files \in Nat
  BY <1>1, HeadsFacts DEF Readable
<1>9. ~(size > limit)
  BY <1>2
<1>10. size <= limits.file_bytes /\ size <= rest
  <2> HIDE DEF size, limit, rest
  <2>1. limit \in Nat
    BY <1>7, <1>8
  <2>2. QED
    BY <1>7, <1>8, <1>9, <2>1
<1>11. bytes + size <= limits.bytes /\ Len(files) < limits.files
  <2>1. bytes + size <= limits.bytes
    <3> HIDE DEF size
    <3>1. QED
      BY <1>6, <1>8, <1>10
  <2>2. QED
    BY <1>2, <1>5, <1>8, <2>1
<1>12. Expanding(Append(files, p), Append(active, NewFrame(p)), Nowhere, bytes + size, lines)
  BY <1>1, <1>2, <1>3, <1>10, <1>11, EnterReads
<1>13. Expanding(files, active, asked, bytes, lines)'
  BY <1>1, <1>12, SameExpanding
<1>14. Readable'
  BY <1>1, SameDirectory
<1>15. QED
  BY <1>1, <1>13, <1>14 DEF SourceInv

LEMMA RefusesLine == SourceInv /\ limits' = limits /\ RefuseLine => SourceInv'
<1> SUFFICES ASSUME SourceInv, limits' = limits, RefuseLine PROVE SourceInv'
  OBVIOUS
<1>1. /\ Readable /\ Expanding(files, active, Nowhere, bytes, lines) /\ disk' = disk
      /\ active # <<>> /\ Left # {} /\ ReadingFailure # Passed /\ reader' = ReadingFailure
  BY DEF SourceInv, RefuseLine, AtLine
<1>2. reader' \in Defects
  BY <1>1, LineRefusalIsTrue
<1>3. Readable' /\ Defects' = Defects
  BY <1>1, SameDirectory
<1>4. QED
  BY <1>2, <1>3, DefectsAreApart DEF SourceInv

\* One line of the loop, whatever kind it is.
LEMMA Advanced ==
  ASSUME SourceInv, limits' = limits, AtLine, NEW changed \in Frames, changed.path = Frame.path, Advance(changed),
         Line \in Paths \cup {"text", ".end"},
         changed.ended <=> Frame.ended \/ Line = ".end",
         changed.expanded = IF Line = "text" THEN Append(Frame.expanded, <<Frame.path, Head1>>) ELSE Frame.expanded,
         IF Line \in Paths THEN asked' = Line ELSE asked' = Nowhere
  PROVE  SourceInv'
<1> DEFINE n == Len(active)
           l == Head1
           g == [changed EXCEPT !.next = l + 1]
           st2 == [active EXCEPT ![n] = g]
<1>1. /\ Readable /\ Expanding(files, active, Nowhere, bytes, lines) /\ disk' = disk /\ active # <<>> /\ Left # {}
      /\ ReadingFailure = Passed /\ reader = "reading" /\ reader' = "reading"
      /\ files' = files /\ active' = st2 /\ bytes' = bytes /\ lines' = lines + 1
  BY DEF SourceInv, AtLine, Advance
<1>2. Stacked(files, active, Nowhere)
  BY <1>1 DEF Expanding
<1>3. /\ Frame = active[n] /\ Left = LeftIn(active[n]) /\ l = Min(LeftIn(active[n])) /\ l \in Nat
      /\ Frame \in Frames
  BY <1>1, <1>2, CurrentCall
<1>4. /\ g \in Frames /\ g.path = Frame.path /\ g.next = l + 1 /\ g.ended = changed.ended /\ g.expanded = changed.expanded
  <2>1. l + 1 \in Nat
    BY <1>3
  <2> HIDE DEF l
  <2>2. QED
    BY <2>1 DEF Frames
<1>5. Line = disk[g.path][l]
  BY <1>4 DEF Line
<1>6. /\ ~(lines + 1 > limits.lines) /\ ~Frame.ended /\ ~(Line = ".end" /\ Frame.path # Entry)
      /\ ~(Line # "text" /\ Continued(Frame.path, l))
  BY <1>1, LineChecked DEF Passed
<1>7. asked' \in Paths \cup {Nowhere} /\ (asked' # Nowhere => Line = asked')
  BY PathsAssumption
<1> HIDE DEF g, st2, n, l
<1>8. Advances(files, active, [active EXCEPT ![Len(active)] = g], g, Min(LeftIn(active[Len(active)])))
  BY <1>1, <1>2, <1>3, <1>4, AdvanceEffect DEF n
<1>9. Advances(files, active, st2, g, l)
  BY <1>3, <1>8 DEF st2, n
<1>10. Stacked(files, [active EXCEPT ![Len(active)] = g], asked')
  BY <1>1, <1>2, <1>3, <1>4, <1>5, <1>7, AdvanceStacks DEF n
<1>11. Stacked(files, st2, asked')
  BY <1>10 DEF st2, n
<1>12. lines \in Nat /\ limits.lines \in Nat
  <2>1. lines = Cardinality(ReadIn(ToSet(files), active)) /\ ToSet(files) \in SUBSET Paths
    BY <1>1, <1>2, StackFacts DEF Expanding, Counted
  <2>2. QED
    BY <1>1, <2>1, ReadIsFinite DEF Readable
<1>13. lines + 1 <= limits.lines
  BY <1>6, <1>12
<1>14. /\ disk[g.path][l] \in Paths \cup {"text", ".end"} /\ (disk[g.path][l] # "text" => ~Continued(g.path, l))
       /\ (disk[g.path][l] = ".end" => g.path = Entry) /\ ~active[Len(active)].ended
       /\ (IF disk[g.path][l] \in Paths THEN asked' = disk[g.path][l] ELSE asked' = Nowhere)
       /\ g.expanded = IF disk[g.path][l] = "text" THEN Append(active[Len(active)].expanded, <<g.path, l>>) ELSE active[Len(active)].expanded
  BY <1>3, <1>4, <1>5, <1>6 DEF n, l
<1>15. Expanding(files, st2, asked', bytes, lines + 1)
  BY <1>1, <1>7, <1>9, <1>11, <1>13, <1>14, AdvanceReads
<1>16. Expanding(files, active, asked, bytes, lines)'
  BY <1>1, <1>15, SameExpanding
<1>17. Readable'
  BY <1>1, SameDirectory
<1>18. QED
  BY <1>1, <1>16, <1>17 DEF SourceInv

LEMMA ReadsLine == SourceInv /\ limits' = limits /\ (TextLine \/ EndLine \/ IncludeLine) => SourceInv'
<1> SUFFICES ASSUME SourceInv, limits' = limits, TextLine \/ EndLine \/ IncludeLine PROVE SourceInv'
  OBVIOUS
<1>1. /\ Readable /\ Expanding(files, active, Nowhere, bytes, lines) /\ active # <<>> /\ Left # {} /\ asked = Nowhere /\ AtLine
  BY DEF SourceInv, AtLine, TextLine, EndLine, IncludeLine
<1>2. Frame \in Frames /\ Frame.path \in Paths /\ Head1 \in Nat
  BY <1>1, CurrentCall DEF Expanding
<1>3. "text" \notin Paths /\ ".end" \notin Paths
  BY PathsAssumption
<1>4. CASE TextLine
  <2> DEFINE changed == [Frame EXCEPT !.expanded = Append(@, <<Frame.path, Head1>>)]
  <2>1. Line = "text" /\ asked' = Nowhere /\ Advance(changed)
    BY <1>1, <1>4 DEF TextLine
  <2>2. /\ changed \in Frames /\ changed.path = Frame.path /\ changed.ended = Frame.ended
        /\ changed.expanded = Append(Frame.expanded, <<Frame.path, Head1>>)
    <3>1. Frame.expanded \in Seq(Paths \X Nat) /\ <<Frame.path, Head1>> \in Paths \X Nat
      BY <1>2 DEF Frames
    <3> DEFINE longer == Append(Frame.expanded, <<Frame.path, Head1>>)
    <3>2. longer \in Seq(Paths \X Nat)
      BY <3>1
    <3>3. changed = [Frame EXCEPT !.expanded = longer]
      BY <1>2 DEF Frames
    <3> HIDE DEF longer, changed
    <3>4. changed \in Frames /\ changed.path = Frame.path /\ changed.ended = Frame.ended /\ changed.expanded = longer
      BY <1>2, <3>2, <3>3 DEF Frames
    <3>5. QED
      BY <3>4 DEF longer
  <2> HIDE DEF changed
  <2>3. QED
    BY <1>1, <1>3, <2>1, <2>2, Advanced
<1>5. CASE EndLine
  <2> DEFINE changed == [Frame EXCEPT !.ended = TRUE]
  <2>1. Line = ".end" /\ asked' = Nowhere /\ Advance(changed)
    BY <1>1, <1>5 DEF EndLine
  <2>2. /\ changed \in Frames /\ changed.path = Frame.path /\ changed.ended = TRUE /\ changed.expanded = Frame.expanded
    BY <1>2 DEF Frames
  <2> HIDE DEF changed
  <2>3. QED
    BY <1>1, <1>3, <2>1, <2>2, Advanced
<1>6. CASE IncludeLine
  <2>1. Line \in Paths /\ asked' = Line /\ Advance(Frame)
    BY <1>6 DEF IncludeLine
  <2>2. QED
    BY <1>1, <1>2, <1>3, <2>1, Advanced
<1>7. QED
  BY <1>4, <1>5, <1>6

LEMMA ReturnsFile == SourceInv /\ limits' = limits /\ ReturnFile => SourceInv'
<1> SUFFICES ASSUME SourceInv, limits' = limits, ReturnFile PROVE SourceInv'
  OBVIOUS
<1> DEFINE n == Len(active)
<1>1. /\ Readable /\ Expanding(files, active, Nowhere, bytes, lines) /\ disk' = disk /\ active # <<>> /\ Left = {} /\ reader = "reading"
      /\ files' = files /\ asked' = Nowhere /\ bytes' = bytes /\ lines' = lines
  BY DEF SourceInv, ReturnFile
<1>2. Stacked(files, active, Nowhere)
  BY <1>1 DEF Expanding
<1>3. Frame = active[n] /\ LeftIn(active[n]) = {}
  BY <1>1, <1>2, CurrentCall
<1>4. n \in Nat /\ n # 0 /\ active \in Seq(Frames)
  BY <1>1, <1>2, StackFacts DEF Stacked
<1>5. Readable'
  BY <1>1, SameDirectory
<1>6. CASE n = 1
  <2>1. source' = active[n].expanded /\ reader' = "accepted"
    BY <1>3, <1>6 DEF ReturnFile
  <2>2. AllRead(files, active[n].expanded, bytes, lines)
    BY <1>1, <1>3, <1>6, LastReturn
  <2>3. AllRead(files, source, bytes, lines)'
    BY <1>1, <2>1, <2>2, SameAllRead
  <2>4. QED
    BY <1>5, <2>1, <2>3 DEF SourceInv
<1>7. CASE n # 1
  <2>0. n > 1
    <3> HIDE DEF n
    <3>1. QED
      BY <1>4, <1>7
  <2> DEFINE m == n - 1
             more == active[m].expanded \o active[n].expanded
  <2>1. n > 1
    BY <2>0
  <2>2. m \in 1..m /\ Front(active)[m] = active[m]
    <3>1. Front(active) = SubSeq(active, 1, m)
      BY DEF Front
    <3> HIDE DEF n
    <3>2. 1 \in Nat /\ m \in Nat /\ 1 <= 1 /\ 1 <= m + 1 /\ m <= n /\ m \in 1..(m - 1 + 1) /\ 1 + m - 1 = m /\ m \in 1..m
      BY <1>4, <2>1
    <3>3. m <= Len(active)
      BY <3>2 DEF n
    <3> HIDE DEF m
    <3>4. \A i \in 1..(m - 1 + 1) : SubSeq(active, 1, m)[i] = active[1 + i - 1]
      BY <1>4, <3>2, <3>3, SubSeqFacts
    <3>5. SubSeq(active, 1, m)[m] = active[1 + m - 1]
      BY <3>2, <3>4
    <3>6. QED
      BY <3>1, <3>2, <3>5
  <2>3. active' = [Front(active) EXCEPT ![m].expanded = Extend(Front(active)[m].expanded, Frame.expanded)] /\ reader' = "reading"
    BY <1>1, <1>7 DEF ReturnFile
  <2>4. active' = [Front(active) EXCEPT ![m].expanded = more]
    BY <1>3, <2>2, <2>3 DEF Extend
  <2>5. Expanding(files, [Front(active) EXCEPT ![m].expanded = more], Nowhere, bytes, lines)
    BY <1>1, <1>3, <2>1, ReturnReads
  <2> HIDE DEF more, m
  <2>6. Expanding(files, active, asked, bytes, lines)'
    BY <1>1, <2>4, <2>5, SameExpanding
  <2>7. QED
    BY <1>5, <2>3, <2>6 DEF SourceInv
<1>8. QED
  BY <1>6, <1>7

LEMMA ReaderKeeps == SourceInv /\ limits' = limits /\ ReaderNext => SourceInv'
BY RefusesFile, SkipsFile, EntersFile, RefusesLine, ReadsLine, ReturnsFile DEF ReaderNext

LEMMA SameSource == SourceInv /\ UNCHANGED <<limits, readerVars>> => SourceInv'
<1> SUFFICES ASSUME SourceInv, limits' = limits, UNCHANGED readerVars PROVE SourceInv'
  OBVIOUS
<1>1. /\ disk' = disk /\ files' = files /\ active' = active /\ asked' = asked /\ bytes' = bytes /\ lines' = lines
      /\ source' = source /\ reader' = reader
  BY DEF readerVars
<1>2. Readable' /\ Defects' = Defects
  BY <1>1, SameDirectory DEF SourceInv
<1>3. CASE reader = "reading"
  <2>1. Expanding(files, active, asked, bytes, lines)'
    BY <1>1, <1>3, SameExpanding DEF SourceInv
  <2>2. QED
    BY <1>1, <1>2, <1>3, <2>1 DEF SourceInv
<1>4. CASE reader = "accepted"
  <2>1. AllRead(files, source, bytes, lines)'
    BY <1>1, <1>4, SameAllRead DEF SourceInv
  <2>2. QED
    BY <1>1, <1>2, <1>4, <2>1 DEF SourceInv
<1>5. CASE reader \notin {"reading", "accepted"}
  BY <1>1, <1>2, <1>5 DEF SourceInv
<1>6. QED
  BY <1>3, <1>4, <1>5

LEMMA SourceKeeps == SourceInv /\ [Next]_netlistVars => SourceInv'
<1> SUFFICES ASSUME SourceInv, [Next]_netlistVars PROVE SourceInv'
  OBVIOUS
<1>1. CASE Reading
  BY <1>1, ReaderKeeps DEF Reading
<1>2. CASE StartParse
  <2>1. disk' = disk /\ limits' = limits /\ reader' = "returned"
    BY <1>2 DEF StartParse
  <2>2. QED
    BY <2>1, SameDirectory DEF SourceInv
<1>3. CASE Parsing \/ StartBuild \/ Building \/ Finished \/ UNCHANGED netlistVars
  <2>1. UNCHANGED <<limits, readerVars>>
    BY <1>3 DEF Parsing, StartBuild, Building, Finished, netlistVars
  <2>2. QED
    BY <2>1, SameSource
<1>4. QED
  BY <1>1, <1>2, <1>3 DEF Next

LEMMA SourceAlways == Spec => []SourceInv
<1>1. QED
  BY SourceStart, SourceKeeps, PTL DEF Spec

\* The reader of include files accepts exactly the directories without a
\* defect, and refuses the others for a defect they have.
THEOREM VerdictIsTrueAlways == Spec => []VerdictIsTrue
<1>1. SourceInv => VerdictIsTrue
  <2> SUFFICES ASSUME SourceInv PROVE VerdictIsTrue
    OBVIOUS
  <2>1. reader = "accepted" => Defects = {}
    BY NothingIsWrong DEF SourceInv
  <2>2. QED
    BY <2>1 DEF SourceInv, VerdictIsTrue
<1>2. QED
  BY <1>1, SourceAlways, PTL

\* What it hands to the parser has every line of every file once, and nothing
\* that follows an include before what is included.
THEOREM EveryLineOnceAlways == Spec => []EveryLineOnceInOrder
<1>1. SourceInv => EveryLineOnceInOrder
  BY OrderIsRight DEF SourceInv, EveryLineOnceInOrder
<1>2. QED
  BY <1>1, SourceAlways, PTL
(***************************************************************************)
(* The order of records.  Whatever order the lines I of an accepted text   *)
(* are read in, as long as blocks stay together, the parser then holds the *)
(* same: After(I, c), where c is the open block.                           *)
(***************************************************************************)
ElementsOf(I) == {i \in I : statements[i].op = "element"}
Held(I, s) == {i \in ElementsOf(I) : Owner(i) = s}
Holder(I, s, e) == CHOOSE i \in Held(I, s) : statements[i].name = e
ElementsIn(I, s) == [e \in {statements[i].name : i \in Held(I, s)} |-> Element(statements[Holder(I, s, e)])]
Opening(I, s) == CHOOSE i \in I \cap Opens : statements[i].name = s
ScopeOf(I, s) ==
  [ports |-> IF s = Root THEN <<>> ELSE Positional(statements[Opening(I, s)].tokens),
   defaults |-> IF s = Root THEN <<>> ELSE Parameters(Trailing(statements[Opening(I, s)].tokens)),
   elements |-> ElementsIn(I, s)]
ScopeNames(I) == {Root} \cup {statements[i].name : i \in I \cap Opens}
GlobalLines(I) == {i \in I : statements[i].op = ".global"}
GlobalsOf(I) == {Plain("0")} \cup UNION {ToSet(statements[i].tokens) : i \in GlobalLines(I)}
ScopesAfter(I) == [s \in ScopeNames(I) |-> ScopeOf(I, s)]
After(I, c) ==
  [scopes |-> ScopesAfter(I), current |-> c, globals |-> GlobalsOf(I),
   count |-> Cardinality(ElementsOf(I)), verdict |-> "reading"]

\* Lines that can have been read: with a line the one that opens its block, and
\* no name twice in one place.
Whole(I) ==
  /\ I \subseteq DOMAIN statements
  /\ \A i \in I : Block(i) \in {0} \cup I
  /\ \A i \in I \cap Opens : statements[i].name # Root
  /\ \A i, j \in I \cap Opens : statements[i].name = statements[j].name => i = j
  /\ \A i, j \in ElementsOf(I) : Owner(i) = Owner(j) /\ statements[i].name = statements[j].name => i = j

\* Line n passes the checks where it stands.
Fine(n) == StatementFailure(After(1..(n - 1), Owner(n)), statements[n]) = Passed
Read(k) == Whole(1..k) /\ \A n \in 1..k : Fine(n)

\* The parser holds what it has read.
OrderInv ==
  /\ parser.verdict = "reading" => Read(at - 1) /\ parser = After(1..(at - 1), Owner(at))
  /\ parser.verdict = "accepted" =>
       LET n == Len(statements)
       IN  Read(n) /\ Owner(n + 1) = Root /\ parser = Ended(After(1..n, Root))

\* The text is read in the order s of its lines: Earlier(s, n) before the n-th.
Earlier(s, n) == {s[m] : m \in 1..(n - 1)}
IsParse(text, f) == f = [n \in 0..Len(text) |-> IF n = 0 THEN Start ELSE Step(f[n - 1], text[n])]
ParseOf(text) == CHOOSE f : IsParse(text, f)

LEMMA HeldFacts ==
  ASSUME NEW I, Whole(I), NEW s, NEW i \in Held(I, s)
  PROVE  /\ statements[i].name \in DOMAIN ElementsIn(I, s)
         /\ ElementsIn(I, s)[statements[i].name] = Element(statements[i])
<1> DEFINE e == statements[i].name
           k == Holder(I, s, e)
<1>1. k \in Held(I, s) /\ statements[k].name = e
  BY DEF Holder
<1>2. \A j \in Held(I, s) : statements[j].name = e => j = i
  BY DEF Whole, Held
<1>3. k = i
  BY <1>1, <1>2
<1>4. e \in {statements[j].name : j \in Held(I, s)}
  OBVIOUS
<1>5. ElementsIn(I, s)[e] = Element(statements[k])
  BY <1>4 DEF ElementsIn
<1>6. QED
  BY <1>3, <1>4, <1>5 DEF ElementsIn

LEMMA OpeningFacts ==
  ASSUME NEW I, Whole(I), NEW i \in I \cap Opens
  PROVE  Opening(I, statements[i].name) = i /\ statements[i].name # Root
<1> DEFINE k == Opening(I, statements[i].name)
<1>1. k \in I \cap Opens /\ statements[k].name = statements[i].name
  BY DEF Opening
<1> HIDE DEF k
<1>2. k = i
  BY <1>1 DEF Whole
<1>3. QED
  BY <1>2 DEF Whole, k

\* Two texts of which a scope has the same lines.
LEMMA SameScope ==
  ASSUME NEW I, NEW J, Whole(I), Whole(J), I \subseteq J, NEW s \in ScopeNames(I), Held(J, s) = Held(I, s)
  PROVE  ScopeOf(J, s) = ScopeOf(I, s)
<1>1. ElementsIn(J, s) = ElementsIn(I, s)
  BY DEF ElementsIn, Holder
<1>2. s # Root => Opening(J, s) = Opening(I, s)
  <2>1. SUFFICES ASSUME s # Root PROVE Opening(J, s) = Opening(I, s)
    OBVIOUS
  <2>2. PICK i \in I \cap Opens : statements[i].name = s
    BY <2>1 DEF ScopeNames
  <2>3. i \in J \cap Opens
    BY <2>2
  <2>4. QED
    BY <2>2, <2>3, OpeningFacts
<1>3. QED
  BY <1>1, <1>2 DEF ScopeOf

LEMMA NoElements ==
  ASSUME NEW I, NEW s, Held(I, s) = {}
  PROVE  ElementsIn(I, s) = <<>>
<1>1. {statements[i].name : i \in Held(I, s)} = {}
  OBVIOUS
<1> DEFINE names == {statements[i].name : i \in Held(I, s)}
           of(e) == Element(statements[Holder(I, s, e)])
<1>2. ElementsIn(I, s) = [e \in names |-> of(e)]
  BY DEF ElementsIn
<1>3. names = {}
  BY <1>1
<1> HIDE DEF names, of
<1>4. QED
  BY <1>2, <1>3, SMT

\* Where a line that is not yet read belongs.
LEMMA OwnerIsKnown ==
  ASSUME NEW I, NEW n, Block(n) \in {0} \cup I, Block(n) # 0 => Block(n) \in Opens
  PROVE  Owner(n) \in ScopeNames(I)
BY DEF Owner, ScopeNames

LEMMA BlockOpens ==
  ASSUME IsText(statements), NEW i \in DOMAIN statements
  PROVE  i \in 1..Len(statements) /\ i # 0 /\ (Block(i) # 0 => Block(i) \in Opens)
<1>1. i \in 1..Len(statements) /\ Len(statements) \in Nat
  BY DEF IsText
<1>2. i \in 1..(Len(statements) + 1) /\ i # 0
  BY <1>1
<1>3. QED
  BY <1>1, <1>2, BlockFacts

LEMMA ElementsAreAFunction ==
  ASSUME NEW I, NEW s
  PROVE  ElementsIn(I, s) = [e \in DOMAIN ElementsIn(I, s) |-> ElementsIn(I, s)[e]]
<1> DEFINE names == {statements[i].name : i \in Held(I, s)}
           of(e) == Element(statements[Holder(I, s, e)])
           f == ElementsIn(I, s)
<1>1. f = [e \in names |-> of(e)]
  BY DEF ElementsIn
<1> HIDE DEF names, of, f
<1>2. QED
  BY <1>1 DEF f

LEMMA OpeningAdds ==
  ASSUME IsText(statements), NEW I, NEW n, n \notin I, Whole(I), Whole(I \cup {n}), n \in Opens, Owner(n) = Root
  PROVE  Taken(After(I, Owner(n)), statements[n]) = After(I \cup {n}, statements[n].name)
<1> DEFINE J == I \cup {n}
           line == statements[n]
           scope == [ports |-> Positional(line.tokens), defaults |-> Parameters(Trailing(line.tokens)),
                     elements |-> <<>>]
           old == ScopesAfter(I)
           new == ScopesAfter(J)
<1>1. n \in DOMAIN statements /\ line.op = ".subckt" /\ n \in J \cap Opens
  BY DEF Opens
<1>2. ElementsOf(J) = ElementsOf(I) /\ GlobalLines(J) = GlobalLines(I)
  BY <1>1 DEF ElementsOf, GlobalLines
<1>3. \A s : Held(J, s) = Held(I, s)
  BY <1>2 DEF Held
<1>4. ScopeNames(J) = ScopeNames(I) \cup {line.name}
  BY <1>1 DEF ScopeNames
<1>5. line.name # Root
  BY <1>1, OpeningFacts
<1>6. line.name \notin ScopeNames(I)
  <2>1. \A i \in I \cap Opens : statements[i].name # line.name
    BY <1>1 DEF Whole
  <2>2. QED
    BY <1>5, <2>1 DEF ScopeNames
<1>7. \A s \in ScopeNames(I) : ScopeOf(J, s) = ScopeOf(I, s)
  BY <1>3, SameScope
<1>8. Held(J, line.name) = {}
  <2>1. SUFFICES ASSUME NEW i \in Held(I, line.name) PROVE FALSE
    BY <1>3
  <2>2. i \in I /\ Owner(i) = line.name /\ i \in DOMAIN statements
    BY DEF Held, ElementsOf, Whole
  <2>3. Block(i) # 0 /\ statements[Block(i)].name = line.name
    BY <1>5, <2>2 DEF Owner
  <2>4. Block(i) \in I \cap Opens
    BY <2>2, <2>3, BlockOpens DEF Whole
  <2>5. QED
    BY <1>6, <2>3, <2>4 DEF ScopeNames
<1>9. ScopeOf(J, line.name) = scope
  <2>1. ElementsIn(J, line.name) = <<>>
    BY <1>8, NoElements
  <2>2. Opening(J, line.name) = n
    BY <1>1, OpeningFacts
  <2>3. QED
    BY <1>5, <2>1, <2>2 DEF ScopeOf
<1>10. Taken(After(I, Owner(n)), line) =
         [After(I, Owner(n)) EXCEPT !.current = line.name, !.scopes = Entered(old, line.name, scope)]
  BY <1>1 DEF Taken, After
<1> HIDE DEF scope
<1>11. Entered(old, line.name, scope) = new
  <2>1. Entered(old, line.name, scope) =
          [s \in ScopeNames(I) \cup {line.name} |-> IF s = line.name THEN scope ELSE old[s]]
    BY DEF Entered, ScopesAfter
  <2>2. \A s \in ScopeNames(J) : ScopeOf(J, s) = IF s = line.name THEN scope ELSE old[s]
    BY <1>4, <1>6, <1>7, <1>9 DEF ScopesAfter
  <2> HIDE DEF J
  <2>3. QED
    BY <1>4, <2>1, <2>2 DEF ScopesAfter
<1>12. GlobalsOf(J) = GlobalsOf(I)
  BY <1>2 DEF GlobalsOf
<1>13. QED
  BY <1>2, <1>10, <1>11, <1>12 DEF After

LEMMA ElementAdds ==
  ASSUME IsText(statements), NEW I, NEW n, n \notin I, Whole(I), Whole(I \cup {n}), statements[n].op = "element",
         IsFiniteSet(I)
  PROVE  Taken(After(I, Owner(n)), statements[n]) = After(I \cup {n}, Owner(n))
<1> DEFINE J == I \cup {n}
           line == statements[n]
           c == Owner(n)
           old == ScopesAfter(I)
           new == ScopesAfter(J)
           grown == Entered(ElementsIn(I, c), line.name, Element(line))
<1>1. n \in DOMAIN statements /\ n \notin Opens /\ n # 0
  BY BlockOpens DEF Whole, Opens
<1>2. ElementsOf(J) = ElementsOf(I) \cup {n} /\ n \notin ElementsOf(I) /\ GlobalLines(J) = GlobalLines(I)
  BY DEF ElementsOf, GlobalLines
<1>3. ScopeNames(J) = ScopeNames(I) /\ GlobalsOf(J) = GlobalsOf(I)
  BY <1>1, <1>2 DEF ScopeNames, GlobalsOf
<1>4. c \in ScopeNames(I)
  <2>1. Block(n) \in {0} \cup J /\ (Block(n) # 0 => Block(n) \in Opens)
    BY <1>1, BlockOpens DEF Whole
  <2>2. Block(n) \in {0} \cup I
    BY <1>1, <2>1
  <2>3. QED
    BY <2>1, <2>2, OwnerIsKnown
<1>5. \A s : s # c => Held(J, s) = Held(I, s)
  BY <1>2 DEF Held
<1>6. \A s \in ScopeNames(I) : s # c => ScopeOf(J, s) = ScopeOf(I, s)
  BY <1>5, SameScope
<1>7. Held(J, c) = Held(I, c) \cup {n}
  BY <1>2 DEF Held
<1>8. line.name \notin DOMAIN ElementsIn(I, c)
  <2>1. \A i \in Held(I, c) : statements[i].name # line.name
    BY <1>2 DEF Held, Whole
  <2>2. QED
    BY <2>1 DEF ElementsIn
<1>9. ElementsIn(J, c) = grown
  <2>1. DOMAIN ElementsIn(J, c) = DOMAIN ElementsIn(I, c) \cup {line.name}
    BY <1>7 DEF ElementsIn
  <2>2. ASSUME NEW e \in DOMAIN ElementsIn(I, c) PROVE ElementsIn(J, c)[e] = ElementsIn(I, c)[e]
    <3>1. PICK i \in Held(I, c) : statements[i].name = e
      BY DEF ElementsIn
    <3>2. i \in Held(J, c)
      BY <1>7
    <3>3. QED
      BY <3>1, <3>2, HeldFacts
  <2>3. ElementsIn(J, c)[line.name] = Element(line)
    <3>1. n \in Held(J, c)
      BY <1>7
    <3>2. QED
      BY <3>1, HeldFacts
  <2>4. ElementsIn(J, c) = [e \in DOMAIN ElementsIn(J, c) |-> ElementsIn(J, c)[e]]
    BY ElementsAreAFunction
  <2>5. grown = [e \in DOMAIN ElementsIn(I, c) \cup {line.name} |->
                   IF e = line.name THEN Element(line) ELSE ElementsIn(I, c)[e]]
    BY DEF Entered
  <2> HIDE DEF J, c, line
  <2>6. QED
    BY <2>1, <2>2, <2>3, <2>4, <2>5
<1> HIDE DEF grown
<1>10. ScopeOf(J, c) = [ScopeOf(I, c) EXCEPT !.elements = grown]
  <2>1. c # Root => Opening(J, c) = Opening(I, c)
    <3>1. SUFFICES ASSUME c # Root PROVE Opening(J, c) = Opening(I, c)
      OBVIOUS
    <3>2. PICK i \in I \cap Opens : statements[i].name = c
      BY <1>4, <3>1 DEF ScopeNames
    <3>3. i \in J \cap Opens
      BY <3>2
    <3>4. QED
      BY <3>2, <3>3, OpeningFacts
  <2>2. QED
    BY <1>9, <2>1 DEF ScopeOf
<1>11. Taken(After(I, c), line) = [After(I, c) EXCEPT !.count = @ + 1, !.scopes[c].elements = grown]
  <2>1. After(I, c).scopes[After(I, c).current].elements = ElementsIn(I, c) /\ After(I, c).current = c
    BY <1>4 DEF After, ScopeOf, ScopesAfter
  <2>2. QED
    BY <2>1 DEF Taken, grown
<1>12. new = [old EXCEPT ![c] = [ScopeOf(I, c) EXCEPT !.elements = grown]]
  <2> DEFINE more == [ScopeOf(I, c) EXCEPT !.elements = grown]
  <2>1. ScopeOf(J, c) = more
    BY <1>10
  <2>2. \A s \in ScopeNames(I) : old[s] = ScopeOf(I, s)
    BY DEF ScopesAfter
  <2> HIDE DEF more, c, J
  <2>3. new = [s \in ScopeNames(I) |-> ScopeOf(J, s)]
    BY <1>3 DEF ScopesAfter
  <2> HIDE DEF new, old
  <2>4. \A s \in ScopeNames(I) : ScopeOf(J, s) = IF s = c THEN more ELSE old[s]
    BY <1>6, <2>1, <2>2
  <2>5. new = [s \in ScopeNames(I) |-> IF s = c THEN more ELSE old[s]]
    BY <2>3, <2>4
  <2>6. DOMAIN old = ScopeNames(I) /\ old = [s \in DOMAIN old |-> old[s]]
    BY DEF old, ScopesAfter
  <2>7. new = [old EXCEPT ![c] = more]
    BY <2>5, <2>6
  <2>8. QED
    BY <2>7 DEF more
<1>13. Cardinality(ElementsOf(J)) = Cardinality(ElementsOf(I)) + 1
  <2>1. IsFiniteSet(ElementsOf(I))
    BY FS_Subset DEF ElementsOf
  <2>2. QED
    BY <1>2, <2>1, FS_AddElement
<1>14. [After(I, c) EXCEPT !.count = @ + 1, !.scopes[c].elements = grown]
         = [After(I, c) EXCEPT !.count = Cardinality(ElementsOf(J)), !.scopes = new]
  <2>1. After(I, c).scopes = old /\ old[c] = ScopeOf(I, c)
    BY <1>4 DEF After, ScopesAfter
  <2>2. After(I, c).count = Cardinality(ElementsOf(I))
    BY DEF After
  <2> HIDE DEF c, J, old, new
  <2>3. QED
    BY <1>12, <1>13, <2>1, <2>2
<1>15. QED
  BY <1>3, <1>11, <1>14 DEF After

LEMMA OtherAdds ==
  ASSUME IsText(statements), NEW I, NEW n \in DOMAIN statements, n \notin I, Whole(I), Whole(I \cup {n}),
         statements[n].op \notin {".subckt", "element"}
  PROVE  Taken(After(I, Owner(n)), statements[n])
           = After(I \cup {n}, IF statements[n].op = ".ends" THEN Root ELSE Owner(n))
<1> DEFINE J == I \cup {n}
           line == statements[n]
           c == Owner(n)
<1>1. n \notin Opens
  BY DEF Opens
<1>2. ElementsOf(J) = ElementsOf(I) /\ ScopeNames(J) = ScopeNames(I)
  BY <1>1 DEF ElementsOf, ScopeNames
<1>3. \A s \in ScopeNames(I) : ScopeOf(J, s) = ScopeOf(I, s)
  <2>1. \A s : Held(J, s) = Held(I, s)
    BY <1>2 DEF Held
  <2>2. QED
    BY <2>1, SameScope
<1>4. ScopesAfter(J) = ScopesAfter(I)
  BY <1>2, <1>3 DEF ScopesAfter
<1> DEFINE read(d, g) ==
             [scopes |-> ScopesAfter(I), current |-> d, globals |-> g, count |-> Cardinality(ElementsOf(I)),
              verdict |-> "reading"]
<1>5. After(I, c) = read(c, GlobalsOf(I)) /\ \A d : After(J, d) = read(d, GlobalsOf(J))
  BY <1>2, <1>4 DEF After
<1>6. CASE line.op = ".ends"
  <2>1. GlobalLines(J) = GlobalLines(I)
    BY <1>6 DEF GlobalLines
  <2>2. GlobalsOf(J) = GlobalsOf(I)
    BY <2>1 DEF GlobalsOf
  <2>3. Taken(After(I, c), line) = read(Root, GlobalsOf(I))
    BY <1>6 DEF Taken, Closed, After
  <2>4. QED
    BY <1>5, <1>6, <2>2, <2>3
<1>7. CASE line.op = ".global"
  <2>1. GlobalLines(J) = GlobalLines(I) \cup {n}
    BY <1>7 DEF GlobalLines
  <2>2. GlobalsOf(J) = GlobalsOf(I) \cup ToSet(line.tokens)
    BY <2>1 DEF GlobalsOf
  <2>3. Taken(After(I, c), line) = read(c, GlobalsOf(I) \cup ToSet(line.tokens))
    BY <1>7 DEF Taken, After
  <2>4. QED
    BY <1>5, <1>7, <2>2, <2>3
<1>8. CASE line.op \notin {".ends", ".global"}
  <2>1. GlobalLines(J) = GlobalLines(I)
    BY <1>8 DEF GlobalLines
  <2>2. GlobalsOf(J) = GlobalsOf(I)
    BY <2>1 DEF GlobalsOf
  <2>3. Taken(After(I, c), line) = After(I, c)
    BY <1>8 DEF Taken
  <2>4. QED
    BY <1>5, <1>8, <2>2, <2>3
<1>9. QED
  BY <1>6, <1>7, <1>8

\* One more line, wherever it is read: where it leaves the parser.
LEMMA LineAdds ==
  ASSUME IsText(statements), NEW I, IsFiniteSet(I), NEW n \in DOMAIN statements, n \notin I, Whole(I), Whole(I \cup {n}),
         n \in Opens => Owner(n) = Root
  PROVE  Taken(After(I, Owner(n)), statements[n]) = After(I \cup {n}, Owner(n + 1))
<1>1. n \in 1..Len(statements) /\ n # 0
  BY BlockOpens
<1>2. /\ n \in Opens => Owner(n + 1) = statements[n].name
      /\ n \in Closes => Owner(n + 1) = Root
      /\ n \notin Opens \cup Closes => Owner(n + 1) = Owner(n)
  BY <1>1, BlockOfNext DEF Owner
<1>3. CASE statements[n].op = ".subckt"
  BY <1>2, <1>3, OpeningAdds DEF Opens
<1>4. CASE statements[n].op = "element"
  BY <1>2, <1>4, ElementAdds DEF Opens, Closes
<1>5. CASE statements[n].op \notin {".subckt", "element"}
  BY <1>2, <1>5, OtherAdds DEF Opens, Closes
<1>6. QED
  BY <1>3, <1>4, <1>5

LEMMA OneMoreRead ==
  ASSUME IsText(statements), NEW k \in 1..Len(statements), Read(k - 1), Fine(k)
  PROVE  /\ Read(k) /\ (k \in Opens => Owner(k) = Root)
         /\ Taken(After(1..(k - 1), Owner(k)), statements[k]) = After(1..k, Owner(k + 1))
<1> DEFINE I == 1..(k - 1)
           line == statements[k]
           p == After(I, Owner(k))
<1>1. /\ Len(statements) \in Nat /\ DOMAIN statements = 1..Len(statements) /\ k \in DOMAIN statements
      /\ 1..k = I \cup {k} /\ k \notin I
  BY DEF IsText
<1>2. Whole(I) /\ (\A n \in I : Fine(n)) /\ StatementFailure(p, line) = Passed
  BY DEF Read, Fine
<1>3. p.current = Owner(k) /\ p.scopes = ScopesAfter(I) /\ DOMAIN p.scopes = ScopeNames(I)
  BY DEF After, ScopesAfter
<1>4. \A i \in 1..k : Block(i) \in {0} \cup I
  <2>1. ASSUME NEW i \in 1..k PROVE Block(i) \in {0} \cup I
    <3>1. i \in 1..(Len(statements) + 1)
      BY <1>1
    <3>2. Block(i) # 0 => Block(i) \in Opens /\ Block(i) < i
      BY <3>1, BlockFacts
    <3>3. Opens \subseteq 1..Len(statements)
      BY <1>1 DEF Opens
    <3> DEFINE b == Block(i)
    <3>4. b = 0 \/ (b \in 1..Len(statements) /\ b < i)
      BY <3>2, <3>3
    <3> HIDE DEF b
    <3>5. b = 0 \/ b \in 1..(k - 1)
      BY <1>1, <3>4
    <3>6. QED
      BY <3>5 DEF b
  <2>2. QED
    BY <2>1
<1> HIDE DEF I
<1>5. IsFiniteSet(I)
  <2>1. k - 1 \in Int
    BY <1>1
  <2>2. QED
    BY <2>1, FS_Interval DEF I
<1>6. k \in Opens => Owner(k) = Root /\ line.name # Root /\ \A i \in I \cap Opens : statements[i].name # line.name
  <2>1. SUFFICES ASSUME k \in Opens PROVE Owner(k) = Root /\ line.name # Root /\ line.name \notin ScopeNames(I)
    BY DEF ScopeNames
  <2>2. line.op = ".subckt"
    BY <2>1 DEF Opens
  <2> HIDE DEF p
  <2>3. QED
    BY <1>2, <1>3, <2>2, OpeningIsChecked
<1>7. line.op = "element" => \A i \in ElementsOf(I) : Owner(i) = Owner(k) => statements[i].name # line.name
  <2>1. SUFFICES ASSUME line.op = "element", NEW i \in ElementsOf(I), Owner(i) = Owner(k), statements[i].name = line.name
                 PROVE  FALSE
    OBVIOUS
  <2>2. i \in Held(I, Owner(k))
    BY <2>1 DEF Held
  <2>3. line.name \in DOMAIN ElementsIn(I, Owner(k))
    BY <1>2, <2>1, <2>2, HeldFacts
  <2>4. Owner(k) \in ScopeNames(I)
    <3>1. Block(k) \in {0} \cup I
      BY <1>1, <1>4
    <3>2. Block(k) # 0 => Block(k) \in Opens
      BY <1>1, BlockOpens
    <3>3. QED
      BY <3>1, <3>2, OwnerIsKnown
  <2>5. p.scopes[p.current].elements = ElementsIn(I, Owner(k))
    BY <1>3, <2>4 DEF ScopesAfter, ScopeOf
  <2> HIDE DEF p
  <2>6. line.name \notin DOMAIN p.scopes[p.current].elements
    BY <1>2, <2>1, ElementIsChecked
  <2>7. QED
    BY <2>3, <2>5, <2>6
<1> HIDE DEF p
<1>8. Whole(I \cup {k})
  <2>1. I \cup {k} \subseteq DOMAIN statements
    BY <1>1, <1>2 DEF Whole
  <2>2. \A i \in I \cup {k} : Block(i) \in {0} \cup (I \cup {k})
    BY <1>1, <1>4
  <2>3. \A i \in (I \cup {k}) \cap Opens : statements[i].name # Root
    BY <1>2, <1>6 DEF Whole
  <2>4. \A i, j \in (I \cup {k}) \cap Opens : statements[i].name = statements[j].name => i = j
    BY <1>2, <1>6 DEF Whole
  <2>5. \A i, j \in ElementsOf(I \cup {k}) : Owner(i) = Owner(j) /\ statements[i].name = statements[j].name => i = j
    <3>1. \A i \in ElementsOf(I \cup {k}) : i \in ElementsOf(I) \/ (i = k /\ line.op = "element")
      BY DEF ElementsOf
    <3>2. \A i, j \in ElementsOf(I) : Owner(i) = Owner(j) /\ statements[i].name = statements[j].name => i = j
      BY <1>2 DEF Whole
    <3>3. QED
      BY <1>7, <3>1, <3>2
  <2>6. QED
    BY <2>1, <2>2, <2>3, <2>4, <2>5 DEF Whole
<1>9. Taken(After(I, Owner(k)), line) = After(I \cup {k}, Owner(k + 1))
  BY <1>1, <1>2, <1>5, <1>6, <1>8, LineAdds
<1>10. Read(k)
  BY <1>1, <1>2, <1>8 DEF Read
<1>11. QED
  BY <1>1, <1>6, <1>9, <1>10 DEF I

LEMMA SameReading ==
  ASSUME statements' = statements, limits' = limits
  PROVE  /\ \A i : (Owner(i))' = Owner(i)
         /\ \A I, c : (After(I, c))' = After(I, c)
         /\ \A k : (Read(k))' <=> Read(k)
<1>1. Opens' = Opens /\ Closes' = Closes
  BY DEF Opens, Closes
<1>2. \A i : (Block(i))' = Block(i)
  BY <1>1 DEF Block
<1>3. \A i : (Owner(i))' = Owner(i)
  BY <1>2 DEF Owner
<1>4. \A I : (ElementsOf(I))' = ElementsOf(I)
  BY DEF ElementsOf
<1>5. \A I, s : (Held(I, s))' = Held(I, s)
  BY <1>3, <1>4 DEF Held
<1>6. \A I, s : (ElementsIn(I, s))' = ElementsIn(I, s)
  <2>1. \A I, s, e : (Holder(I, s, e))' = Holder(I, s, e)
    BY <1>5 DEF Holder
  <2>2. ASSUME NEW I, NEW s PROVE (ElementsIn(I, s))' = ElementsIn(I, s)
    BY <1>5, <2>1 DEF ElementsIn
  <2>3. QED
    BY <2>2
<1>7. \A I, s : (Opening(I, s))' = Opening(I, s)
  BY <1>1 DEF Opening
<1>8. \A I, s : (ScopeOf(I, s))' = ScopeOf(I, s)
  BY <1>6, <1>7 DEF ScopeOf
<1>9. \A I : (ScopeNames(I))' = ScopeNames(I)
  BY <1>1 DEF ScopeNames
<1>10. \A I : (ScopesAfter(I))' = ScopesAfter(I)
  BY <1>8, <1>9 DEF ScopesAfter
<1>11. \A I : (GlobalsOf(I))' = GlobalsOf(I)
  BY DEF GlobalsOf, GlobalLines
<1>12. \A I, c : (After(I, c))' = After(I, c)
  BY <1>4, <1>10, <1>11 DEF After
<1>13. \A p, line : (StatementFailure(p, line))' = StatementFailure(p, line)
  BY DEF StatementFailure
<1>14. \A n : (Fine(n))' <=> Fine(n)
  BY <1>3, <1>12, <1>13 DEF Fine
<1>15. \A I : (Whole(I))' <=> Whole(I)
  BY <1>1, <1>2, <1>3, <1>4 DEF Whole
<1>16. \A k : (Read(k))' <=> Read(k)
  BY <1>14, <1>15 DEF Read
<1>17. QED
  BY <1>3, <1>12, <1>16

LEMMA NothingRead == IsText(statements) => Read(0) /\ After(1..0, Owner(1)) = Start /\ Block(1) = 0
<1> SUFFICES ASSUME IsText(statements) PROVE Read(0) /\ After(1..0, Owner(1)) = Start /\ Block(1) = 0
  OBVIOUS
<1>1. 1 \in 1..(Len(statements) + 1) /\ Len(statements) \in Nat
  BY DEF IsText
<1>2. 1..0 = {}
  OBVIOUS
<1>3. Read(0)
  BY <1>2 DEF Read, Whole, ElementsOf
<1>4. Block(1) = 0 /\ Owner(1) = Root
  <2>1. Block(1) # 0 => Block(1) \in Opens /\ Block(1) < 1
    BY <1>1, BlockFacts
  <2>2. Opens \subseteq 1..Len(statements)
    BY DEF Opens, IsText
  <2> DEFINE b == Block(1)
  <2>3. b = 0 \/ (b \in 1..Len(statements) /\ b < 1)
    BY <2>1, <2>2
  <2> HIDE DEF b
  <2>4. b = 0
    BY <1>1, <2>3
  <2>5. QED
    BY <2>4 DEF Owner, b
<1>5. ElementsOf({}) = {} /\ GlobalLines({}) = {} /\ \A s : Held({}, s) = {}
  BY DEF ElementsOf, GlobalLines, Held
<1>6. ElementsIn({}, Root) = <<>>
  BY <1>5, NoElements
<1>7. ScopeOf({}, Root) = [ports |-> <<>>, defaults |-> <<>>, elements |-> <<>>]
  BY <1>6 DEF ScopeOf
<1>8. ScopeNames({}) = {Root}
  BY DEF ScopeNames
<1>9. ScopesAfter({}) = [s \in {Root} |-> [ports |-> <<>>, defaults |-> <<>>, elements |-> <<>>]]
  BY <1>7, <1>8 DEF ScopesAfter
<1>10. GlobalsOf({}) = {Plain("0")}
  BY <1>5 DEF GlobalsOf
<1>11. Cardinality(ElementsOf({})) = 0
  BY <1>5, FS_EmptySet
<1>12. QED
  BY <1>2, <1>3, <1>4, <1>9, <1>10, <1>11 DEF After, Start

LEMMA NothingReadNext == IsText(statements)' => (Read(0) /\ After(1..0, Owner(1)) = Start)'
BY NothingRead, PTL

LEMMA StatementRead ==
  ASSUME IsText(statements), at \in 1..(Len(statements) + 1), OrderInv, limits' = limits, ReadStatement
  PROVE  OrderInv'
<1> DEFINE line == statements[at]
           v == StatementFailure(parser, line)
<1>1. /\ parser.verdict = "reading" /\ at <= Len(statements) /\ parser' = Step(parser, line)
      /\ at' = at + 1 /\ statements' = statements
  BY DEF ReadStatement
<1>2. Read(at - 1) /\ parser = After(1..(at - 1), Owner(at))
  BY <1>1 DEF OrderInv
<1>3. at \in 1..Len(statements) /\ at + 1 - 1 = at
  BY <1>1 DEF IsText
<1>4. CASE v # Passed
  <2>1. parser' = [parser EXCEPT !.verdict = v]
    BY <1>1, <1>4 DEF Step
  <2>2. IsRefusal(v)
    BY StatementRefusal
  <2> HIDE DEF v
  <2>3. parser'.verdict = v
    BY <1>2, <2>1 DEF After
  <2>4. QED
    BY <2>2, <2>3 DEF IsRefusal, ParserStates, OrderInv
<1>5. CASE v = Passed
  <2>1. parser' = Taken(parser, line)
    BY <1>1, <1>5 DEF Step
  <2>2. Fine(at)
    BY <1>2, <1>5 DEF Fine
  <2>3. Read(at) /\ Taken(After(1..(at - 1), Owner(at)), line) = After(1..at, Owner(at + 1))
    BY <1>2, <1>3, <2>2, OneMoreRead
  <2>4. parser' = After(1..at, Owner(at + 1))
    BY <1>2, <2>1, <2>3
  <2>5. parser'.verdict = "reading"
    BY <2>4 DEF After
  <2>6. /\ \A i : (Owner(i))' = Owner(i)
        /\ \A I, c : (After(I, c))' = After(I, c)
        /\ \A k : (Read(k))' <=> Read(k)
    BY <1>1, SameReading
  <2>7. at' - 1 = at
    BY <1>1, <1>3
  <2>8. (Read(at - 1))' /\ (After(1..(at - 1), Owner(at)))' = After(1..at, Owner(at + 1))
    BY <1>1, <2>3, <2>6, <2>7
  <2>9. QED
    BY <2>4, <2>5, <2>8 DEF OrderInv
<1>6. QED
  BY <1>4, <1>5

LEMMA TextRead ==
  ASSUME IsText(statements), at \in 1..(Len(statements) + 1), OrderInv, limits' = limits, EndParse
  PROVE  OrderInv'
<1> DEFINE n == Len(statements)
<1>1. /\ parser.verdict = "reading" /\ at > n /\ parser' = Ended(parser)
      /\ at' = at /\ statements' = statements
  BY DEF EndParse
<1>2. Read(at - 1) /\ parser = After(1..(at - 1), Owner(at))
  BY <1>1 DEF OrderInv
<1>3. at = n + 1 /\ at - 1 = n
  BY <1>1 DEF IsText
<1>4. parser = After(1..n, Owner(n + 1)) /\ Read(n)
  BY <1>2, <1>3
<1>5. parser.current = Owner(n + 1) /\ DOMAIN parser = {"scopes", "current", "globals", "count", "verdict"}
  BY <1>4 DEF After
<1>6. parser'.verdict \in {"unclosed", "empty", "accepted"} /\ (parser'.verdict = "accepted" => parser.current = Root)
  BY <1>1, <1>5 DEF Ended
<1>7. /\ \A i : (Owner(i))' = Owner(i)
      /\ \A I, c : (After(I, c))' = After(I, c)
      /\ \A k : (Read(k))' <=> Read(k)
  BY <1>1, SameReading
<1>8. CASE parser'.verdict = "accepted"
  <2>1. Owner(n + 1) = Root
    BY <1>5, <1>6, <1>8
  <2>2. parser' = Ended(After(1..n, Root)) /\ Len(statements') = n
    BY <1>1, <1>4, <2>1
  <2> HIDE DEF n
  <2>3. (Read(Len(statements)) /\ Owner(Len(statements) + 1) = Root
           /\ parser = Ended(After(1..Len(statements), Root)))'
    BY <1>4, <1>7, <2>1, <2>2
  <2>4. QED
    BY <1>8, <2>3 DEF OrderInv
<1>9. CASE parser'.verdict # "accepted"
  BY <1>6, <1>9 DEF OrderInv
<1>10. QED
  BY <1>8, <1>9

LEMMA OrderKeeps == ReadingInv /\ OrderInv /\ [Next]_netlistVars => OrderInv'
<1> SUFFICES ASSUME ReadingInv, OrderInv, [Next]_netlistVars PROVE OrderInv'
  OBVIOUS
<1>1. limits \in {input.limits : input \in Inputs} /\ "verdict" \in DOMAIN parser
      /\ IsText(statements) /\ at \in 1..(Len(statements) + 1)
  BY DEF ReadingInv, TextInv
<1>2. limits' = limits
  BY DEF Next, Reading, StartParse, Parsing, StartBuild, Building, Finished, netlistVars
<1>3. ASSUME UNCHANGED parserVars PROVE OrderInv'
  <2>1. statements' = statements /\ at' = at /\ parser' = parser
    BY <1>3 DEF parserVars
  <2>2. /\ \A i : (Owner(i))' = Owner(i)
        /\ \A I, c : (After(I, c))' = After(I, c)
        /\ \A k : (Read(k))' <=> Read(k)
    BY <1>2, <2>1, SameReading
  <2>3. (Read(at - 1))' <=> Read(at - 1)
    BY <2>1, <2>2
  <2>4. (After(1..(at - 1), Owner(at)))' = After(1..(at - 1), Owner(at))
    BY <2>1, <2>2
  <2>5. /\ (Read(Len(statements)))' <=> Read(Len(statements))
        /\ (Owner(Len(statements) + 1))' = Owner(Len(statements) + 1)
        /\ (After(1..Len(statements), Root))' = After(1..Len(statements), Root)
    BY <2>1, <2>2
  <2>6. QED
    BY <2>1, <2>3, <2>4, <2>5 DEF OrderInv
<1>4. CASE StartParse
  <2>1. PICK text \in Says(limits) : StartParsing(text)
    BY <1>4 DEF StartParse
  <2>2. IsText(text)
    BY <1>1, <2>1, TextAssumption
  <2>3. statements' = text /\ at' = 1 /\ parser' = Start
    BY <2>1 DEF StartParsing, ReadingInv, TextInv
  <2>4. IsText(statements)'
    BY <2>2, <2>3 DEF IsText
  <2>5. (Read(0))' /\ (After(1..0, Owner(1)))' = Start
    BY <2>4, NothingReadNext
  <2>6. parser'.verdict = "reading" /\ at' - 1 = 0
    BY <2>3 DEF Start
  <2>7. (Read(at - 1))' /\ (After(1..(at - 1), Owner(at)))' = Start
    BY <2>3, <2>5, <2>6
  <2>8. QED
    BY <2>3, <2>6, <2>7 DEF OrderInv
<1>5. CASE Parsing
  BY <1>1, <1>2, <1>5, StatementRead, TextRead DEF Parsing, ParserNext
<1>6. CASE StartBuild
  <2>1. parser' = [parser EXCEPT !.verdict = "returned"]
    BY <1>6 DEF StartBuild
  <2>2. parser'.verdict = "returned"
    BY <1>1, <2>1
  <2>3. QED
    BY <2>2 DEF OrderInv
<1>7. CASE Reading \/ Building \/ Finished \/ UNCHANGED netlistVars
  <2>1. UNCHANGED parserVars
    BY <1>7 DEF Reading, Building, Finished, netlistVars
  <2>2. QED
    BY <1>3, <2>1
<1>8. QED
  BY <1>4, <1>5, <1>6, <1>7 DEF Next

LEMMA AllPass ==
  ASSUME NEW n \in Nat, NEW checks, Len(checks) = n, \A i \in 1..n : ~checks[i][1]
  PROVE  FirstFailure(checks) = Passed
<1> DEFINE failing == {i \in 1..Len(checks) : checks[i][1]}
           first == IF failing # {} THEN Min(failing) ELSE 0
<1>1. FirstFailure(checks) = IF first = 0 THEN Passed ELSE checks[first][2]
  BY Zenon DEF FirstFailure, SelectInSeq
<1>2. failing = {}
  BY Zenon
<1>3. first = 0
  BY <1>2
<1>4. QED
  BY <1>1, <1>3

LEMMA FirstOf == ASSUME NEW a, NEW x, NEW c, c = <<a, x>> PROVE c[1] = a
OBVIOUS

LEMMA AllPass3 ==
  ASSUME NEW checks, Len(checks) = 3, NEW a1, NEW a2, NEW a3,
         NEW x1, NEW x2, NEW x3,
         checks[1] = <<a1, x1>>, checks[2] = <<a2, x2>>, checks[3] = <<a3, x3>>,
         ~a1, ~a2, ~a3
  PROVE  FirstFailure(checks) = Passed
<1>1. checks[1][1] = a1 /\ checks[2][1] = a2 /\ checks[3][1] = a3
  OBVIOUS
<1>2. (\A i \in 1..3 : i = 1 \/ i = 2 \/ i = 3) /\ 3 \in Nat
  OBVIOUS
<1>3. \A i \in 1..3 : ~checks[i][1]
  BY <1>1, <1>2, Zenon
<1>4. QED
  BY <1>2, <1>3, AllPass

\* The checks of a line, one by one.
LEMMA OpeningPasses ==
  ASSUME NEW p, NEW line, line.op = ".subckt"
  PROVE  StatementFailure(p, line) = Passed <=>
           /\ p.current = Root /\ line.tokens # <<>> /\ ~IsDefined(p, line.name) /\ SplitFailure(line.tokens) = Passed
           /\ Positional(line.tokens) # <<>> /\ IsInjective(Positional(line.tokens))
           /\ ~(Cardinality(DOMAIN p.scopes) - 1 >= limits.subcircuits)
<1> DEFINE inside == p.current # Root
           short == line.tokens = <<>>
           defined == IsDefined(p, line.name)
           v == SplitFailure(line.tokens)
           unsplit == v # Passed
           ports == Positional(line.tokens) = <<>> \/ ~IsInjective(Positional(line.tokens))
           full == Cardinality(DOMAIN p.scopes) - 1 >= limits.subcircuits
           checks == << <<inside, "nested">>, <<short, "short">>, <<defined, "duplicate subcircuit">>,
                        <<unsplit, v>>, <<ports, "ports">>, <<full, "subcircuits">> >>
<1>1. /\ StatementFailure(p, line) = FirstFailure(checks) /\ Len(checks) = 6
      /\ checks[1] = <<inside, "nested">> /\ checks[2] = <<short, "short">>
      /\ checks[3] = <<defined, "duplicate subcircuit">> /\ checks[4] = <<unsplit, v>>
      /\ checks[5] = <<ports, "ports">> /\ checks[6] = <<full, "subcircuits">>
  BY DEF StatementFailure
<1>2. /\ inside => "nested" # Passed
      /\ short => "short" # Passed
      /\ defined => "duplicate subcircuit" # Passed
      /\ unsplit => v # Passed
      /\ ports => "ports" # Passed
      /\ full => "subcircuits" # Passed
  BY DEF Passed
<1> HIDE DEF inside, short, defined, v, unsplit, ports, full, checks
<1>3. FirstFailure(checks) = Passed => ~inside /\ ~short /\ ~defined /\ ~unsplit /\ ~ports /\ ~full
  BY <1>1, <1>2, NothingFails6, ZenonT(60)
<1>4. ASSUME ~inside, ~short, ~defined, ~unsplit, ~ports, ~full PROVE FirstFailure(checks) = Passed
  <2>1. checks[1][1] = inside /\ checks[2][1] = short /\ checks[3][1] = defined /\ checks[4][1] = unsplit /\ checks[5][1] = ports /\ checks[6][1] = full
    <3>1. checks[1][1] = inside
      <4>1. checks[1] = <<inside, "nested">>
        BY <1>1
      <4>2. QED
        BY <4>1, FirstOf
    <3>2. checks[2][1] = short
      <4>1. checks[2] = <<short, "short">>
        BY <1>1
      <4>2. QED
        BY <4>1, FirstOf
    <3>3. checks[3][1] = defined
      <4>1. checks[3] = <<defined, "duplicate subcircuit">>
        BY <1>1
      <4>2. QED
        BY <4>1, FirstOf
    <3>4. checks[4][1] = unsplit
      <4>1. checks[4] = <<unsplit, v>>
        BY <1>1
      <4>2. QED
        BY <4>1, FirstOf
    <3>5. checks[5][1] = ports
      <4>1. checks[5] = <<ports, "ports">>
        BY <1>1
      <4>2. QED
        BY <4>1, FirstOf
    <3>6. checks[6][1] = full
      <4>1. checks[6] = <<full, "subcircuits">>
        BY <1>1
      <4>2. QED
        BY <4>1, FirstOf
    <3>7. QED
      BY <3>1, <3>2, <3>3, <3>4, <3>5, <3>6
  <2>2. (\A i \in 1..6 : i = 1 \/ i = 2 \/ i = 3 \/ i = 4 \/ i = 5 \/ i = 6) /\ 6 \in Nat
    OBVIOUS
  <2>3. \A i \in 1..6 : ~checks[i][1]
    BY <1>4, <2>1, <2>2, Zenon
  <2>4. QED
    BY <1>1, <2>2, <2>3, AllPass
<1>5. StatementFailure(p, line) = Passed <=> ~inside /\ ~short /\ ~defined /\ ~unsplit /\ ~ports /\ ~full
  BY <1>1, <1>3, <1>4
<1>6. QED
  BY <1>5 DEF inside, short, defined, unsplit, ports, full, v

LEMMA ClosingPasses ==
  ASSUME NEW p, NEW line, line.op = ".ends"
  PROVE  StatementFailure(p, line) = Passed
           <=> p.current # Root /\ line.tokens = <<>> /\ line.name \in {Anonymous, p.current}
<1> DEFINE outside == p.current = Root
           more == line.tokens # <<>>
           other == line.name \notin {Anonymous, p.current}
           checks == << <<outside, "unopened">>, <<more, "names">>, <<other, "mismatch">> >>
<1>1. /\ StatementFailure(p, line) = FirstFailure(checks) /\ Len(checks) = 3
      /\ checks[1] = <<outside, "unopened">> /\ checks[2] = <<more, "names">> /\ checks[3] = <<other, "mismatch">>
  BY DEF StatementFailure
<1>2. "unopened" # Passed /\ "names" # Passed /\ "mismatch" # Passed
  BY DEF Passed
<1> HIDE DEF outside, more, other, checks
<1>3. FirstFailure(checks) = Passed => ~outside /\ ~more /\ ~other
  BY <1>1, <1>2, NothingFails3
<1>4. ~outside /\ ~more /\ ~other => FirstFailure(checks) = Passed
  BY <1>1, AllPass3
<1>5. StatementFailure(p, line) = Passed <=> ~outside /\ ~more /\ ~other
  BY <1>1, <1>3, <1>4
<1>6. QED
  BY <1>5 DEF outside, more, other

LEMMA ElementPasses ==
  ASSUME NEW p, NEW line, line.op = "element"
  PROVE  StatementFailure(p, line) = Passed <=>
           /\ ~(p.count + 1 > limits.elements) /\ line.name \notin DOMAIN p.scopes[p.current].elements
           /\ line.family = "x" => InstanceLineFailure(line) = Passed
           /\ line.family # "x" => PrimitiveFailure(line) = Passed
<1> DEFINE full == p.count + 1 > limits.elements
           twice == line.name \in DOMAIN p.scopes[p.current].elements
           v == InstanceLineFailure(line)
           w == PrimitiveFailure(line)
           instance == line.family = "x" /\ v # Passed
           primitive == line.family # "x" /\ w # Passed
           checks == << <<full, "elements">>, <<twice, "duplicate element">>, <<instance, v>>, <<primitive, w>> >>
<1>1. /\ StatementFailure(p, line) = FirstFailure(checks) /\ Len(checks) = 4
      /\ checks[1] = <<full, "elements">> /\ checks[2] = <<twice, "duplicate element">>
      /\ checks[3] = <<instance, v>> /\ checks[4] = <<primitive, w>>
  BY DEF StatementFailure
<1>2. /\ full => "elements" # Passed
      /\ twice => "duplicate element" # Passed
      /\ instance => v # Passed
      /\ primitive => w # Passed
  BY DEF Passed
<1>3. ~instance /\ ~primitive <=>
        (line.family = "x" => v = Passed) /\ (line.family # "x" => w = Passed)
  OBVIOUS
<1> HIDE DEF full, twice, v, w, instance, primitive, checks
<1>4. FirstFailure(checks) = Passed => ~full /\ ~twice /\ ~instance /\ ~primitive
  BY <1>1, <1>2, NothingFails4, ZenonT(60)
<1>5. ASSUME ~full, ~twice, ~instance, ~primitive PROVE FirstFailure(checks) = Passed
  <2>1. checks[1][1] = full /\ checks[2][1] = twice /\ checks[3][1] = instance /\ checks[4][1] = primitive
    <3>1. checks[1][1] = full
      <4>1. checks[1] = <<full, "elements">>
        BY <1>1
      <4>2. QED
        BY <4>1, FirstOf
    <3>2. checks[2][1] = twice
      <4>1. checks[2] = <<twice, "duplicate element">>
        BY <1>1
      <4>2. QED
        BY <4>1, FirstOf
    <3>3. checks[3][1] = instance
      <4>1. checks[3] = <<instance, v>>
        BY <1>1
      <4>2. QED
        BY <4>1, FirstOf
    <3>4. checks[4][1] = primitive
      <4>1. checks[4] = <<primitive, w>>
        BY <1>1
      <4>2. QED
        BY <4>1, FirstOf
    <3>5. QED
      BY <3>1, <3>2, <3>3, <3>4
  <2>2. (\A i \in 1..4 : i = 1 \/ i = 2 \/ i = 3 \/ i = 4) /\ 4 \in Nat
    OBVIOUS
  <2>3. \A i \in 1..4 : ~checks[i][1]
    BY <1>5, <2>1, <2>2, Zenon
  <2>4. QED
    BY <1>1, <2>2, <2>3, AllPass
<1>6. StatementFailure(p, line) = Passed <=> ~full /\ ~twice /\ ~instance /\ ~primitive
  BY <1>1, <1>4, <1>5
<1>7. QED
  BY <1>3, <1>6 DEF full, twice, v, w

LEMMA OneMoreCounts ==
  ASSUME NEW S, IsFiniteSet(S), NEW x
  PROVE  /\ IsFiniteSet(S \cup {x}) /\ Cardinality(S) \in Nat /\ Cardinality(S \cup {x}) \in Nat
         /\ Cardinality(S \cup {x}) <= Cardinality(S) + 1
         /\ x \notin S => Cardinality(S \cup {x}) = Cardinality(S) + 1
<1>1. IsFiniteSet(S \cup {x}) /\ Cardinality(S) \in Nat
  BY FS_AddElement, FS_CardinalityType
<1>2. Cardinality(S \cup {x}) \in Nat
  BY <1>1, FS_CardinalityType
<1>3. x \notin S => Cardinality(S \cup {x}) = Cardinality(S) + 1
  BY FS_AddElement
<1>4. x \in S => S \cup {x} = S
  OBVIOUS
<1> DEFINE a == Cardinality(S)
           b == Cardinality(S \cup {x})
<1>5. a \in Nat /\ (b = a \/ b = a + 1)
  BY <1>1, <1>3, <1>4
<1> HIDE DEF a, b
<1>6. b <= a + 1
  BY <1>5
<1>7. QED
  BY <1>1, <1>2, <1>3, <1>6 DEF a, b

LEMMA ScopeNamesFinite ==
  ASSUME IsText(statements), NEW J
  PROVE  IsFiniteSet(ScopeNames(J))
<1> DEFINE name == [i \in J \cap Opens |-> statements[i].name]
           K == J \cap Opens
<1>1. Len(statements) \in Nat /\ K \subseteq 1..Len(statements) /\ 1 \in Int
  BY DEF IsText, Opens
<1>2. IsFiniteSet(K)
  <2> DEFINE n == Len(statements)
  <2>1. IsFiniteSet(1..n) /\ K \subseteq 1..n
    <3> HIDE DEF n, K
    <3>1. n \in Int /\ 1 \in Int
      BY <1>1 DEF n
    <3>2. QED
      BY <1>1, <3>1, FS_Interval DEF n
  <2> HIDE DEF K, n
  <2>2. QED
    BY <2>1, FS_Subset
<1>3. IsFiniteSet({name[i] : i \in DOMAIN name})
  <2>1. DOMAIN name = K /\ name = [i \in DOMAIN name |-> name[i]]
    OBVIOUS
  <2>2. IsFiniteSet(DOMAIN name)
    BY <1>2
  <2> HIDE DEF name, K
  <2>3. QED
    BY <2>1, <2>2, ImageIsFinite
<1>4. {name[i] : i \in DOMAIN name} = {statements[i].name : i \in K}
  OBVIOUS
<1>5. ScopeNames(J) = {name[i] : i \in DOMAIN name} \cup {Root}
  BY <1>4 DEF ScopeNames
<1> HIDE DEF name, K
<1>6. QED
  BY <1>3, <1>5, FS_AddElement

LEMMA NamesFit ==
  ASSUME IsText(statements), Read(Len(statements)), limits.subcircuits \in Int,
         NEW n \in Opens, NEW I, n \notin I, I \subseteq DOMAIN statements
  PROVE  ~(Cardinality(ScopeNames(I)) - 1 >= limits.subcircuits)
<1> DEFINE N == Len(statements)
           name(i) == statements[i].name
           m == Max(Opens)
           A == ScopeNames(1..(m - 1))
           B == ScopeNames(I)
<1>1. N \in Nat /\ DOMAIN statements = 1..N /\ Opens \in SUBSET (1..N)
  BY DEF IsText, Opens
<1>2. m \in Opens /\ \A i \in Opens : i <= m
  BY <1>1, MaxFacts
<1>3. Fine(m) /\ Whole(1..N) /\ statements[m].op = ".subckt"
  BY <1>1, <1>2 DEF Read, Opens
<1>4. Cardinality(A) - 1 < limits.subcircuits
  <2>1. ~(Cardinality(A) - 1 >= limits.subcircuits)
    <3> DEFINE p == After(1..(m - 1), Owner(m))
    <3>1. DOMAIN p.scopes = A
      BY DEF After, ScopesAfter
    <3>2. StatementFailure(p, statements[m]) = Passed
      BY <1>3 DEF Fine
    <3> HIDE DEF p, A, m
    <3>3. ~(Cardinality(DOMAIN p.scopes) - 1 >= limits.subcircuits)
      BY <1>3, <3>2, OpeningPasses
    <3>4. QED
      BY <3>1, <3>3
  <2>2. IsFiniteSet(A)
    BY ScopeNamesFinite
  <2>3. Cardinality(A) \in Nat
    BY <2>2, FS_CardinalityType
  <2> HIDE DEF A
  <2>4. QED
    BY <2>1, <2>3
<1>5. IsFiniteSet(A) /\ IsFiniteSet(B)
  BY ScopeNamesFinite
<1> HIDE DEF m, N
<1>6. name(n) \notin B
  <2>1. n \in 1..N /\ I \subseteq 1..N
    BY <1>1
  <2>2. name(n) # Root
    BY <1>3, <2>1 DEF Whole
  <2>3. \A i \in I \cap Opens : name(i) # name(n)
    BY <1>3, <2>1 DEF Whole
  <2>4. QED
    BY <2>2, <2>3 DEF ScopeNames
<1>7. B \cup {name(n)} \subseteq A \cup {name(m)}
  <2>1. ASSUME NEW i \in Opens PROVE name(i) \in A \cup {name(m)}
    <3>1. i = m \/ i \in 1..(m - 1)
      BY <1>1, <1>2
    <3>2. QED
      BY <3>1 DEF ScopeNames
  <2>2. Root \in A
    BY DEF ScopeNames
  <2>3. QED
    BY <2>1, <2>2 DEF ScopeNames
<1> HIDE DEF A, B, name
<1>8. Cardinality(B \cup {name(n)}) = Cardinality(B) + 1
  BY <1>5, <1>6, FS_AddElement
<1>9. IsFiniteSet(A \cup {name(m)}) /\ Cardinality(A \cup {name(m)}) <= Cardinality(A) + 1
  BY <1>5, OneMoreCounts
<1>10. Cardinality(B \cup {name(n)}) <= Cardinality(A \cup {name(m)})
  BY <1>7, <1>9, FS_Subset
<1>11. Cardinality(A) \in Nat /\ Cardinality(B) \in Nat /\ Cardinality(A \cup {name(m)}) \in Nat
  BY <1>5, <1>9, FS_CardinalityType
<1> DEFINE a == Cardinality(A)
           b == Cardinality(B)
           c == Cardinality(A \cup {name(m)})
           l == limits.subcircuits
<1>12. a \in Nat /\ b \in Nat /\ c \in Nat /\ l \in Int /\ a - 1 < l /\ c <= a + 1 /\ b + 1 <= c
  BY <1>4, <1>8, <1>9, <1>10, <1>11
<1> HIDE DEF a, b, c, l
<1>13. ~(b - 1 >= l)
  BY <1>12
<1>14. QED
  BY <1>13 DEF b, l, B

LEMMA ElementsFit ==
  ASSUME IsText(statements), Read(Len(statements)), limits.elements \in Int,
         NEW n \in DOMAIN statements, statements[n].op = "element", NEW I, n \notin I, I \subseteq DOMAIN statements
  PROVE  ~(Cardinality(ElementsOf(I)) + 1 > limits.elements)
<1> DEFINE N == Len(statements)
           E == ElementsOf(1..N)
           m == Max(E)
           A == ElementsOf(1..(m - 1))
           B == ElementsOf(I)
<1>1. N \in Nat /\ DOMAIN statements = 1..N /\ E \in SUBSET (1..N) /\ n \in E
  BY DEF IsText, ElementsOf
<1>2. m \in E /\ \A i \in E : i <= m
  BY <1>1, MaxFacts
<1>3. Fine(m) /\ statements[m].op = "element"
  BY <1>1, <1>2 DEF Read, ElementsOf
<1>4. ~(Cardinality(A) + 1 > limits.elements)
  <2> DEFINE p == After(1..(m - 1), Owner(m))
  <2>1. p.count = Cardinality(A)
    BY DEF After
  <2>2. StatementFailure(p, statements[m]) = Passed
    BY <1>3 DEF Fine
  <2> HIDE DEF p, A, m
  <2>3. ~(p.count + 1 > limits.elements)
    BY <1>3, <2>2, ElementPasses
  <2>4. QED
    BY <2>1, <2>3
<1> HIDE DEF m, N
<1>5. B \cup {n} \subseteq A \cup {m} /\ n \notin B /\ A \cup {m} \subseteq E
  <2>1. ASSUME NEW i \in E PROVE i \in A \cup {m}
    <3>1. i \in 1..N /\ i <= m /\ m \in 1..N
      BY <1>1, <1>2
    <3>2. i = m \/ i \in 1..(m - 1)
      BY <1>1, <3>1
    <3>3. QED
      BY <3>2 DEF ElementsOf
  <2>2. B \subseteq E
    BY <1>1 DEF ElementsOf
  <2>3. A \subseteq E
    <3>1. 1..(m - 1) \subseteq 1..N
      BY <1>1, <1>2
    <3>2. QED
      BY <3>1 DEF ElementsOf
  <2>4. QED
    BY <1>1, <1>2, <2>1, <2>2, <2>3 DEF ElementsOf
<1>6. IsFiniteSet(A) /\ IsFiniteSet(B) /\ IsFiniteSet(A \cup {m})
  <2>1. IsFiniteSet(E)
    <3>1. 1 \in Int /\ N \in Int
      BY <1>1
    <3> HIDE DEF E
    <3>2. QED
      BY <1>1, <3>1, FS_Interval, FS_Subset
  <2>2. B \subseteq E /\ A \subseteq E
    BY <1>5, <1>2, <1>1 DEF ElementsOf
  <2>3. QED
    BY <1>5, <2>1, <2>2, FS_Subset
<1> HIDE DEF A, B, E
<1>7. Cardinality(B \cup {n}) = Cardinality(B) + 1
  BY <1>5, <1>6, FS_AddElement
<1>8. Cardinality(A \cup {m}) <= Cardinality(A) + 1
  BY <1>6, OneMoreCounts
<1>9. Cardinality(B \cup {n}) <= Cardinality(A \cup {m})
  BY <1>5, <1>6, FS_Subset
<1>10. Cardinality(A) \in Nat /\ Cardinality(B) \in Nat /\ Cardinality(A \cup {m}) \in Nat
  BY <1>6, FS_CardinalityType
<1> DEFINE a == Cardinality(A)
           b == Cardinality(B)
           c == Cardinality(A \cup {m})
           l == limits.elements
<1>11. a \in Nat /\ b \in Nat /\ c \in Nat /\ l \in Int /\ ~(a + 1 > l) /\ c <= a + 1 /\ b + 1 <= c
  BY <1>4, <1>7, <1>8, <1>9, <1>10
<1> HIDE DEF a, b, c, l
<1>12. ~(b + 1 > l)
  BY <1>11
<1>13. QED
  BY <1>12 DEF b, l, B

\* A line passes its checks wherever it is read, as long as the line that opens
\* its block is read before it.
LEMMA FineAnywhere ==
  ASSUME IsText(statements), Read(Len(statements)), limits.subcircuits \in Int, limits.elements \in Int,
         NEW n \in DOMAIN statements, NEW I, n \notin I, Whole(I), Block(n) \in {0} \cup I
  PROVE  StatementFailure(After(I, Owner(n)), statements[n]) = Passed
<1> DEFINE line == statements[n]
           p == After(1..(n - 1), Owner(n))
           q == After(I, Owner(n))
           N == Len(statements)
<1>1. DOMAIN statements = 1..N /\ n \in 1..N /\ I \subseteq 1..N /\ Whole(1..N)
  BY DEF IsText, Whole, Read
<1>2. StatementFailure(p, line) = Passed
  BY <1>1 DEF Read, Fine
<1>3. /\ p.current = Owner(n) /\ q.current = Owner(n)
      /\ q.count = Cardinality(ElementsOf(I)) /\ q.scopes = ScopesAfter(I) /\ DOMAIN q.scopes = ScopeNames(I)
  BY DEF After, ScopesAfter
<1> HIDE DEF p, q, N
<1>4. CASE line.op = ".subckt"
  <2>1. n \in Opens
    BY <1>4 DEF Opens
  <2>2. p.current = Root /\ line.tokens # <<>> /\ SplitFailure(line.tokens) = Passed
        /\ Positional(line.tokens) # <<>> /\ IsInjective(Positional(line.tokens))
    BY <1>2, <1>4, OpeningPasses
  <2>3. ~IsDefined(q, line.name)
    <3>1. line.name # Root
      BY <1>1, <2>1 DEF Whole
    <3>2. \A i \in I \cap Opens : statements[i].name # line.name
      BY <1>1, <2>1 DEF Whole
    <3>3. QED
      BY <1>3, <3>1, <3>2 DEF IsDefined, ScopeNames
  <2>4. ~(Cardinality(DOMAIN q.scopes) - 1 >= limits.subcircuits)
    <3>1. I \subseteq DOMAIN statements
      BY DEF Whole
    <3>2. ~(Cardinality(ScopeNames(I)) - 1 >= limits.subcircuits)
      BY <2>1, <3>1, NamesFit
    <3>3. QED
      BY <1>3, <3>2
  <2>5. StatementFailure(q, line) = Passed
    BY <1>3, <1>4, <2>2, <2>3, <2>4, OpeningPasses
  <2>6. QED
    BY <2>5 DEF q
<1>5. CASE line.op = ".ends"
  <2>1. StatementFailure(q, line) = Passed
    BY <1>2, <1>3, <1>5, ClosingPasses
  <2>2. QED
    BY <2>1 DEF q
<1>6. CASE line.op = "element"
  <2>1. /\ line.family = "x" => InstanceLineFailure(line) = Passed
        /\ line.family # "x" => PrimitiveFailure(line) = Passed
    BY <1>2, <1>6, ElementPasses
  <2>2. ~(q.count + 1 > limits.elements)
    <3>1. I \subseteq DOMAIN statements
      BY DEF Whole
    <3>2. QED
      BY <1>3, <1>6, <3>1, ElementsFit
  <2>3. line.name \notin DOMAIN q.scopes[q.current].elements
    <3>1. Owner(n) \in ScopeNames(I)
      BY BlockOpens, OwnerIsKnown
    <3>2. q.scopes[q.current].elements = ElementsIn(I, Owner(n))
      BY <1>3, <3>1 DEF ScopesAfter, ScopeOf
    <3>3. \A i \in Held(I, Owner(n)) : statements[i].name # line.name
      <4>1. n \in ElementsOf(1..N) /\ \A i \in Held(I, Owner(n)) : i \in ElementsOf(1..N) /\ Owner(i) = Owner(n) /\ i # n
        BY <1>1, <1>6 DEF ElementsOf, Held
      <4>2. QED
        BY <1>1, <4>1 DEF Whole
    <3>4. QED
      BY <3>2, <3>3 DEF ElementsIn
  <2>4. StatementFailure(q, line) = Passed
    BY <1>6, <2>1, <2>2, <2>3, ElementPasses
  <2>5. QED
    BY <2>4 DEF q
<1>7. CASE line.op \notin {".subckt", ".ends", "element"}
  <2>1. StatementFailure(q, line) = StatementFailure(p, line)
    BY <1>7 DEF StatementFailure
  <2>2. QED
    BY <1>2, <2>1 DEF q
<1>8. QED
  BY <1>4, <1>5, <1>6, <1>7

LEMMA ParseIsUnique ==
  ASSUME NEW text, Len(text) \in Nat, NEW f, IsParse(text, f)
  PROVE  Parse(text) = Ended(f[Len(text)])
<1> DEFINE N == Len(text)
           g == ParseOf(text)
           T == {n \in Nat : n <= N => g[n] = f[n]}
<1>1. IsParse(text, g)
  BY Zenon DEF ParseOf
<1>2. Parse(text) = Ended(g[N])
  BY Zenon DEF Parse, ParseOf, IsParse
<1> HIDE DEF g
<1>3. \A h : IsParse(text, h) => \A n \in 0..N : h[n] = IF n = 0 THEN Start ELSE Step(h[n - 1], text[n])
  BY DEF IsParse
<1>4. /\ \A n \in 0..N : g[n] = IF n = 0 THEN Start ELSE Step(g[n - 1], text[n])
      /\ \A n \in 0..N : f[n] = IF n = 0 THEN Start ELSE Step(f[n - 1], text[n])
  BY <1>1, <1>3
<1>5. 0 \in T
  BY <1>4
<1>6. ASSUME NEW n \in Nat, n \in T PROVE n + 1 \in T
  <2>1. SUFFICES ASSUME n + 1 <= N PROVE g[n + 1] = f[n + 1]
    OBVIOUS
  <2>2. n + 1 \in 0..N /\ n + 1 # 0 /\ (n + 1) - 1 = n /\ g[n] = f[n]
    BY <1>6, <2>1
  <2>3. QED
    BY <1>4, <2>2
<1> HIDE DEF T, N
<1>7. \A n \in Nat : n \in T
  BY <1>5, <1>6, NaturalInduction
<1>8. N \in T /\ N <= N /\ N \in Nat
  BY <1>7 DEF N
<1>9. g[N] = f[N]
  BY <1>8 DEF T
<1>10. QED
  BY <1>2, <1>9 DEF N

\* Whatever order the lines are read in, block by block, the parser ends up the
\* same.
IsOrder(s, N) ==
  /\ s \in [1..N -> 1..N] /\ \A m, n \in 1..N : s[m] = s[n] => m = n
  /\ Earlier(s, N + 1) = 1..N
  /\ \A n \in 1..N : Block(s[n]) \in {0} \cup Earlier(s, n)
  /\ \A n \in 1..N : Owner(s[n]) = IF n = 1 THEN Root ELSE Owner(s[n - 1] + 1)
  /\ N # 0 => Owner(s[N] + 1) = Root

LEMMA AnyOrder ==
  ASSUME IsText(statements), Read(Len(statements)), limits.subcircuits \in Int, limits.elements \in Int,
         NEW s, IsOrder(s, Len(statements)),
         NEW text, Len(text) = Len(statements), \A n \in 1..Len(statements) : text[n] = statements[s[n]]
  PROVE  Parse(text) = Ended(After(1..Len(statements), Root))
<1> DEFINE N == Len(statements)
           open(n) == IF n = 0 THEN Root ELSE Owner(s[n] + 1)
           f == [n \in 0..N |-> After(Earlier(s, n + 1), open(n))]
<1>1. /\ N \in Nat /\ DOMAIN statements = 1..N /\ Whole(1..N) /\ \A k \in 1..N : Fine(k)
  BY DEF IsText, Read
<1>2. Len(text) = N /\ \A n \in 1..N : text[n] = statements[s[n]]
  OBVIOUS
<1>3. /\ s \in [1..N -> 1..N] /\ \A m, n \in 1..N : s[m] = s[n] => m = n
      /\ Earlier(s, N + 1) = 1..N
      /\ \A n \in 1..N : Block(s[n]) \in {0} \cup Earlier(s, n)
      /\ \A n \in 1..N : Owner(s[n]) = IF n = 1 THEN Root ELSE Owner(s[n - 1] + 1)
      /\ N # 0 => Owner(s[N] + 1) = Root
  BY DEF IsOrder
<1> HIDE DEF N
<1>4. ASSUME NEW n \in 1..N
      PROVE  /\ Earlier(s, n) \subseteq 1..N /\ s[n] \in 1..N /\ s[n] \notin Earlier(s, n)
             /\ Earlier(s, n + 1) = Earlier(s, n) \cup {s[n]} /\ IsFiniteSet(Earlier(s, n))
             /\ Whole(Earlier(s, n)) /\ Whole(Earlier(s, n + 1))
  <2>1. \A m \in 1..(n - 1) : m \in 1..N /\ m # n
    BY <1>1
  <2>2. Earlier(s, n) \subseteq 1..N /\ s[n] \in 1..N /\ s[n] \notin Earlier(s, n)
    <3>1. s[n] \in 1..N /\ \A m \in 1..(n - 1) : s[m] \in 1..N /\ s[m] # s[n]
      BY <1>3, <2>1
    <3>2. QED
      BY <3>1 DEF Earlier
  <2>3. 1..(n + 1 - 1) = 1..(n - 1) \cup {n}
    BY <1>1
  <2>4. Earlier(s, n + 1) = Earlier(s, n) \cup {s[n]}
    BY <2>3 DEF Earlier
  <2>5. IsFiniteSet(Earlier(s, n))
    <3>1. IsFiniteSet(1..N)
      <4>1. 1 \in Int /\ N \in Int
        BY <1>1
      <4>2. QED
        BY <4>1, FS_Interval
    <3>2. QED
      BY <2>2, <3>1, FS_Subset
  <2>6. ASSUME NEW x \in Earlier(s, n) PROVE Block(x) \in {0} \cup Earlier(s, n)
    <3>1. PICK m \in 1..(n - 1) : x = s[m]
      BY DEF Earlier
    <3>2. Block(x) \in {0} \cup Earlier(s, m)
      BY <1>3, <2>1, <3>1
    <3>3. Earlier(s, m) \subseteq Earlier(s, n)
      <4>1. 1..(m - 1) \subseteq 1..(n - 1)
        BY <1>1, <3>1
      <4>2. QED
        BY <4>1 DEF Earlier
    <3>4. QED
      BY <3>2, <3>3
  <2>7. \A x \in Earlier(s, n + 1) : Block(x) \in {0} \cup Earlier(s, n + 1)
    BY <1>3, <2>4, <2>6
  <2>8. ASSUME NEW I \in SUBSET (1..N), \A x \in I : Block(x) \in {0} \cup I PROVE Whole(I)
    <3>1. ElementsOf(I) \subseteq ElementsOf(1..N) /\ I \cap Opens \subseteq (1..N) \cap Opens
      BY DEF ElementsOf
    <3>2. QED
      BY <1>1, <2>8, <3>1 DEF Whole
  <2>9. Whole(Earlier(s, n)) /\ Whole(Earlier(s, n + 1))
    <3>1. Earlier(s, n) \in SUBSET (1..N) /\ Earlier(s, n + 1) \in SUBSET (1..N)
      BY <2>2, <2>4
    <3>2. QED
      BY <2>6, <2>7, <2>8, <3>1
  <2>10. QED
    BY <2>2, <2>4, <2>5, <2>9
<1>5. f[0] = Start
  <2>1. Earlier(s, 0 + 1) = 1..0 /\ 0 \in 0..N
    <3>1. 1..(0 + 1 - 1) = {} /\ 1..0 = {} /\ 0 \in 0..N
      BY <1>1
    <3>2. QED
      BY <3>1 DEF Earlier
  <2>2. Owner(1) = Root /\ After(1..0, Owner(1)) = Start
    BY NothingRead DEF Owner
  <2>3. QED
    BY <2>1, <2>2
<1>6. ASSUME NEW n \in 1..N PROVE f[n] = Step(f[n - 1], text[n])
  <2> DEFINE I == Earlier(s, n)
             k == s[n]
             p == After(I, Owner(k))
  <2>1. n \in 0..N /\ n - 1 \in 0..N /\ n - 1 + 1 = n /\ n # 0 /\ (n - 1 = 0 <=> n = 1)
    BY <1>1
  <2>2. open(n - 1) = Owner(k)
    BY <1>3, <2>1
  <2>3. f[n - 1] = p
    BY <2>1, <2>2
  <2>4. text[n] = statements[k] /\ k \in DOMAIN statements /\ k \notin I /\ Block(k) \in {0} \cup I
    BY <1>1, <1>2, <1>3, <1>4
  <2>5. StatementFailure(p, statements[k]) = Passed
    BY <1>4, <2>4, FineAnywhere DEF N
  <2>6. k \in Opens => Owner(k) = Root
    <3>1. SUFFICES ASSUME k \in Opens PROVE Owner(k) = Root
      OBVIOUS
    <3>2. p.current = Owner(k)
      BY DEF After
    <3>3. statements[k].op = ".subckt"
      BY <3>1 DEF Opens
    <3> HIDE DEF p
    <3>4. QED
      BY <2>5, <3>2, <3>3, OpeningPasses
  <2>7. Taken(p, statements[k]) = After(I \cup {k}, Owner(k + 1))
    BY <1>4, <2>4, <2>6, LineAdds
  <2>8. p.verdict = "reading"
    BY DEF After
  <2>9. Step(p, statements[k]) = Taken(p, statements[k])
    BY <2>5, <2>8 DEF Step
  <2>10. f[n] = After(I \cup {k}, Owner(k + 1))
    BY <1>4, <2>1
  <2>11. QED
    BY <2>3, <2>4, <2>7, <2>9, <2>10
<1>7. IsParse(text, f)
  <2> DEFINE g == [n \in 0..N |-> IF n = 0 THEN Start ELSE Step(f[n - 1], text[n])]
  <2>1. \A n \in 0..N : n = 0 \/ n \in 1..N
    BY <1>1
  <2>2. \A n \in 0..N : f[n] = g[n]
    <3>1. ASSUME NEW n \in 0..N PROVE f[n] = g[n]
      <4> HIDE DEF f
      <4>1. CASE n = 0
        BY <1>5, <4>1
      <4>2. CASE n # 0
        BY <1>6, <2>1, <4>2
      <4>3. QED
        BY <4>1, <4>2
    <3>2. QED
      BY <3>1
  <2>3. f = [n \in 0..N |-> f[n]] /\ g = [n \in 0..N |-> g[n]]
    OBVIOUS
  <2> HIDE DEF f, g
  <2>4. f = g
    BY <2>2, <2>3
  <2>5. QED
    BY <1>2, <2>4 DEF IsParse, g
<1>8. f[N] = After(1..N, Root)
  <2>1. N \in 0..N
    BY <1>1
  <2>2. open(N) = Root
    BY <1>3
  <2>3. QED
    BY <1>3, <2>1, <2>2
<1> HIDE DEF f
<1>9. Parse(text) = Ended(f[Len(text)])
  BY <1>1, <1>2, <1>7, ParseIsUnique
<1>10. QED
  BY <1>2, <1>8, <1>9 DEF N

\* Lines i + 1 to j and j + 1 to k exchanged: the line that comes n-th.
Exchanged(i, j, k, n) ==
  IF n <= i THEN n ELSE IF n <= i + (k - j) THEN n + (j - i) ELSE IF n <= k THEN n - (k - j) ELSE n
Exchange(i, j, k) == [n \in 1..Len(statements) |-> Exchanged(i, j, k, n)]

\* No block reaches across a cut.
LEMMA SameSide ==
  ASSUME IsText(statements), NEW c \in 0..Len(statements), Block(c + 1) = 0,
         NEW x \in 1..Len(statements), c < x, Block(x) # 0
  PROVE  Block(x) \in Opens /\ Block(x) > c /\ Block(x) < x
<1> DEFINE before == {l \in Opens \cup Closes : l < c + 1}
           b == Block(x)
<1>1. Len(statements) \in Nat /\ DOMAIN statements = 1..Len(statements) /\ x \in 1..(Len(statements) + 1)
  BY DEF IsText
<1>2. b \in Opens /\ b < x /\ \A l \in Opens \cup Closes : l < x => l <= b
  BY <1>1, BlockFacts
<1>3. before = {} \/ Max(before) \in Closes
  <2>1. Block(c + 1) = IF before = {} \/ Max(before) \in Closes THEN 0 ELSE Max(before)
    BY DEF Block
  <2>2. before \in SUBSET (1..Len(statements))
    BY <1>1 DEF Opens, Closes
  <2> HIDE DEF before
  <2>3. before # {} => Max(before) \in 1..Len(statements)
    BY <1>1, <2>2, MaxFacts
  <2>4. QED
    BY <1>1, <2>1, <2>3
<1>4. b > c
  <2>1. SUFFICES ASSUME ~(b > c) PROVE FALSE
    OBVIOUS
  <2>2. b \in 1..Len(statements) /\ Opens \cap Closes = {}
    BY <1>1, <1>2 DEF Opens, Closes
  <2> DEFINE m == Max(before)
  <2>3. b \in before
    <3>1. b < c + 1
      BY <1>1, <2>1, <2>2
    <3>2. QED
      BY <1>2, <3>1
  <2>4. before \in SUBSET (1..Len(statements)) /\ \A l \in before : l < c + 1
    BY <1>1 DEF Opens, Closes
  <2>5. \A l \in before : l \in Opens \cup Closes
    OBVIOUS
  <2> HIDE DEF before, b
  <2>6. m \in before /\ b <= m
    BY <1>1, <2>3, <2>4, MaxFacts
  <2>7. m \in Closes
    BY <1>3, <2>3
  <2>8. m \in 1..Len(statements) /\ m < c + 1
    BY <2>4, <2>6
  <2> HIDE DEF m
  <2>9. m < x
    BY <1>1, <2>8
  <2>10. m <= b
    BY <1>2, <2>5, <2>6, <2>9 DEF b
  <2>11. m = b
    BY <2>2, <2>6, <2>8, <2>10
  <2>12. QED
    BY <1>2, <2>2, <2>7, <2>11 DEF b
<1>5. QED
  BY <1>2, <1>4

\* The exchange is a permutation: Back is its inverse.
Back(i, j, k, x) ==
  IF x <= i THEN x ELSE IF x <= j THEN x + (k - j) ELSE IF x <= k THEN x - (j - i) ELSE x

LEMMA ExchangeIsOne ==
  ASSUME NEW N \in Nat, NEW i \in 0..N, NEW j \in 0..N, NEW k \in 0..N, i < j, j < k
  PROVE  /\ \A n \in 1..N : Exchanged(i, j, k, n) \in 1..N /\ Back(i, j, k, Exchanged(i, j, k, n)) = n
         /\ \A x \in 1..N : Back(i, j, k, x) \in 1..N /\ Exchanged(i, j, k, Back(i, j, k, x)) = x
<1>1. ASSUME NEW n \in 1..N PROVE Exchanged(i, j, k, n) \in 1..N
  BY DEF Exchanged
<1>2. ASSUME NEW n \in 1..N PROVE Back(i, j, k, Exchanged(i, j, k, n)) = n
  BY DEF Exchanged, Back
<1>3. ASSUME NEW n \in 1..N PROVE Back(i, j, k, n) \in 1..N
  BY DEF Back
<1>4. ASSUME NEW n \in 1..N PROVE Exchanged(i, j, k, Back(i, j, k, n)) = n
  BY DEF Exchanged, Back
<1>5. QED
  BY <1>1, <1>2, <1>3, <1>4

\* A line between the same cuts as the n-th, and before it, comes before it.
LEMMA ExchangeKeepsBefore ==
  ASSUME NEW N \in Nat, NEW i \in 0..N, NEW j \in 0..N, NEW k \in 0..N, i < j, j < k,
         NEW n \in 1..N, NEW b \in 1..N, b < Exchanged(i, j, k, n),
         \A c \in {i, j, k} : c < Exchanged(i, j, k, n) => b > c
  PROVE  Back(i, j, k, b) \in 1..(n - 1)
<1>1. /\ i < Exchanged(i, j, k, n) => b > i
      /\ j < Exchanged(i, j, k, n) => b > j
      /\ k < Exchanged(i, j, k, n) => b > k
  OBVIOUS
<1>2. CASE n <= i
  BY <1>1, <1>2 DEF Exchanged, Back
<1>3. CASE ~(n <= i) /\ n <= i + (k - j)
  BY <1>1, <1>3 DEF Exchanged, Back
<1>4. CASE ~(n <= i + (k - j)) /\ n <= k
  BY <1>1, <1>4 DEF Exchanged, Back
<1>5. CASE ~(n <= k)
  BY <1>1, <1>5 DEF Exchanged, Back
<1>6. QED
  BY <1>2, <1>3, <1>4, <1>5

\* Two lines that come to stand together either stood together or each at a cut.
LEMMA ExchangeJoinsAtCuts ==
  ASSUME NEW N \in Nat, NEW i \in 0..N, NEW j \in 0..N, NEW k \in 0..N, i < j, j < k, NEW n \in 1..N
  PROVE  /\ n = 1 => Exchanged(i, j, k, n) - 1 \in {0, i, j, k}
         /\ n # 1 => \/ Exchanged(i, j, k, n) = Exchanged(i, j, k, n - 1) + 1
                     \/ /\ Exchanged(i, j, k, n) - 1 \in {i, j, k}
                        /\ Exchanged(i, j, k, n - 1) \in {i, j, k}
         /\ n = N => Exchanged(i, j, k, n) \in {i, j, k, N}
<1>1. n = 1 => Exchanged(i, j, k, n) - 1 \in {0, i, j, k}
  BY DEF Exchanged
<1>2. n # 1 => \/ Exchanged(i, j, k, n) = Exchanged(i, j, k, n - 1) + 1
               \/ /\ Exchanged(i, j, k, n) - 1 \in {i, j, k}
                  /\ Exchanged(i, j, k, n - 1) \in {i, j, k}
  BY DEF Exchanged
<1>3. n = N => Exchanged(i, j, k, n) \in {i, j, k, N}
  BY DEF Exchanged
<1>4. QED
  BY <1>1, <1>2, <1>3

LEMMA AllEarlier ==
  ASSUME NEW N \in Nat, NEW f
  PROVE  Earlier(f, N + 1) = {f[m] : m \in 1..N}
<1>1. 1..(N + 1 - 1) = 1..N
  OBVIOUS
<1>2. QED
  BY <1>1 DEF Earlier

LEMMA ExchangeIsOrder ==
  ASSUME IsText(statements), Owner(Len(statements) + 1) = Root,
         NEW i \in 0..Len(statements), NEW j \in 0..Len(statements), NEW k \in 0..Len(statements), i < j, j < k,
         Block(i + 1) = 0, Block(j + 1) = 0, Block(k + 1) = 0
  PROVE  IsOrder(Exchange(i, j, k), Len(statements))
<1> DEFINE N == Len(statements)
           x(n) == Exchanged(i, j, k, n)
           y(n) == Back(i, j, k, n)
           s == Exchange(i, j, k)
<1>1. N \in Nat /\ i \in 0..N /\ j \in 0..N /\ k \in 0..N /\ i < j /\ j < k
  BY DEF IsText
<1>2. s = [n \in 1..N |-> x(n)]
  BY DEF Exchange
<1>3. /\ \A n \in 1..N : x(n) \in 1..N /\ y(x(n)) = n
      /\ \A n \in 1..N : y(n) \in 1..N /\ x(y(n)) = n
  <2> HIDE DEF N
  <2>1. QED
    BY <1>1, ExchangeIsOne
<1>4. \A c \in {i, j, k} : c \in 0..N /\ Block(c + 1) = 0 /\ Owner(c + 1) = Root
  BY <1>1 DEF Owner
<1>5. Block(1) = 0 /\ Owner(1) = Root /\ Owner(N + 1) = Root
  BY NothingRead DEF Owner
<1>6. ASSUME NEW n \in 1..N PROVE Block(x(n)) \in {0} \cup Earlier(s, n)
  <2>1. SUFFICES ASSUME Block(x(n)) # 0 PROVE Block(x(n)) \in Earlier(s, n)
    OBVIOUS
  <2> DEFINE b == Block(x(n))
  <2>2. \A c \in {i, j, k} : c < x(n) => b > c
    <3>1. ASSUME NEW c \in {i, j, k}, c < x(n) PROVE b > c
      <4> DEFINE z == x(n)
      <4>1. z \in 1..N /\ c \in 0..N /\ Block(c + 1) = 0 /\ c < z /\ Block(z) # 0
        BY <1>3, <1>4, <2>1, <3>1
      <4> HIDE DEF z
      <4>2. Block(z) > c
        BY <4>1, SameSide
      <4>3. QED
        BY <4>2 DEF z
    <3>2. QED
      BY <3>1
  <2>3. b \in 1..N /\ b < x(n)
    <3> DEFINE z == x(n)
    <3>1. z \in 1..(N + 1) /\ Block(z) # 0
      BY <1>1, <1>3, <2>1
    <3> HIDE DEF z
    <3>2. Block(z) \in Opens /\ Block(z) < z
      BY <3>1, BlockFacts
    <3>3. Opens \subseteq 1..N
      <4>1. DOMAIN statements = 1..N
        BY DEF IsText
      <4>2. QED
        BY <4>1 DEF Opens
    <3>4. QED
      BY <3>2, <3>3 DEF z
  <2> HIDE DEF b, N
  <2>4. y(b) \in 1..(n - 1)
    BY <1>1, <2>2, <2>3, ExchangeKeepsBefore
  <2>5. x(y(b)) = b /\ y(b) \in 1..N
    BY <1>3, <2>3
  <2>6. s[y(b)] = b
    BY <1>2, <2>5
  <2>7. QED
    BY <2>4, <2>6 DEF Earlier, b
<1>7. ASSUME NEW n \in 1..N PROVE Owner(x(n)) = IF n = 1 THEN Root ELSE Owner(x(n - 1) + 1)
  <2>1. x(n) \in 1..N /\ x(n) - 1 + 1 = x(n)
    BY <1>1, <1>3
  <2>2. /\ n = 1 => x(n) - 1 \in {0, i, j, k}
        /\ n # 1 => x(n) = x(n - 1) + 1 \/ (x(n) - 1 \in {i, j, k} /\ x(n - 1) \in {i, j, k})
    <3> HIDE DEF N
    <3>1. QED
      BY <1>1, ExchangeJoinsAtCuts
  <2> HIDE DEF x
  <2>3. x(n) - 1 \in {0, i, j, k} => Owner(x(n)) = Root
    <3>1. x(n) - 1 = 0 => x(n) = 1
      BY <2>1
    <3>2. QED
      BY <1>4, <1>5, <2>1, <3>1
  <2>4. x(n - 1) \in {i, j, k} => Owner(x(n - 1) + 1) = Root
    BY <1>4
  <2>5. QED
    BY <2>2, <2>3, <2>4
<1>8. N # 0 => Owner(x(N) + 1) = Root
  <2>1. SUFFICES ASSUME N # 0 PROVE Owner(x(N) + 1) = Root
    OBVIOUS
  <2>2. N \in 1..N
    BY <1>1, <2>1
  <2>3. x(N) \in {i, j, k, N}
    <3> HIDE DEF N
    <3>1. QED
      BY <1>1, <2>2, ExchangeJoinsAtCuts
  <2>4. QED
    BY <1>4, <1>5, <2>3
<1> HIDE DEF N, s
<1>9. Earlier(s, N + 1) = 1..N
  <2>1. 1..(N + 1 - 1) = 1..N
    BY <1>1
  <2>2. \A n \in 1..N : s[n] \in 1..N /\ s[y(n)] = n /\ y(n) \in 1..N
    <3> HIDE DEF x, y
    <3>1. QED
      BY <1>2, <1>3
  <2>3. \A n \in 1..N : \E m \in 1..N : s[m] = n
    <3> HIDE DEF y
    <3>1. QED
      BY <2>2
  <2>4. Earlier(s, N + 1) = {s[m] : m \in 1..N}
    BY <1>1, AllEarlier
  <2> HIDE DEF x, y
  <2>5. QED
    BY <2>2, <2>3, <2>4
<1>10. s \in [1..N -> 1..N] /\ \A m, n \in 1..N : s[m] = s[n] => m = n
  <2> HIDE DEF x, y
  <2>1. QED
    BY <1>2, <1>3
<1>11. \A n \in 1..N : Block(s[n]) \in {0} \cup Earlier(s, n)
  <2> HIDE DEF x, y
  <2>1. QED
    BY <1>2, <1>6
<1>12. \A n \in 1..N : Owner(s[n]) = IF n = 1 THEN Root ELSE Owner(s[n - 1] + 1)
  <2> HIDE DEF x, y
  <2>1. \A n \in 1..N : n # 1 => n - 1 \in 1..N
    BY <1>1
  <2>2. QED
    BY <1>2, <1>7, <2>1
<1>13. N # 0 => Owner(s[N] + 1) = Root
  <2> HIDE DEF x, y
  <2>1. N # 0 => N \in 1..N
    BY <1>1
  <2>2. QED
    BY <1>2, <1>8, <2>1
<1>14. QED
  BY <1>9, <1>10, <1>11, <1>12, <1>13 DEF IsOrder, N, s

\* u is s, of length l, followed by t, of length m.
IsJoin(u, s, t, l, m) ==
  Len(u) = l + m /\ \A n \in 1..(l + m) : u[n] = IF n <= l THEN s[n] ELSE t[n - l]

LEMMA JoinFacts ==
  ASSUME NEW S, NEW s \in Seq(S), NEW t \in Seq(S), NEW l, NEW m, Len(s) = l, Len(t) = m
  PROVE  s \o t \in Seq(S) /\ IsJoin(s \o t, s, t, l, m)
BY DEF IsJoin

\* The text with the lines exchanged, as the property states it.
ExchangedIn(i, j, k) ==
  SubSeq(statements, 1, i) \o SubSeq(statements, j + 1, k) \o SubSeq(statements, i + 1, j)
    \o SubSeq(statements, k + 1, Len(statements))

\* The exchanged text has the n-th line of that order as its n-th.
LEMMA ExchangedText ==
  ASSUME IsText(statements),
         NEW i \in 0..Len(statements), NEW j \in 0..Len(statements), NEW k \in 0..Len(statements), i < j, j < k
  PROVE  /\ Len(ExchangedIn(i, j, k)) = Len(statements)
         /\ \A n \in 1..Len(statements) : ExchangedIn(i, j, k)[n] = statements[Exchange(i, j, k)[n]]
<1> DEFINE N == Len(statements)
           S == ToSet(statements)
           a == SubSeq(statements, 1, i)
           b == SubSeq(statements, j + 1, k)
           c == SubSeq(statements, i + 1, j)
           d == SubSeq(statements, k + 1, N)
           ab == a \o b
           abc == ab \o c
           text == abc \o d
           x(n) == Exchanged(i, j, k, n)
<1>1. /\ N \in Nat /\ statements \in Seq(S) /\ i \in 0..N /\ j \in 0..N /\ k \in 0..N
      /\ i \in Nat /\ j \in Nat /\ k \in Nat
  BY DEF IsText
<1> HIDE DEF S
<1>2. a \in Seq(S) /\ Len(a) = i /\ \A n \in 1..i : a[n] = statements[n]
  <2>1. 1 \in Nat /\ 1 <= 1 /\ 1 <= i + 1 /\ i <= N /\ i - 1 + 1 = i /\ \A n \in 1..i : 1 + n - 1 = n
    BY <1>1
  <2>2. a \in Seq(S) /\ Len(a) = i - 1 + 1 /\ \A n \in 1..(i - 1 + 1) : a[n] = statements[1 + n - 1]
    BY <1>1, <2>1, SubSeqFacts
  <2> HIDE DEF a
  <2>3. QED
    BY <2>1, <2>2
<1>3. b \in Seq(S) /\ Len(b) = k - j /\ \A n \in 1..(k - j) : b[n] = statements[j + n]
  <2>1. /\ j + 1 \in Nat /\ 1 <= j + 1 /\ j + 1 <= k + 1 /\ k <= N /\ k - (j + 1) + 1 = k - j
        /\ \A n \in 1..(k - j) : (j + 1) + n - 1 = j + n
    BY <1>1
  <2>2. b \in Seq(S) /\ Len(b) = k - (j + 1) + 1 /\ \A n \in 1..(k - (j + 1) + 1) : b[n] = statements[(j + 1) + n - 1]
    BY <1>1, <2>1, SubSeqFacts
  <2> HIDE DEF b
  <2>3. QED
    BY <2>1, <2>2
<1>4. c \in Seq(S) /\ Len(c) = j - i /\ \A n \in 1..(j - i) : c[n] = statements[i + n]
  <2>1. /\ i + 1 \in Nat /\ 1 <= i + 1 /\ i + 1 <= j + 1 /\ j <= N /\ j - (i + 1) + 1 = j - i
        /\ \A n \in 1..(j - i) : (i + 1) + n - 1 = i + n
    BY <1>1
  <2>2. c \in Seq(S) /\ Len(c) = j - (i + 1) + 1 /\ \A n \in 1..(j - (i + 1) + 1) : c[n] = statements[(i + 1) + n - 1]
    BY <1>1, <2>1, SubSeqFacts
  <2> HIDE DEF c
  <2>3. QED
    BY <2>1, <2>2
<1>5. d \in Seq(S) /\ Len(d) = N - k /\ \A n \in 1..(N - k) : d[n] = statements[k + n]
  <2>1. /\ k + 1 \in Nat /\ 1 <= k + 1 /\ k + 1 <= N + 1 /\ N <= Len(statements) /\ N - (k + 1) + 1 = N - k
        /\ \A n \in 1..(N - k) : (k + 1) + n - 1 = k + n
    BY <1>1
  <2> HIDE DEF N
  <2>2. d \in Seq(S) /\ Len(d) = N - (k + 1) + 1 /\ \A n \in 1..(N - (k + 1) + 1) : d[n] = statements[(k + 1) + n - 1]
    BY <1>1, <2>1, SubSeqFacts
  <2> HIDE DEF d
  <2>3. QED
    BY <2>1, <2>2
<1>6. text = ExchangedIn(i, j, k)
  BY DEF ExchangedIn
<1> HIDE DEF a, b, c, d, N
<1> DEFINE l == k - j
           m == j - i
           p == i + l
           q == N - k
<1>7. p + m = k /\ k + q = N
  BY <1>1
<1> HIDE DEF l, m, q
<1>8. ab \in Seq(S) /\ IsJoin(ab, a, b, i, l)
  <2>1. Len(b) = l
    BY <1>3 DEF l
  <2>2. QED
    BY <1>2, <1>3, <2>1, JoinFacts, Zenon
<1> HIDE DEF p, ab
<1>9. abc \in Seq(S) /\ IsJoin(abc, ab, c, p, m)
  <2>1. Len(ab) = p /\ Len(c) = m
    BY <1>4, <1>8 DEF IsJoin, p, m
  <2>2. QED
    BY <1>4, <1>8, <2>1, JoinFacts, Zenon
<1> HIDE DEF abc
<1>10. IsJoin(text, abc, d, k, q)
  <2>1. Len(abc) = k /\ Len(d) = q
    BY <1>5, <1>7, <1>9 DEF IsJoin, q
  <2>2. QED
    BY <1>5, <1>9, <2>1, JoinFacts, Zenon
<1> HIDE DEF text
<1>11. /\ \A n \in 1..p : ab[n] = IF n <= i THEN a[n] ELSE b[n - i]
       /\ \A n \in 1..k : abc[n] = IF n <= p THEN ab[n] ELSE c[n - p]
       /\ Len(text) = N /\ \A n \in 1..N : text[n] = IF n <= k THEN abc[n] ELSE d[n - k]
  BY <1>7, <1>8, <1>9, <1>10 DEF IsJoin, p
<1>12. ASSUME NEW n \in 1..N PROVE text[n] = statements[x(n)]
  <2>1. p = i + (k - j) /\ l = k - j /\ m = j - i /\ q = N - k
    BY DEF p, l, m, q
  <2>2. CASE n <= i
    <3>1. n <= k /\ n <= p /\ n \in 1..i /\ n \in 1..k /\ n \in 1..p /\ x(n) = n
      BY <1>1, <2>1, <2>2 DEF Exchanged
    <3>2. QED
      BY <1>2, <1>11, <2>2, <3>1
  <2>3. CASE ~(n <= i) /\ n <= p
    <3>1. n <= k /\ n \in 1..k /\ n \in 1..p /\ n - i \in 1..(k - j) /\ x(n) = j + (n - i)
      BY <1>1, <2>1, <2>3 DEF Exchanged
    <3> HIDE DEF x
    <3>2. text[n] = b[n - i]
      BY <1>11, <2>3, <3>1
    <3>3. QED
      BY <1>3, <3>1, <3>2
  <2>4. CASE ~(n <= p) /\ n <= k
    <3> DEFINE y == n - p
    <3>1. n \in 1..k /\ y \in 1..(j - i) /\ x(n) = i + y
      BY <1>1, <2>1, <2>4 DEF Exchanged
    <3>2. text[n] = c[y]
      BY <1>11, <2>4, <3>1
    <3> HIDE DEF y, x
    <3>3. QED
      BY <1>4, <3>1, <3>2
  <2>5. CASE ~(n <= k)
    <3> DEFINE y == n - k
    <3>1. y \in 1..(N - k) /\ x(n) = n /\ k + y = n
      BY <1>1, <2>5 DEF Exchanged
    <3>2. text[n] = d[y]
      BY <1>11, <2>5
    <3> HIDE DEF y, x
    <3>3. QED
      BY <1>5, <3>1, <3>2
  <2>6. n <= i => n <= p
    BY <1>1, <2>1
  <2>7. QED
    BY <2>2, <2>3, <2>4, <2>5, <2>6
<1>13. QED
  BY <1>6, <1>11, <1>12 DEF N, Exchange

LEMMA OrderStart == Init => OrderInv
BY DEF Init, ParserInit, OrderInv, Start

LEMMA OrderAlways == Spec => [](ReadingInv /\ OrderInv)
<1>1. QED
  BY ReadingStart, ReadingKeeps, OrderStart, OrderKeeps, PTL DEF Spec

LEMMA OrderDoesNotMatter == ReadingInv /\ OrderInv => RecordOrderIsIrrelevant
<1> SUFFICES ASSUME ReadingInv, OrderInv, parser.verdict = "accepted",
                    NEW i \in 0..Len(statements), NEW j \in 0..Len(statements), NEW k \in 0..Len(statements),
                    Block(i + 1) = 0, Block(j + 1) = 0, Block(k + 1) = 0, i < j, j < k
             PROVE  Parse(ExchangedIn(i, j, k)) = parser
  BY DEF RecordOrderIsIrrelevant, ExchangedIn
<1> DEFINE N == Len(statements)
           text == ExchangedIn(i, j, k)
<1>1. IsText(statements) /\ limits.subcircuits \in Int /\ limits.elements \in Int
  BY SizeAssumption DEF ReadingInv, TextInv
<1>2. Read(N) /\ Owner(N + 1) = Root /\ parser = Ended(After(1..N, Root))
  BY DEF OrderInv
<1>3. IsOrder(Exchange(i, j, k), Len(statements))
  BY <1>1, <1>2, ExchangeIsOrder
<1>4. Len(text) = N /\ \A n \in 1..N : text[n] = statements[Exchange(i, j, k)[n]]
  BY <1>1, ExchangedText
<1> HIDE DEF text
<1>5. Parse(text) = Ended(After(1..Len(statements), Root))
  BY <1>1, <1>2, <1>3, <1>4, AnyOrder
<1>6. QED
  BY <1>2, <1>5 DEF text

\* Exchanging two neighbouring runs of whole blocks and lines of the root
\* changes neither what is accepted nor what is read, for texts of any length.
THEOREM RecordOrderAlways == Spec => []RecordOrderIsIrrelevant
<1>1. QED
  BY OrderAlways, OrderDoesNotMatter, PTL
=============================================================================
