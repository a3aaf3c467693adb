------------------------ MODULE TopologySearchProofs ------------------------
(***************************************************************************)
(* The search with the shipped rules: the theorems of SearchLoopProofs,    *)
(* which hold for every catalogue, hold for this one.  What they ask of a  *)
(* catalogue is proved here from the lemmas of CatalogueProofs.            *)
(***************************************************************************)
EXTENDS CompareRuns, CatalogueProofs

(***************************************************************************)
(* The derivations of a specification, level by level.                     *)
(***************************************************************************)
\* The first n + 1 levels, as a function.
IsLevels(sp, n, level) ==
  level = [m \in 0..n |-> IF m = 0 THEN {Start(sp)} ELSE UNION {Successors(sp, s) : s \in level[m - 1]}]

LEMMA LevelsExist ==
  ASSUME NEW sp PROVE \A n \in Nat : \E level : IsLevels(sp, n, level)
<1> DEFINE T == {n \in Nat : \E level : IsLevels(sp, n, level)}
<1>1. 0 \in T
  <2> DEFINE level == [m \in 0..0 |-> {Start(sp)}]
  <2>1. IsLevels(sp, 0, level)
    BY DEF IsLevels
  <2>2. QED
    BY <2>1
<1>2. ASSUME NEW n \in Nat, n \in T PROVE n + 1 \in T
  <2>1. PICK level : IsLevels(sp, n, level)
    BY <1>2
  <2> DEFINE longer == [m \in 0..(n + 1) |-> IF m = n + 1 THEN UNION {Successors(sp, s) : s \in level[n]}
                                             ELSE level[m]]
  <2>2. /\ DOMAIN level = 0..n
        /\ \A m \in 0..n : level[m] = IF m = 0 THEN {Start(sp)} ELSE UNION {Successors(sp, s) : s \in level[m - 1]}
    BY <2>1 DEF IsLevels
  <2>3. /\ \A m \in 0..n : longer[m] = level[m]
        /\ longer[n + 1] = UNION {Successors(sp, s) : s \in level[n]}
    OBVIOUS
  <2>4. \A m \in 0..(n + 1) :
          longer[m] = IF m = 0 THEN {Start(sp)} ELSE UNION {Successors(sp, s) : s \in longer[m - 1]}
    <3> HIDE DEF longer
    <3>1. SUFFICES ASSUME NEW m \in 0..(n + 1)
                   PROVE  longer[m] = IF m = 0 THEN {Start(sp)} ELSE UNION {Successors(sp, s) : s \in longer[m - 1]}
      OBVIOUS
    <3>2. CASE m \in 0..n
      <4>1. m = 0 \/ m - 1 \in 0..n
        BY <3>2
      <4>2. QED
        BY <2>2, <2>3, <3>2, <4>1
    <3>3. CASE m = n + 1
      <4>1. m # 0 /\ m - 1 = n /\ n \in 0..n
        BY <3>3
      <4>2. QED
        BY <2>3, <3>3, <4>1
    <3>4. QED
      BY <3>2, <3>3
  <2>5. longer = [m \in 0..(n + 1) |-> IF m = 0 THEN {Start(sp)}
                                       ELSE UNION {Successors(sp, s) : s \in longer[m - 1]}]
    <3> DEFINE other == [m \in 0..(n + 1) |-> IF m = 0 THEN {Start(sp)}
                                              ELSE UNION {Successors(sp, s) : s \in longer[m - 1]}]
    <3>1. longer = [m \in 0..(n + 1) |-> longer[m]] /\ other = [m \in 0..(n + 1) |-> other[m]]
      OBVIOUS
    <3>2. \A m \in 0..(n + 1) : longer[m] = other[m]
      <4> HIDE DEF longer
      <4>1. QED
        BY <2>4
    <3> HIDE DEF longer, other
    <3>3. longer = other
      BY <3>1, <3>2
    <3>4. QED
      BY <3>3 DEF other
  <2> HIDE DEF longer
  <2>6. IsLevels(sp, n + 1, longer)
    BY <2>5 DEF IsLevels
  <2>7. QED
    BY <2>6
<1> HIDE DEF T
<1>3. \A n \in Nat : n \in T
  BY <1>1, <1>2, NaturalInduction
<1>4. QED
  BY <1>3 DEF T

Levels(sp) == CHOOSE level : IsLevels(sp, MaxSteps, level)

LEMMA LevelsFacts ==
  ASSUME NEW sp
  PROVE  /\ Derivable(sp) = UNION {Levels(sp)[n] : n \in 0..MaxSteps}
         /\ Levels(sp)[0] = {Start(sp)}
         /\ \A n \in 1..MaxSteps : Levels(sp)[n] = UNION {Successors(sp, s) : s \in Levels(sp)[n - 1]}
<1>1. MaxSteps \in Nat
  BY SpecsAssumption
<1>2. IsLevels(sp, MaxSteps, Levels(sp))
  BY <1>1, LevelsExist DEF Levels
<1>3. Derivable(sp) = UNION {Levels(sp)[n] : n \in 0..MaxSteps}
  BY DEF Derivable, Levels, IsLevels
<1>4. QED
  BY <1>1, <1>2, <1>3 DEF IsLevels

LEMMA SuccessorsFacts ==
  ASSUME NEW sp, NEW s, NEW c \in Successors(sp, s)
  PROVE  \E r : MayApply(sp, s, r) /\ c = Child(sp, s, r) /\ c.trace = Append(s.trace, r)
<1>1. PICK r : MayApply(sp, s, r) /\ c = Child(sp, s, r)
  BY DEF Successors, MayApply
<1>2. c.trace = Append(s.trace, r)
  BY <1>1, ChildNotes DEF Notes, MayApply
<1>3. QED
  BY <1>1, <1>2

\* The n-th level holds derived states of n rules, one for each trace.
LEMMA LevelDerived ==
  ASSUME NEW sp, Described(sp)
  PROVE  \A n \in 0..MaxSteps : \A s \in Levels(sp)[n] : Derived(sp, s) /\ Len(s.trace) = n
<1> DEFINE Holds(n) == \A s \in Levels(sp)[n] : Derived(sp, s) /\ Len(s.trace) = n
           T == {n \in Nat : n \in 0..MaxSteps => Holds(n)}
<1>1. 0 \in T
  <2>1. Derived(sp, Start(sp)) /\ Len(Start(sp).trace) = 0
    BY DerivedStart, StartFacts
  <2>2. QED
    BY <2>1, LevelsFacts
<1>2. ASSUME NEW n \in Nat, n \in T PROVE n + 1 \in T
  <2>1. SUFFICES ASSUME n + 1 \in 0..MaxSteps, NEW c \in Levels(sp)[n + 1]
                 PROVE  Derived(sp, c) /\ Len(c.trace) = n + 1
    OBVIOUS
  <2>2. n \in 0..MaxSteps /\ n + 1 \in 1..MaxSteps /\ (n + 1) - 1 = n /\ Holds(n)
    BY <1>2, <2>1, SpecsAssumption
  <2>3. PICK s \in Levels(sp)[n] : c \in Successors(sp, s)
    BY <2>1, <2>2, LevelsFacts
  <2>4. PICK r : MayApply(sp, s, r) /\ c = Child(sp, s, r) /\ c.trace = Append(s.trace, r)
    BY <2>3, SuccessorsFacts
  <2>5. Derived(sp, s) /\ Len(s.trace) = n
    BY <2>2, <2>3
  <2> HIDE DEF Holds, T
  <2>6. Derived(sp, c)
    BY <2>4, <2>5, DerivedStep
  <2>7. s.trace \in Seq(Rules) /\ r \in Rules
    BY <2>4, <2>5 DEF Derived, Ordered, MayApply
  <2>8. Len(c.trace) = Len(s.trace) + 1
    BY <2>4, <2>7, AppendProperties
  <2>9. QED
    BY <2>5, <2>6, <2>8
<1> HIDE DEF T
<1>3. \A n \in Nat : n \in T
  BY <1>1, <1>2, NaturalInduction
<1>4. QED
  BY <1>3 DEF T

\* The last rule of a trace and the trace before it are known from the trace.
LEMMA SameAppend ==
  ASSUME NEW s \in Seq(Rules), NEW t \in Seq(Rules), NEW r \in Rules, NEW q \in Rules,
         Append(s, r) = Append(t, q)
  PROVE  s = t /\ r = q
<1>1. /\ Len(s) \in Nat /\ Len(t) \in Nat
      /\ Len(Append(s, r)) = Len(s) + 1 /\ Append(s, r)[Len(s) + 1] = r
      /\ \A i \in 1..Len(s) : Append(s, r)[i] = s[i]
  BY AppendProperties, LenProperties
<1>2. /\ Len(Append(t, q)) = Len(t) + 1 /\ Append(t, q)[Len(t) + 1] = q
      /\ \A i \in 1..Len(t) : Append(t, q)[i] = t[i]
  BY AppendProperties
<1>3. Len(s) = Len(t)
  <2>1. Len(s) + 1 = Len(t) + 1
    BY <1>1, <1>2
  <2>2. \A m, n \in Nat : m + 1 = n + 1 => m = n
    OBVIOUS
  <2>3. QED
    BY <1>1, <2>1, <2>2
<1>4. \A i \in 1..Len(s) : s[i] = t[i]
  BY <1>1, <1>2, <1>3
<1>5. QED
  BY <1>1, <1>2, <1>3, <1>4, SeqEqual

LEMMA LevelTraces ==
  ASSUME NEW sp, Described(sp)
  PROVE  \A n \in 0..MaxSteps : \A c \in Levels(sp)[n], d \in Levels(sp)[n] : c.trace = d.trace => c = d
<1> DEFINE Holds(n) == \A c \in Levels(sp)[n], d \in Levels(sp)[n] : c.trace = d.trace => c = d
           T == {n \in Nat : n \in 0..MaxSteps => Holds(n)}
<1>1. 0 \in T
  BY LevelsFacts
<1>2. ASSUME NEW n \in Nat, n \in T PROVE n + 1 \in T
  <2>1. SUFFICES ASSUME n + 1 \in 0..MaxSteps, NEW c \in Levels(sp)[n + 1], NEW d \in Levels(sp)[n + 1],
                        c.trace = d.trace
                 PROVE  c = d
    OBVIOUS
  <2>2. n \in 0..MaxSteps /\ n + 1 \in 1..MaxSteps /\ (n + 1) - 1 = n /\ Holds(n)
    BY <1>2, <2>1, SpecsAssumption
  <2>3. PICK s \in Levels(sp)[n] : c \in Successors(sp, s)
    BY <2>1, <2>2, LevelsFacts
  <2>4. PICK t \in Levels(sp)[n] : d \in Successors(sp, t)
    BY <2>1, <2>2, LevelsFacts
  <2>5. PICK r : MayApply(sp, s, r) /\ c = Child(sp, s, r) /\ c.trace = Append(s.trace, r)
    BY <2>3, SuccessorsFacts
  <2>6. PICK q : MayApply(sp, t, q) /\ d = Child(sp, t, q) /\ d.trace = Append(t.trace, q)
    BY <2>4, SuccessorsFacts
  <2>7. s.trace \in Seq(Rules) /\ t.trace \in Seq(Rules) /\ r \in Rules /\ q \in Rules
    BY <2>2, <2>3, <2>4, <2>5, <2>6, LevelDerived DEF Derived, Ordered, MayApply
  <2>8. s.trace = t.trace /\ r = q
    <3>1. Len(s.trace) = n /\ Len(t.trace) = n
      BY <2>2, LevelDerived
    <3>2. c.trace[n + 1] = r /\ \A i \in 1..n : c.trace[i] = s.trace[i]
      BY <2>5, <2>7, <3>1, AppendProperties
    <3>3. d.trace[n + 1] = q /\ \A i \in 1..n : d.trace[i] = t.trace[i]
      BY <2>6, <2>7, <3>1, AppendProperties
    <3>4. s.trace = t.trace
      BY <2>1, <2>7, <3>1, <3>2, <3>3, SeqEqual
    <3>5. QED
      BY <2>1, <3>2, <3>3, <3>4
  <2>9. s = t
    BY <2>2, <2>3, <2>4, <2>8
  <2>10. QED
    BY <2>5, <2>6, <2>8, <2>9
<1> HIDE DEF T
<1>3. \A n \in Nat : n \in T
  BY <1>1, <1>2, NaturalInduction
<1>4. QED
  BY <1>3 DEF T

\* What can be derived is closed under the rules, and is contained in every set
\* that is.
LEMMA DerivableFacts ==
  ASSUME NEW sp, Described(sp)
  PROVE  /\ Start(sp) \in Derivable(sp)
         /\ \A s \in Derivable(sp) : Derived(sp, s)
         /\ \A s \in Derivable(sp), t \in Derivable(sp) : s.trace = t.trace => s = t
         /\ \A s \in Derivable(sp) : \A c \in Successors(sp, s) : c \in Derivable(sp)
<1>1. /\ Derivable(sp) = UNION {Levels(sp)[n] : n \in 0..MaxSteps} /\ MaxSteps \in Nat /\ MaxSteps >= 5
      /\ Levels(sp)[0] = {Start(sp)}
      /\ \A n \in 1..MaxSteps : Levels(sp)[n] = UNION {Successors(sp, s) : s \in Levels(sp)[n - 1]}
  BY LevelsFacts, SpecsAssumption
<1>2. \A s : s \in Derivable(sp) <=> \E n \in 0..MaxSteps : s \in Levels(sp)[n]
  BY <1>1
<1>3. Start(sp) \in Derivable(sp)
  BY <1>1, <1>2
<1>4. \A s \in Derivable(sp) : Derived(sp, s)
  BY <1>2, LevelDerived
<1>5. \A s \in Derivable(sp), t \in Derivable(sp) : s.trace = t.trace => s = t
  <2>1. SUFFICES ASSUME NEW s \in Derivable(sp), NEW t \in Derivable(sp), s.trace = t.trace PROVE s = t
    OBVIOUS
  <2>2. PICK n \in 0..MaxSteps : s \in Levels(sp)[n]
    BY <1>2
  <2>3. PICK m \in 0..MaxSteps : t \in Levels(sp)[m]
    BY <1>2
  <2>4. n = m
    BY <2>1, <2>2, <2>3, LevelDerived
  <2>5. QED
    BY <2>1, <2>2, <2>3, <2>4, LevelTraces
<1>6. ASSUME NEW s \in Derivable(sp), NEW c \in Successors(sp, s) PROVE c \in Derivable(sp)
  <2>1. PICK n \in 0..MaxSteps : s \in Levels(sp)[n]
    BY <1>2
  <2>2. Derived(sp, s) /\ Len(s.trace) = n
    BY <2>1, LevelDerived
  <2>3. PICK r : MayApply(sp, s, r)
    BY <1>6, SuccessorsFacts
  <2>4. n + 1 \in 1..Len(Plan(sp))
    <3> DEFINE d == Child(sp, s, r)
    <3>1. Ordered(sp, s) /\ d.obligations = Tail(s.obligations) /\ d.trace = Append(s.trace, r)
      BY <2>2, <2>3, ChildNotes DEF Derived, Notes, MayApply
    <3> HIDE DEF d
    <3>2. Len(s.trace) + 1 \in 1..Len(Plan(sp))
      BY <2>3, <3>1, OrderedStep
    <3>3. QED
      BY <2>2, <3>2
  <2>5. n + 1 \in 1..MaxSteps /\ (n + 1) - 1 = n
    <3>1. PICK k \in 3..5 : k = Len(Plan(sp))
      BY PlanFacts
    <3>2. QED
      BY <1>1, <2>4, <3>1
  <2>6. c \in Levels(sp)[n + 1] /\ n + 1 \in 0..MaxSteps
    BY <1>1, <1>6, <2>1, <2>5
  <2>7. QED
    BY <1>2, <2>6
<1>7. QED
  BY <1>3, <1>4, <1>5, <1>6

LEMMA DerivableLeast ==
  ASSUME NEW sp, NEW S, Start(sp) \in S, \A s \in S : Successors(sp, s) \subseteq S
  PROVE  Derivable(sp) \subseteq S
<1> DEFINE T == {n \in Nat : n \in 0..MaxSteps => Levels(sp)[n] \subseteq S}
<1>1. 0 \in T
  BY LevelsFacts
<1>2. ASSUME NEW n \in Nat, n \in T PROVE n + 1 \in T
  <2>1. SUFFICES ASSUME n + 1 \in 0..MaxSteps PROVE Levels(sp)[n + 1] \subseteq S
    OBVIOUS
  <2>2. n \in 0..MaxSteps /\ n + 1 \in 1..MaxSteps /\ (n + 1) - 1 = n /\ Levels(sp)[n] \subseteq S
    BY <1>2, <2>1, SpecsAssumption
  <2>3. Levels(sp)[n + 1] = UNION {Successors(sp, s) : s \in Levels(sp)[n]}
    BY <2>2, LevelsFacts
  <2>4. QED
    BY <2>2, <2>3
<1> HIDE DEF T
<1>3. \A n \in Nat : n \in T
  BY <1>1, <1>2, NaturalInduction
<1>4. QED
  BY <1>3, SpecsAssumption, LevelsFacts DEF T

(***************************************************************************)
(* The loop of SearchLoopProofs, with this catalogue.                      *)
(***************************************************************************)
Loop == INSTANCE SearchLoopProofs
          WITH States <- Derivable,
               Signatures <- UNION {{StateSignature(sp, s) : s \in Derivable(sp)} : sp \in Specs},
               TopologySignatures <-
                 UNION {{TopologySignature(sp, s) : s \in Derivable(sp)} : sp \in Specs}

LEMMA DerivableChild ==
  ASSUME NEW sp \in Specs, NEW s \in Derivable(sp), ~Complete(s),
         NEW r \in Rules, Answers(r) = FirstKind(s), Permits(sp, s, r)
  PROVE  /\ MayApply(sp, s, r) /\ Child(sp, s, r) \in Derivable(sp)
         /\ Derived(sp, s) /\ Derived(sp, Child(sp, s, r))
         /\ Len(Child(sp, s, r).trace) = Len(s.trace) + 1 /\ Len(s.trace) \in Nat
<1>1. Described(sp)
  BY SpecsAssumption
<1>2. MayApply(sp, s, r)
  BY DEF MayApply
<1>3. Child(sp, s, r) \in Successors(sp, s)
  BY DEF Successors
<1>4. Derived(sp, s) /\ Child(sp, s, r) \in Derivable(sp)
  BY <1>1, <1>3, DerivableFacts
<1>5. Derived(sp, Child(sp, s, r))
  BY <1>1, <1>4, DerivableFacts
<1> DEFINE c == Child(sp, s, r)
<1>6. Ordered(sp, s) /\ c.obligations = Tail(s.obligations) /\ c.trace = Append(s.trace, r)
  BY <1>2, <1>4, ChildNotes DEF Derived, Notes
<1> HIDE DEF c
<1>7. Len(c.trace) = Len(s.trace) + 1 /\ Len(s.trace) \in Nat
  BY <1>2, <1>6, OrderedStep
<1>8. QED
  BY <1>2, <1>4, <1>5, <1>7 DEF c

LEMMA FirstKindType ==
  ASSUME NEW sp, NEW s, Derived(sp, s), ~Complete(s) PROVE FirstKind(s) \in Kinds
<1>1. s.obligations \in Seq(Kinds) /\ s.obligations # <<>>
  BY DEF Derived, Ordered, Complete
<1>2. s.obligations[1] \in Kinds /\ Head(s.obligations) = s.obligations[1]
  BY <1>1, EmptySeq, LenProperties, HeadTailProperties, ElementOfSeq
<1>3. QED
  BY <1>2 DEF FirstKind

LEMMA DerivableState ==
  ASSUME NEW sp \in Specs, NEW s \in Derivable(sp)
  PROVE  /\ Depth(s) \in Nat /\ Complete(s) \in BOOLEAN
         /\ PartialErrors(sp, s) \in [Codes -> Nat] /\ FinalErrors(sp, s) \in [Codes -> Nat]
         /\ \A code \in PartialCodes : FinalErrors(sp, s)[code] = PartialErrors(sp, s)[code]
         /\ \A code \in Codes \ PartialCodes : PartialErrors(sp, s)[code] = 0
<1>1. Derived(sp, s)
  BY SpecsAssumption, DerivableFacts
<1>2. Sound(s.topology) /\ s.trace \in Seq(Rules)
  BY <1>1 DEF Derived, Furnished, Ordered
<1>3. Depth(s) \in Nat
  BY <1>2, LenProperties DEF Depth
<1>4. Complete(s) \in BOOLEAN
  BY DEF Complete
<1>5. /\ PartialErrors(sp, s) \in [Codes -> Nat] 
      /\ \A code \in Codes \ PartialCodes : PartialErrors(sp, s)[code] = 0
  BY <1>2, PartialErrorsMean
<1>6. QED
  BY <1>2, <1>3, <1>4, <1>5, FinalErrorsType

(***************************************************************************)
(* What SearchLoop assumes of a catalogue holds of this one.               *)
(***************************************************************************)
LEMMA LoopProblem ==
  \A sp \in Specs :
    /\ Start(sp) \in Derivable(sp)
    /\ \A s \in Derivable(sp) :
         /\ Depth(s) \in Nat
         /\ Complete(s) \in BOOLEAN
         /\ StateSignature(sp, s)
              \in UNION {{StateSignature(q, t) : t \in Derivable(q)} : q \in Specs}
         /\ TopologySignature(sp, s)
              \in UNION {{TopologySignature(q, t) : t \in Derivable(q)} : q \in Specs}
         /\ PartialErrors(sp, s) \in Loop!ErrorCounts
         /\ FinalErrors(sp, s) \in Loop!ErrorCounts
         /\ ~Complete(s) =>
              /\ FirstKind(s) \in Kinds
              /\ \A r \in Loop!Applicable(sp, s) : Child(sp, s, r) \in Derivable(sp)
<1>1. ASSUME NEW sp \in Specs PROVE Start(sp) \in Derivable(sp)
  BY SpecsAssumption, DerivableFacts
<1>2. ASSUME NEW sp \in Specs, NEW s \in Derivable(sp)
      PROVE  /\ Depth(s) \in Nat /\ Complete(s) \in BOOLEAN
             /\ PartialErrors(sp, s) \in Loop!ErrorCounts
             /\ FinalErrors(sp, s) \in Loop!ErrorCounts
  BY DerivableState DEF Loop!ErrorCounts
<1>3. ASSUME NEW sp \in Specs, NEW s \in Derivable(sp)
      PROVE  /\ StateSignature(sp, s)
                  \in UNION {{StateSignature(q, t) : t \in Derivable(q)} : q \in Specs}
             /\ TopologySignature(sp, s)
                  \in UNION {{TopologySignature(q, t) : t \in Derivable(q)} : q \in Specs}
  OBVIOUS
<1>4. ASSUME NEW sp \in Specs, NEW s \in Derivable(sp), ~Complete(s) PROVE FirstKind(s) \in Kinds
  BY <1>4, SpecsAssumption, DerivableFacts, FirstKindType
<1>5. ASSUME NEW sp \in Specs, NEW s \in Derivable(sp), ~Complete(s), NEW r \in Loop!Applicable(sp, s)
      PROVE  Child(sp, s, r) \in Derivable(sp)
  BY <1>5, DerivableChild DEF Loop!Applicable, Loop!Governing
<1>6. QED
  BY <1>1, <1>2, <1>3, <1>4, <1>5

LEMMA SameState ==
  ASSUME NEW sp \in Specs, NEW s \in Derivable(sp), NEW t \in Derivable(sp),
         StateSignature(sp, s) = StateSignature(sp, t)
  PROVE  s = t
<1>1. s.obligations = t.obligations /\ s.facts = t.facts
  BY DEF StateSignature
<1>2. Described(sp) /\ Derived(sp, s) /\ Derived(sp, t)
  BY SpecsAssumption, DerivableFacts
<1>3. s.trace = t.trace
  BY <1>1, <1>2, SameTrace
<1>4. QED
  BY <1>2, <1>3, DerivableFacts

LEMMA LoopSignature ==
  \A sp \in Specs : \A s \in Derivable(sp), t \in Derivable(sp) :
    StateSignature(sp, s) = StateSignature(sp, t) => Loop!SameFuture(sp, s, t)
<1>1. SUFFICES ASSUME NEW sp \in Specs, NEW s \in Derivable(sp), NEW t \in Derivable(sp),
                      StateSignature(sp, s) = StateSignature(sp, t)
               PROVE  Loop!SameFuture(sp, s, t)
  OBVIOUS
<1>2. s = t
  BY <1>1, SameState
<1>3. QED
  BY <1>2 DEF Loop!SameFuture

LEMMA LoopPruning ==
  \A sp \in Specs : \A s \in Derivable(sp) :
    /\ Complete(s) /\ Loop!HasError(PartialErrors(sp, s)) => Loop!HasError(FinalErrors(sp, s))
    /\ ~Complete(s) =>
         \A r \in Loop!Applicable(sp, s) :
           /\ Depth(Child(sp, s, r)) >= Depth(s)
           /\ Loop!HasError(PartialErrors(sp, s)) => Loop!HasError(PartialErrors(sp, Child(sp, s, r)))
<1>1. ASSUME NEW sp \in Specs, NEW s \in Derivable(sp), Loop!HasError(PartialErrors(sp, s))
      PROVE  \E code \in PartialCodes : code \in Codes /\ PartialErrors(sp, s)[code] > 0
  <2>1. PICK code \in Codes : PartialErrors(sp, s)[code] > 0
    BY <1>1 DEF Loop!HasError
  <2>2. code \in PartialCodes
    BY <2>1, DerivableState
  <2>3. QED
    BY <2>1, <2>2
<1>2. ASSUME NEW sp \in Specs, NEW s \in Derivable(sp), Loop!HasError(PartialErrors(sp, s))
      PROVE  Loop!HasError(FinalErrors(sp, s))
  <2>1. PICK code \in PartialCodes : code \in Codes /\ PartialErrors(sp, s)[code] > 0
    BY <1>1, <1>2
  <2>2. FinalErrors(sp, s)[code] > 0
    BY <2>1, DerivableState
  <2>3. QED
    BY <2>1, <2>2 DEF Loop!HasError
<1>3. ASSUME NEW sp \in Specs, NEW s \in Derivable(sp), ~Complete(s), NEW r \in Loop!Applicable(sp, s)
      PROVE  /\ Depth(Child(sp, s, r)) >= Depth(s)
             /\ Loop!HasError(PartialErrors(sp, s)) => Loop!HasError(PartialErrors(sp, Child(sp, s, r)))
  <2> DEFINE c == Child(sp, s, r)
  <2>1. r \in Rules /\ Answers(r) = FirstKind(s) /\ Permits(sp, s, r)
    BY DEF Loop!Applicable, Loop!Governing
  <2>2. /\ MayApply(sp, s, r) /\ Derived(sp, s) /\ Derived(sp, c)
        /\ Len(c.trace) = Len(s.trace) + 1 /\ Len(s.trace) \in Nat
    BY <1>3, <2>1, DerivableChild
  <2>3. Described(sp) /\ Keeps(s.topology, c.topology)
    BY <2>2, SpecsAssumption, DerivedStep
  <2>4. sp.limits.max_devices \in Nat /\ Sound(s.topology) /\ Sound(c.topology)
    BY <2>2, <2>3 DEF Described, Derived, Furnished
  <2> HIDE DEF c
  <2>5. \A code \in PartialCodes : PartialErrors(sp, s)[code] > 0 => PartialErrors(sp, c)[code] > 0
    BY <2>3, <2>4, ErrorsStay
  <2>6. Loop!HasError(PartialErrors(sp, s)) => Loop!HasError(PartialErrors(sp, c))
    BY <1>1, <2>5 DEF Loop!HasError
  <2>7. Depth(c) >= Depth(s)
    BY <2>2 DEF Depth
  <2>8. QED
    BY <2>6, <2>7 DEF c
<1>4. QED
  BY <1>2, <1>3

LEMMA LoopCatalogue == Loop!IsFiniteSet(Rules) /\ \A r \in Rules : Position(r) \in Nat
<1>1. IsFiniteSet(Rules)
  <2>1. \A a, b : IsFiniteSet({a} \cup {b})
    BY FS_Singleton, FS_Union
  <2>2. IsFiniteSet({"input.diff_pair"} \cup {"input.common_source"})
    BY <2>1
  <2>3. IsFiniteSet({"tail.current_source"} \cup {"tail.resistor"})
    BY <2>1
  <2>4. IsFiniteSet({"load.resistive"} \cup {"load.active_mirror"})
    BY <2>1
  <2>5. IsFiniteSet({"output.direct"} \cup {"output.source_follower"})
    BY <2>1
  <2>6. IsFiniteSet({"compensation.capacitor"})
    BY FS_Singleton
  <2> DEFINE A == {"input.diff_pair"} \cup {"input.common_source"}
             B == {"tail.current_source"} \cup {"tail.resistor"}
             C == {"load.resistive"} \cup {"load.active_mirror"}
             D == {"output.direct"} \cup {"output.source_follower"}
             E == {"compensation.capacitor"}
  <2>7. Rules = (((A \cup B) \cup C) \cup D) \cup E
    BY DEF Rules
  <2> HIDE DEF A, B, C, D, E
  <2>8. IsFiniteSet(A) /\ IsFiniteSet(B) /\ IsFiniteSet(C) /\ IsFiniteSet(D) /\ IsFiniteSet(E)
    BY <2>2, <2>3, <2>4, <2>5, <2>6 DEF A, B, C, D, E
  <2>9. QED
    BY <2>7, <2>8, FS_Union
<1>2. ASSUME NEW r \in Rules PROVE Position(r) \in Nat
  <2>1. \E i \in DOMAIN Catalog : Catalog[i] = r
    <3>1. DOMAIN Catalog = 1..9
      BY DEF Catalog
    <3>2. QED
      BY <3>1 DEF Catalog, Rules
  <2>2. Position(r) \in DOMAIN Catalog
    BY <2>1 DEF Position, Index
  <2>3. DOMAIN Catalog \subseteq Nat
    BY DEF Catalog
  <2>4. QED
    BY <2>2, <2>3
<1>3. QED
  BY <1>1, <1>2 DEF Loop!IsFiniteSet, IsFiniteSet

LEMMA IsLoop == (Init => Loop!Init) /\ ([Next]_vars => [Loop!Next]_(Loop!vars))
<1>1. Init => Loop!Init
  BY DEF Init, Loop!Init, Clipped, Loop!Clipped, EmptyLedger, Loop!EmptyLedger, Causes, Loop!Causes
<1>2. ASSUME NEW e PROVE Pop(e) = Loop!Pop(e)
  BY DEF Pop, Loop!Pop, WithinBudget, Loop!WithinBudget, Least, Loop!Least, Cardinality, Loop!Cardinality
<1>3. ASSUME NEW e, PruneDeep(e) PROVE Loop!PruneDeep(e)
  BY <1>2, <1>3 DEF PruneDeep, Loop!PruneDeep, TooDeep, Loop!TooDeep, RecordDepth, Loop!RecordDepth, Reject, Loop!Reject, Increment, Loop!Increment, CountCodes, Loop!CountCodes, NoErrors, Loop!NoErrors
<1>4. ASSUME NEW e, PrunePartial(e) PROVE Loop!PrunePartial(e)
  BY <1>2, <1>4 DEF PrunePartial, Loop!PrunePartial, TooDeep, Loop!TooDeep, Doomed, Loop!Doomed, HasError, Loop!HasError, RecordPartial, Loop!RecordPartial, Reject, Loop!Reject, Increment, Loop!Increment, CountCodes, Loop!CountCodes, NoErrors, Loop!NoErrors
<1>5. ASSUME NEW e, RefuseFinal(e) PROVE Loop!RefuseFinal(e)
  BY <1>2, <1>5 DEF RefuseFinal, Loop!RefuseFinal, Survives, Loop!Survives, TooDeep, Loop!TooDeep, Doomed, Loop!Doomed, HasError, Loop!HasError, RecordFinal, Loop!RecordFinal, Cardinality, Loop!Cardinality, Reject, Loop!Reject, Increment, Loop!Increment, CountCodes, Loop!CountCodes, NoErrors, Loop!NoErrors
<1>6. ASSUME NEW e, Accept(e) PROVE Loop!Accept(e)
  BY <1>2, <1>6 DEF Accept, Loop!Accept, Survives, Loop!Survives, TooDeep, Loop!TooDeep, Doomed, Loop!Doomed, HasError, Loop!HasError
<1>7. ASSUME NEW e, NoRule(e) PROVE Loop!NoRule(e)
  BY <1>2, <1>7 DEF NoRule, Loop!NoRule, Survives, Loop!Survives, TooDeep, Loop!TooDeep, Doomed, Loop!Doomed, HasError, Loop!HasError, Applicable, Loop!Applicable, Governing, Loop!Governing, RecordNoRule, Loop!RecordNoRule, RecordRules, Loop!RecordRules, Reject, Loop!Reject, Increment, Loop!Increment, CountCodes, Loop!CountCodes, NoErrors, Loop!NoErrors
<1>8. ASSUME NEW e, Expand(e) PROVE Loop!Expand(e)
  BY <1>2, <1>8 DEF Expand, Loop!Expand, Survives, Loop!Survives, TooDeep, Loop!TooDeep, Doomed, Loop!Doomed, HasError, Loop!HasError, Applicable, Loop!Applicable, Governing, Loop!Governing, RecordRules, Loop!RecordRules, Increment, Loop!Increment
<1>9. ASSUME NEW r, ApplyRule(r) PROVE Loop!ApplyRule(r)
  BY <1>9 DEF ApplyRule, Loop!ApplyRule
<1>10. Return => Loop!Return
  BY DEF Return, Loop!Return, WithinBudget, Loop!WithinBudget, Cardinality, Loop!Cardinality
<1>11. Next => Loop!Next
  BY <1>3, <1>4, <1>5, <1>6, <1>7, <1>8, <1>9, <1>10 DEF Next, Loop!Next
<1>12. vars = Loop!vars
  BY DEF vars, Loop!vars, loopVars, Loop!loopVars
<1>13. [Next]_vars => [Loop!Next]_(Loop!vars)
  BY <1>11 DEF vars, Loop!vars, loopVars, Loop!loopVars
<1>14. QED
  BY <1>1, <1>13

(***************************************************************************)
(* What the loop calls admissible is what TopologySearch calls acceptable. *)
(***************************************************************************)
LEMMA SameDerivations ==
  ASSUME NEW sp \in Specs PROVE Loop!Derivations(sp) = Derivable(sp)
<1>1. Loop!Derivations(sp) \subseteq Derivable(sp)
  BY DEF Loop!Derivations
<1>2. ASSUME NEW s \in Derivable(sp), NEW S \in SUBSET Derivable(sp), Loop!IsClosed(sp, S)
      PROVE  s \in S
  <2>1. Start(sp) \in S
    BY <1>2 DEF Loop!IsClosed
  <2>2. \A t \in S : Successors(sp, t) \subseteq S
    BY <1>2 DEF Loop!IsClosed, Loop!Applicable, Loop!Governing, Successors
  <2>3. Derivable(sp) \subseteq S
    BY <2>1, <2>2, DerivableLeast
  <2>4. QED
    BY <2>3
<1>3. QED
  BY <1>1, <1>2 DEF Loop!Derivations

LEMMA SameAcceptable ==
  ASSUME NEW sp \in Specs PROVE Loop!AdmissibleTopologies(sp) = Acceptable(sp)
<1>1. ASSUME NEW s \in Derivable(sp)
      PROVE  ~Loop!HasError(FinalErrors(sp, s)) <=> \A c \in Codes : FinalErrors(sp, s)[c] = 0
  <2>1. \A c \in Codes : FinalErrors(sp, s)[c] \in Nat
    BY DerivableState
  <2>2. QED
    BY <2>1 DEF Loop!HasError
<1>2. Loop!Admissible(sp) = Admitted(sp)
  BY <1>1, SameDerivations DEF Loop!Admissible, Admitted
<1>3. AdmittedBy[sp] = Admitted(sp)
  BY DEF AdmittedBy
<1>4. Acceptable(sp) = {TopologySignature(sp, s) : s \in AdmittedBy[sp]}
  BY DEF Acceptable, AcceptableTo
<1>5. QED
  BY <1>2, <1>3, <1>4 DEF Loop!AdmissibleTopologies

\* The invariant of the loop, for this catalogue, and what it means.
LEMMA LoopFacts ==
  /\ Loop!Init => Loop!LoopInv
  /\ Loop!LoopInv /\ [Loop!Next]_(Loop!vars) => Loop!LoopInv'
  /\ Loop!LoopInv => Loop!PromiseInv /\ Loop!Bookkeeping
<1>1. MaxRecorded \in Nat
  BY SpecsAssumption
<1>2. /\ Requests \subseteq Nat \ {0}
      /\ \A sp \in Specs : /\ MaxCandidates(sp) \in Nat \ {0}
                           /\ MaxStates(sp) \in Nat \ {0}
                           /\ MaxDepth(sp) \in Nat \ {0}
  BY SpecsAssumption
<1>3. Loop!Init => Loop!LoopInv
  BY <1>1, <1>2, LoopProblem, LoopSignature, LoopPruning, LoopCatalogue, Loop!LoopInit
<1>4. Loop!LoopInv /\ [Loop!Next]_(Loop!vars) => Loop!LoopInv'
  BY <1>1, <1>2, LoopProblem, LoopSignature, LoopPruning, LoopCatalogue, Loop!LoopNext
<1>5. Loop!LoopInv => Loop!PromiseInv /\ Loop!Bookkeeping
  BY <1>1, <1>2, LoopProblem, LoopSignature, LoopPruning, LoopCatalogue, Loop!LoopMeans
<1>6. QED
  BY <1>3, <1>4, <1>5

LEMMA LoopMeans == Loop!LoopInv => Loop!PromiseInv
  BY LoopFacts

LEMMA LoopStep ==
  Loop!PromiseInv /\ Loop!PromiseInv' /\ [Loop!Next]_(Loop!vars) => [Loop!Promise!Next]_(Loop!Promise!vars)
<1>1. MaxRecorded \in Nat
  BY SpecsAssumption
<1>2. /\ Requests \subseteq Nat \ {0}
      /\ \A sp \in Specs : /\ MaxCandidates(sp) \in Nat \ {0}
                           /\ MaxStates(sp) \in Nat \ {0}
                           /\ MaxDepth(sp) \in Nat \ {0}
  BY SpecsAssumption
<1>3. Loop!PromiseInv /\ Loop!PromiseInv' /\ [Loop!Next]_(Loop!vars) => [Loop!Promise!Next]_(Loop!promised)
  BY <1>1, <1>2, LoopProblem, LoopSignature, LoopPruning, LoopCatalogue, Loop!PromiseStep
<1>4. QED
  BY <1>3 DEF Loop!promised, Loop!Promise!vars

\* Nothing inadmissible is found, and an exhausted search misses nothing.
LEMMA LoopFound ==
  /\ Loop!TypeOK /\ Loop!DerivedInv /\ Loop!CandidatesSound
       => DOMAIN completed \subseteq Loop!AdmissibleTopologies(spec)
  /\ Loop!TypeOK /\ Loop!ExhaustedIsComplete /\ phase = "done" /\ Loop!Exhausted
       => Loop!AdmissibleTopologies(spec) \subseteq DOMAIN completed
<1>1. MaxRecorded \in Nat
  BY SpecsAssumption
<1>2. /\ Requests \subseteq Nat \ {0}
      /\ \A sp \in Specs : /\ MaxCandidates(sp) \in Nat \ {0}
                           /\ MaxStates(sp) \in Nat \ {0}
                           /\ MaxDepth(sp) \in Nat \ {0}
  BY SpecsAssumption
<1>3. ASSUME Loop!TypeOK, Loop!DerivedInv, Loop!CandidatesSound
      PROVE  DOMAIN completed \subseteq Loop!AdmissibleTopologies(spec)
  BY <1>1, <1>2, <1>3, LoopProblem, LoopSignature, LoopPruning, LoopCatalogue, Loop!FoundIsAdmissible
<1>4. ASSUME Loop!TypeOK, Loop!ExhaustedIsComplete, phase = "done", Loop!Exhausted
      PROVE  Loop!AdmissibleTopologies(spec) \subseteq DOMAIN completed
  BY <1>1, <1>2, <1>4, LoopProblem, LoopSignature, LoopPruning, LoopCatalogue, Loop!ExhaustedFindsAll
<1>5. QED
  BY <1>3, <1>4

\* A step of the search is a step of the promise.
LEMMA AbstractInit == Init => Abstract!Init
  BY DEF Init, Abstract!Init, Clipped, Abstract!Granted, Exhausted

LEMMA AbstractStep ==
  ASSUME Loop!LoopInv, [Next]_vars PROVE [Abstract!Next]_(Abstract!vars)
<1>1. [Loop!Next]_(Loop!vars) /\ Loop!LoopInv' /\ Loop!PromiseInv
  BY IsLoop, LoopFacts
<1>2. Loop!PromiseInv'
  <2>1. (Loop!LoopInv => Loop!PromiseInv)'
    BY LoopMeans, PTL
  <2>2. QED
    BY <1>1, <2>1
<1>3. [Loop!Promise!Next]_(Loop!Promise!vars)
  BY <1>1, <1>2, LoopStep
<1>4. spec \in Specs
  BY <1>1 DEF Loop!PromiseInv, Loop!TypeOK
<1>5. ASSUME NEW t \in Loop!AdmissibleTopologies(spec) \ DOMAIN completed, Loop!Promise!Find(t)
      PROVE  Abstract!Next
  <2>1. t \in Acceptable(spec) \ DOMAIN completed
    BY <1>4, SameAcceptable
  <2>2. Abstract!Find(t)
    BY <1>5 DEF Loop!Promise!Find, Abstract!Find, Loop!Promise!Cardinality, Abstract!Cardinality,
                Loop!Exhausted, Exhausted
  <2>3. QED
    BY <2>1, <2>2 DEF Abstract!Next
<1>6. ASSUME Loop!Promise!Stop PROVE Abstract!Next
  <2>1. Abstract!Stop
    BY <1>4, <1>6, SameAcceptable DEF Loop!Promise!Stop, Abstract!Stop, Loop!Exhausted, Exhausted
  <2>2. QED
    BY <2>1 DEF Abstract!Next
<1>7. ASSUME Loop!Promise!CallAgain PROVE Abstract!Next
  <2>1. Abstract!CallAgain
    BY <1>7 DEF Loop!Promise!CallAgain, Abstract!CallAgain, Loop!Promise!Granted, Abstract!Granted,
                Loop!Exhausted, Exhausted
  <2>2. QED
    BY <2>1 DEF Abstract!Next
<1>8. CASE UNCHANGED Loop!Promise!vars
  BY <1>8 DEF Loop!Promise!vars, Abstract!vars, Loop!Exhausted, Exhausted
<1>9. QED
  BY <1>3, <1>5, <1>6, <1>7, <1>8 DEF Loop!Promise!Next

(***************************************************************************)
(* generate_candidates with the nine rules keeps the promise of            *)
(* Enumeration, whatever the specifications and limits: it returns only    *)
(* topologies that some derivation builds within the depth limit and       *)
(* without an error, and a search that reports exhausted returned them all.*)
(***************************************************************************)
THEOREM SearchKeepsPromise == Spec => ImplementsEnumeration
<1>1. Init => Loop!LoopInv
  BY IsLoop, LoopFacts
<1>2. Loop!LoopInv /\ [Next]_vars => Loop!LoopInv'
  BY IsLoop, LoopFacts
<1>3. Loop!LoopInv /\ [Next]_vars => [Abstract!Next]_(Abstract!vars)
  BY AbstractStep
<1>4. QED
  BY <1>1, <1>2, <1>3, AbstractInit, PTL DEF Spec, ImplementsEnumeration, Abstract!Spec

(***************************************************************************)
(* Identity.  A derivation that can be reached shows in its graph, so two  *)
(* complete ones with one signature are the same.                          *)
(***************************************************************************)
LEMMA DerivableShown ==
  ASSUME NEW sp \in Specs PROVE \A s \in Derivable(sp) : Shown(sp, s)
<1> DEFINE S == {s \in Derivable(sp) : Shown(sp, s)}
<1>1. Described(sp)
  BY SpecsAssumption
<1>2. Start(sp) \in S
  BY <1>1, DerivableFacts, ShownStart
<1>3. ASSUME NEW s \in S, NEW c \in Successors(sp, s) PROVE c \in S
  <2>1. s \in Derivable(sp) /\ Shown(sp, s) /\ Derived(sp, s) /\ c \in Derivable(sp)
    BY <1>1, <1>3, DerivableFacts
  <2>2. PICK r : MayApply(sp, s, r) /\ c = Child(sp, s, r)
    BY <1>3, SuccessorsFacts
  <2>3. Shown(sp, c)
    BY <2>1, <2>2, ShownStep
  <2>4. QED
    BY <2>1, <2>3
<1> HIDE DEF S
<1>4. Derivable(sp) \subseteq S
  BY <1>2, <1>3, DerivableLeast
<1>5. QED
  BY <1>4 DEF S

LEMMA SameTopology ==
  ASSUME NEW sp \in Specs, NEW s \in Derivable(sp), NEW t \in Derivable(sp),
         Complete(s), Complete(t), TopologySignature(sp, s) = TopologySignature(sp, t)
  PROVE  s = t
<1>1. Described(sp) /\ Derived(sp, s) /\ Derived(sp, t) /\ Shown(sp, s) /\ Shown(sp, t)
  BY SpecsAssumption, DerivableFacts, DerivableShown
<1>2. Seen(s.topology) = Seen(t.topology)
  BY <1>1, SameCanonical DEF TopologySignature, Shown
<1>3. s.trace = t.trace
  BY <1>1, <1>2, SameLook
<1>4. QED
  BY <1>1, <1>3, DerivableFacts

(***************************************************************************)
(* No work is done twice: every state the search has reached, other than   *)
(* the start, came from one closed state by one rule, which is not in hand *)
(* any more; a rule in hand therefore builds a state not yet seen.         *)
(***************************************************************************)
Origins ==
  \A u \in Loop!Reached : \A p \in Derivable(spec), r \in Rules :
    u.trace = Append(p.trace, r) => p \in closed /\ (p = current => r \notin work)
OriginInv == duplicates = 0 /\ (work # {} => current \in closed) /\ Origins

\* What the invariant of the loop says of the states it has reached.
LEMMA LoopReached ==
  ASSUME Loop!LoopInv
  PROVE  /\ spec \in Specs /\ Loop!Reached \subseteq Derivable(spec)
         /\ work # {} => current \in Derivable(spec) /\ ~Complete(current)
         /\ work \subseteq Rules
         /\ \A r \in work : Answers(r) = FirstKind(current) /\ Permits(spec, current, r)
         /\ seen = {StateSignature(spec, s) : s \in Loop!Reached}
         /\ \A e \in queue : e.state \notin closed
         /\ IsFiniteSet(closed)
<1>1. /\ Loop!TypeOK /\ Loop!WorkInv /\ Loop!DerivedInv /\ Loop!BooksInv
  BY DEF Loop!LoopInv
<1>2. spec \in Specs /\ work \subseteq Rules
  BY <1>1 DEF Loop!TypeOK
<1>3. Loop!Reached \subseteq Derivable(spec) /\ (work # {} => current \in Derivable(spec))
  BY <1>1, <1>2, SameDerivations DEF Loop!DerivedInv
<1>4. /\ work # {} => ~Complete(current)
      /\ \A r \in work : Answers(r) = FirstKind(current) /\ Permits(spec, current, r)
  BY <1>1 DEF Loop!WorkInv, Loop!Applicable, Loop!Governing
<1>5. /\ seen = {StateSignature(spec, s) : s \in Loop!Reached}
      /\ \A e \in queue, c \in closed : StateSignature(spec, e.state) # StateSignature(spec, c)
      /\ Loop!IsFiniteSet(closed)
  BY <1>1 DEF Loop!BooksInv, Loop!SeenInv, Loop!KeysInv, Loop!Sig
<1>6. IsFiniteSet(closed)
  BY <1>5 DEF Loop!IsFiniteSet, IsFiniteSet
<1>7. QED
  BY <1>2, <1>3, <1>4, <1>5, <1>6

LEMMA OriginInit == Init => OriginInv
<1> SUFFICES ASSUME Init PROVE OriginInv
  OBVIOUS
<1>1. /\ spec \in Specs /\ duplicates = 0 /\ work = {} /\ closed = {}
      /\ queue = {[serial |-> 0, state |-> Start(spec)]}
  BY DEF Init
<1>2. Loop!Reached = {Start(spec)}
  BY <1>1 DEF Loop!Reached
<1>3. ASSUME NEW p \in Derivable(spec), NEW r \in Rules PROVE Start(spec).trace # Append(p.trace, r)
  <2>1. p.trace \in Seq(Rules)
    BY <1>1, SpecsAssumption, DerivableFacts DEF Derived, Ordered
  <2>2. Append(p.trace, r) # <<>>
    BY <2>1, AppendProperties
  <2>3. QED
    BY <2>2, StartFacts
<1>4. QED
  BY <1>1, <1>2, <1>3 DEF OriginInv, Origins

LEMMA OriginPop ==
  ASSUME Loop!LoopInv, OriginInv, NEW e \in queue, Pop(e) PROVE OriginInv'
<1>1. /\ spec' = spec /\ current' = e.state /\ closed' = closed \cup {e.state} /\ queue' = queue \ {e}
      /\ duplicates' = duplicates /\ work = {}
  BY DEF Pop
<1>2. e.state \in Loop!Reached /\ Loop!Reached' \subseteq Loop!Reached
  BY <1>1 DEF Loop!Reached
<1>3. e.state \notin closed
  BY LoopReached
<1>4. ASSUME NEW u \in Loop!Reached', NEW p \in Derivable(spec'), NEW r \in Rules,
             u.trace = Append(p.trace, r)
      PROVE  p \in closed' /\ (p = current' => r \notin work')
  BY <1>1, <1>2, <1>3, <1>4 DEF OriginInv, Origins
<1>5. Origins'
  BY <1>4 DEF Origins
<1>6. QED
  BY <1>1, <1>5 DEF OriginInv

LEMMA OriginApply ==
  ASSUME Loop!LoopInv, OriginInv, NEW r \in work, ApplyRule(r) PROVE OriginInv'
<1> DEFINE child == Child(spec, current, r)
           pushed == [serial |-> serial + 1, state |-> child]
           signature == StateSignature(spec, child)
<1>1. /\ spec \in Specs /\ current \in Derivable(spec) /\ ~Complete(current) /\ r \in Rules
      /\ Answers(r) = FirstKind(current) /\ Permits(spec, current, r)
      /\ Loop!Reached \subseteq Derivable(spec)
      /\ seen = {StateSignature(spec, s) : s \in Loop!Reached}
  BY LoopReached
<1>2. /\ spec' = spec /\ current' = current /\ closed' = closed /\ work' = work \ {r}
      /\ signature \in seen \/ (duplicates' = duplicates /\ queue' = queue \cup {pushed})
  BY DEF ApplyRule
<1>3. child \in Derivable(spec) /\ child.trace = Append(current.trace, r)
  <2>1. MayApply(spec, current, r) /\ child \in Derivable(spec)
    BY <1>1, DerivableChild
  <2>2. QED
    BY <1>1, <2>1, ChildNotes DEF Notes
<1>4. signature \notin seen
  <2>1. SUFFICES ASSUME signature \in seen PROVE FALSE
    OBVIOUS
  <2>2. PICK u \in Loop!Reached : StateSignature(spec, u) = signature
    BY <1>1, <2>1
  <2>3. u = child
    BY <1>1, <1>3, <2>2, SameState
  <2>4. QED
    BY <1>1, <1>3, <2>2, <2>3 DEF OriginInv, Origins
<1>5. pushed.state = child
  OBVIOUS
<1> HIDE DEF child, pushed, signature
<1>6. duplicates' = duplicates /\ Loop!Reached' \subseteq Loop!Reached \cup {child}
  BY <1>2, <1>4, <1>5 DEF Loop!Reached
<1>7. ASSUME NEW u \in Loop!Reached', NEW p \in Derivable(spec'), NEW q \in Rules,
             u.trace = Append(p.trace, q)
      PROVE  p \in closed' /\ (p = current' => q \notin work')
  <2>1. CASE u \in Loop!Reached
    BY <1>2, <1>7, <2>1 DEF OriginInv, Origins
  <2>2. CASE u = child
    <3>1. Append(p.trace, q) = Append(current.trace, r)
      BY <1>3, <1>7, <2>2
    <3>2. p.trace \in Seq(Rules) /\ current.trace \in Seq(Rules)
      BY <1>1, <1>2, SpecsAssumption, DerivableFacts DEF Derived, Ordered
    <3>3. p.trace = current.trace /\ q = r
      BY <1>1, <3>1, <3>2, SameAppend
    <3>4. p = current
      BY <1>1, <1>2, <3>3, SpecsAssumption, DerivableFacts
    <3>5. QED
      BY <1>2, <3>3, <3>4 DEF OriginInv
  <2>3. QED
    BY <1>6, <2>1, <2>2
<1>8. Origins'
  BY <1>7 DEF Origins
<1>9. QED
  BY <1>2, <1>6, <1>8 DEF OriginInv

LEMMA OriginNext == Loop!LoopInv /\ OriginInv /\ [Next]_vars => OriginInv'
<1> SUFFICES ASSUME Loop!LoopInv, OriginInv, [Next]_vars PROVE OriginInv'
  OBVIOUS
<1>1. ASSUME NEW e \in queue,
             PruneDeep(e) \/ PrunePartial(e) \/ RefuseFinal(e) \/ Accept(e) \/ NoRule(e) \/ Expand(e)
      PROVE  OriginInv'
  <2>1. Pop(e)
    BY <1>1 DEF PruneDeep, PrunePartial, RefuseFinal, Accept, NoRule, Expand
  <2>2. QED
    BY <2>1, OriginPop
<1>2. ASSUME NEW r \in work, ApplyRule(r) PROVE OriginInv'
  BY <1>2, OriginApply
<1>3. CASE Return \/ UNCHANGED vars
  BY <1>3 DEF Return, vars, loopVars, OriginInv, Origins, Loop!Reached
<1>4. QED
  BY <1>1, <1>2, <1>3 DEF Next

LEMMA OriginMeans == Loop!LoopInv /\ OriginInv => NoDuplicateWork
<1> SUFFICES ASSUME Loop!LoopInv, OriginInv PROVE NoDuplicateWork
  OBVIOUS
<1> DEFINE built == {s \in closed : Complete(s)}
           signed == [s \in built |-> TopologySignature(spec, s)]
           found == {TopologySignature(spec, s) : s \in built}
<1>1. spec \in Specs /\ IsFiniteSet(built) /\ built \subseteq Derivable(spec)
  <2>1. spec \in Specs /\ IsFiniteSet(closed) /\ closed \subseteq Derivable(spec)
    BY LoopReached DEF Loop!Reached
  <2>2. QED
    BY <2>1, FS_Subset
<1>2. \A s, t \in built : TopologySignature(spec, s) = TopologySignature(spec, t) => s = t
  BY <1>1, SameTopology
<1>3. /\ signed \in [built -> found] /\ \A s \in built : signed[s] = TopologySignature(spec, s)
      /\ \A f \in found : \E s \in built : signed[s] = f
  OBVIOUS
<1> HIDE DEF built, signed, found
<1>4. signed \in Bijection(built, found)
  BY <1>2, <1>3 DEF Bijection, Injection, Surjection, IsInjective
<1>5. Cardinality(found) = Cardinality(built)
  BY <1>1, <1>4, FS_Bijection DEF ExistsBijection
<1>6. QED
  BY <1>5 DEF NoDuplicateWork, OriginInv, found, built

(***************************************************************************)
(* architecture.md: expanding only the first obligation "prevents ordering *)
(* permutations from producing meaningless duplicates".  With the nine     *)
(* rules no state is reached twice, and no topology is built twice.        *)
(***************************************************************************)
THEOREM SearchRepeatsNothing == Spec => []NoDuplicateWork
<1>1. Init => Loop!LoopInv /\ OriginInv
  BY IsLoop, LoopFacts, OriginInit
<1>2. Loop!LoopInv /\ OriginInv /\ [Next]_vars => Loop!LoopInv' /\ OriginInv'
  BY IsLoop, LoopFacts, OriginNext
<1>3. QED
  BY <1>1, <1>2, OriginMeans, PTL DEF Spec

(***************************************************************************)
(* A rule the ledger has counted as declined is one the specification does *)
(* not permit in any state: the predicates of the catalogue read nothing   *)
(* else.                                                                   *)
(***************************************************************************)
Never(sp, r) == \A s : ~Permits(sp, s, r)
DeclinedInv == \A r \in Rules : ledger.declined[r] > 0 => Never(spec, r)

LEMMA DeclinedInit == Init => DeclinedInv
  BY DEF Init, EmptyLedger, DeclinedInv

LEMMA DeclinedRules ==
  ASSUME DeclinedInv, ledger.declined \in [Rules -> Nat], NEW s, spec' = spec,
         ledger'.declined = Increment(ledger.declined, Governing(s) \ Applicable(spec, s))
  PROVE  DeclinedInv'
<1>1. SUFFICES ASSUME NEW r \in Rules, ledger'.declined[r] > 0 PROVE Never(spec, r)
  BY DEF DeclinedInv, Never
<1>2. ledger'.declined[r] = ledger.declined[r] + IF r \in Governing(s) \ Applicable(spec, s) THEN 1 ELSE 0
  BY DEF Increment
<1>3. CASE r \in Governing(s) \ Applicable(spec, s)
  BY <1>3, PermitsReads DEF Applicable, Never
<1>4. CASE r \notin Governing(s) \ Applicable(spec, s)
  <2>1. ledger.declined[r] > 0
    BY <1>1, <1>2, <1>4
  <2>2. QED
    BY <2>1 DEF DeclinedInv
<1>5. QED
  BY <1>3, <1>4

LEMMA DeclinedNext == Loop!LoopInv /\ DeclinedInv /\ [Next]_vars => DeclinedInv'
<1> SUFFICES ASSUME Loop!LoopInv, DeclinedInv, [Next]_vars PROVE DeclinedInv'
  OBVIOUS
<1>1. ledger \in Loop!LedgerType
  BY DEF Loop!LoopInv, Loop!TypeOK
<1>2. ledger.declined \in [Rules -> Nat]
  BY <1>1 DEF Loop!LedgerType
<1>3. ASSUME spec' = spec, ledger'.declined = ledger.declined PROVE DeclinedInv'
  BY <1>3 DEF DeclinedInv, Never
<1>4. \A cause, errors : Reject(ledger, cause, errors).declined = ledger.declined
  BY <1>1 DEF Reject, Loop!LedgerType
<1>5. ASSUME NEW e \in queue, PruneDeep(e) PROVE DeclinedInv'
  BY <1>3, <1>4, <1>5 DEF PruneDeep, Pop, RecordDepth
<1>6. ASSUME NEW e \in queue, PrunePartial(e) PROVE DeclinedInv'
  BY <1>3, <1>4, <1>6 DEF PrunePartial, Pop, RecordPartial
<1>7. ASSUME NEW e \in queue, RefuseFinal(e) PROVE DeclinedInv'
  <2>1. \A signature, errors : RecordFinal(ledger, signature, errors).declined
                                 = Reject(ledger, "final_violation", errors).declined
    BY <1>1 DEF RecordFinal, Reject, Loop!LedgerType
  <2>2. QED
    BY <1>3, <1>4, <1>7, <2>1 DEF RefuseFinal, Pop
<1>8. ASSUME NEW e \in queue, Accept(e) PROVE DeclinedInv'
  BY <1>3, <1>8 DEF Accept, Pop
<1>9. \A governing, permitted :
        /\ RecordRules(ledger, governing, permitted).declined
             = Increment(ledger.declined, governing \ permitted)
        /\ \A kind : RecordNoRule(RecordRules(ledger, governing, permitted), kind).declined
                       = Increment(ledger.declined, governing \ permitted)
  BY <1>1 DEF RecordRules, RecordNoRule, Reject, Loop!LedgerType
<1>10. ASSUME NEW e \in queue, NoRule(e) PROVE DeclinedInv'
  <2>1. /\ spec' = spec /\ Applicable(spec, e.state) = {}
        /\ ledger' = RecordNoRule(RecordRules(ledger, Governing(e.state), {}), FirstKind(e.state))
    BY <1>10 DEF NoRule, Pop
  <2>2. ledger'.declined = Increment(ledger.declined, Governing(e.state) \ Applicable(spec, e.state))
    BY <1>9, <2>1
  <2>3. QED
    BY <1>2, <2>1, <2>2, DeclinedRules
<1>11. ASSUME NEW e \in queue, Expand(e) PROVE DeclinedInv'
  <2>1. /\ spec' = spec
        /\ ledger' = RecordRules(ledger, Governing(e.state), Applicable(spec, e.state))
    BY <1>11 DEF Expand, Pop
  <2>2. ledger'.declined = Increment(ledger.declined, Governing(e.state) \ Applicable(spec, e.state))
    BY <1>9, <2>1
  <2>3. QED
    BY <1>2, <2>1, <2>2, DeclinedRules
<1>12. ASSUME NEW r, ApplyRule(r) PROVE DeclinedInv'
  BY <1>3, <1>12 DEF ApplyRule
<1>13. CASE Return \/ UNCHANGED vars
  BY <1>3, <1>13 DEF Return, vars, loopVars
<1>14. QED
  BY <1>5, <1>6, <1>7, <1>8, <1>10, <1>11, <1>12, <1>13 DEF Next

(***************************************************************************)
(* Two searches, one after the other.  Each call starts where Init starts, *)
(* so the invariant of the loop holds in both, and a result that has been  *)
(* collected says what its search established.                             *)
(***************************************************************************)
Kept(x) ==
  /\ x.spec \in Specs
  /\ DOMAIN x.candidates \subseteq Acceptable(x.spec)
  /\ x.exhausted => Acceptable(x.spec) \subseteq DOMAIN x.candidates
  /\ \A t \in DOMAIN x.candidates : x.candidates[t] \in Derivable(x.spec)
  /\ \A r \in ClosedOff(x.ledger) : r \in Rules /\ Never(x.spec, r)

ResultsInv ==
  /\ limit \in Requests
  /\ \/ results = <<>>
     \/ \E x : Kept(x) /\ results = <<x>>
     \/ \E x, y : Kept(x) /\ Kept(y) /\ results = <<x, y>>

SearchInv == Loop!LoopInv /\ OriginInv /\ DeclinedInv
CompareInv == SearchInv /\ ResultsInv

LEMMA SearchInvFacts == (Init => SearchInv) /\ (SearchInv /\ [Next]_vars => SearchInv')
  BY IsLoop, LoopFacts, OriginInit, OriginNext, DeclinedInit, DeclinedNext DEF SearchInv

LEMMA ResultKept == ASSUME SearchInv, phase = "done" PROVE Kept(Result)
<1>1. /\ Loop!TypeOK /\ Loop!DerivedInv /\ Loop!CandidatesSound /\ Loop!ExhaustedIsComplete
  BY LoopMeans DEF SearchInv, Loop!PromiseInv
<1>2. spec \in Specs
  BY <1>1 DEF Loop!TypeOK
<1>3. Loop!TypeOK /\ Loop!DerivedInv /\ Loop!CandidatesSound
        => DOMAIN completed \subseteq Loop!AdmissibleTopologies(spec)
  BY LoopFound
<1>4. Loop!TypeOK /\ Loop!ExhaustedIsComplete /\ phase = "done" /\ Loop!Exhausted
        => Loop!AdmissibleTopologies(spec) \subseteq DOMAIN completed
  BY LoopFound
<1>5. /\ DOMAIN completed \subseteq Acceptable(spec)
      /\ Exhausted => Acceptable(spec) \subseteq DOMAIN completed
  BY <1>1, <1>2, <1>3, <1>4, SameAcceptable DEF Loop!Exhausted, Exhausted
<1>6. \A t \in DOMAIN completed : completed[t] \in Derivable(spec)
  <2>1. \A t \in DOMAIN completed : completed[t] \in Loop!Reached
    BY <1>1 DEF Loop!CandidatesSound, Loop!Viable, Loop!Reached
  <2>2. QED
    BY <2>1, LoopReached DEF SearchInv
<1>7. \A r \in ClosedOff(ledger) : r \in Rules /\ Never(spec, r)
  BY DEF ClosedOff, SearchInv, DeclinedInv
<1>8. /\ Result.spec = spec /\ Result.candidates = completed /\ Result.exhausted = Exhausted
      /\ Result.ledger = ledger
  BY DEF Result
<1>9. QED
  BY <1>2, <1>5, <1>6, <1>7, <1>8 DEF Kept

\* After the left search has returned, the right one starts afresh.
LEMMA CollectFacts ==
  ASSUME NEW sp \in Specs, Collect(sp), limit \in Requests
  PROVE  /\ phase = "done" /\ limit' = limit
         /\ results = <<>> => Init' /\ results' = <<Result>>
         /\ results # <<>> => UNCHANGED searchVars /\ results' = Append(results, Result) /\ Len(results) < 2
<1>1. CASE results = <<>>
  <2>1. /\ spec' = sp /\ requested' = Clipped(sp, limit)
        /\ queue' = {[serial |-> 0, state |-> Start(sp)]}
        /\ seen' = {StateSignature(sp, Start(sp))}
        /\ completed' = [t \in {} |-> Start(sp)]
        /\ explored' = 0 /\ pruned' = 0 /\ duplicates' = 0 /\ serial' = 0
        /\ current' = Start(sp)
        /\ work' = {} /\ ledger' = EmptyLedger /\ phase' = "search" /\ closed' = {}
    BY <1>1 DEF Collect
  <2>2. requested' \in {Clipped(spec', n) : n \in Requests}
    BY <2>1
  <2>3. Init'
    BY <2>1, <2>2 DEF Init, EmptyLedger, Clipped
  <2>4. results' = <<Result>>
    BY <1>1 DEF Collect
  <2>5. QED
    BY <1>1, <2>3, <2>4 DEF Collect
<1>2. CASE results # <<>>
  BY <1>2 DEF Collect
<1>3. QED
  BY <1>1, <1>2

LEMMA CompareInvInit == CompareInit => CompareInv
  BY SearchInvFacts DEF CompareInit, CompareInv, ResultsInv

LEMMA RestartInv == Init' => SearchInv'
<1>1. Init => SearchInv
  BY SearchInvFacts
<1>2. QED
  BY <1>1, PTL

LEMMA CompareInvNext == CompareInv /\ [CompareNext]_compareVars => CompareInv'
<1> SUFFICES ASSUME CompareInv, [CompareNext]_compareVars PROVE CompareInv'
  OBVIOUS
<1>1. CASE Search
  <2>1. SearchInv'
    BY <1>1, SearchInvFacts DEF Search, CompareInv
  <2>2. ResultsInv'
    BY <1>1 DEF Search, CompareInv, ResultsInv, Kept, Never
  <2>3. QED
    BY <2>1, <2>2 DEF CompareInv
<1>2. ASSUME NEW sp \in Specs, Collect(sp) PROVE CompareInv'
  <2>1. /\ phase = "done" /\ limit' = limit /\ limit \in Requests
        /\ results = <<>> => Init' /\ results' = <<Result>>
        /\ results # <<>> => UNCHANGED searchVars /\ results' = Append(results, Result) /\ Len(results) < 2
    BY <1>2, CollectFacts DEF CompareInv, ResultsInv
  <2>2. Kept(Result)
    BY <2>1, ResultKept DEF CompareInv
  <2>3. SearchInv'
    <3>1. CASE results = <<>>
      BY <2>1, <3>1, RestartInv
    <3>2. CASE results # <<>>
      <4>1. [Next]_vars
        BY <2>1, <3>2 DEF searchVars, vars, loopVars
      <4>2. QED
        BY <4>1, SearchInvFacts DEF CompareInv
    <3>3. QED
      BY <3>1, <3>2
  <2>4. ResultsInv'
    <3>1. CASE results = <<>>
      <4>1. \E x : Kept(x) /\ results' = <<x>>
        BY <2>1, <2>2, <3>1
      <4>2. QED
        BY <2>1, <4>1 DEF ResultsInv, Kept, Never
    <3>2. CASE results # <<>>
      <4>1. PICK x : Kept(x) /\ results = <<x>>
        BY <2>1, <3>2 DEF CompareInv, ResultsInv
      <4>2. results' = <<x, Result>>
        BY <2>1, <3>2, <4>1
      <4>3. \E y, z : Kept(y) /\ Kept(z) /\ results' = <<y, z>>
        BY <2>2, <4>1, <4>2
      <4>4. QED
        BY <2>1, <4>3 DEF ResultsInv, Kept, Never
    <3>3. QED
      BY <3>1, <3>2
  <2>5. QED
    BY <2>3, <2>4 DEF CompareInv
<1>3. CASE UNCHANGED compareVars
  <2>1. [Next]_vars
    BY <1>3 DEF compareVars, searchVars, vars, loopVars
  <2>2. ResultsInv'
    BY <1>3 DEF compareVars, CompareInv, ResultsInv, Kept, Never
  <2>3. QED
    BY <2>1, <2>2, SearchInvFacts DEF CompareInv
<1>4. QED
  BY <1>1, <1>2, <1>3 DEF CompareNext

LEMMA CompareInvAlways == CompareSpec => []CompareInv
  BY CompareInvInit, CompareInvNext, PTL DEF CompareSpec

(***************************************************************************)
(* The two searches of a comparison keep the promise, the second one from  *)
(* the start again.                                                        *)
(***************************************************************************)
THEOREM ComparisonKeepsPromise == CompareSpec => ImplementsEnumeration
<1>1. CompareInit => Abstract!Init
  BY AbstractInit DEF CompareInit
<1>2. ASSUME CompareInv, [CompareNext]_compareVars PROVE [Abstract!Next]_(Abstract!vars)
  <2>1. ASSUME [Next]_vars PROVE [Abstract!Next]_(Abstract!vars)
    BY <1>2, <2>1, AbstractStep DEF CompareInv, SearchInv
  <2>2. CASE Search
    BY <2>1, <2>2 DEF Search
  <2>3. ASSUME NEW sp \in Specs, Collect(sp) PROVE [Abstract!Next]_(Abstract!vars)
    <3>1. limit \in Requests
      BY <1>2 DEF CompareInv, ResultsInv
    <3>2. CASE results = <<>>
      <4>1. phase = "done" /\ Init'
        BY <2>3, <3>1, <3>2, CollectFacts
      <4>2. Abstract!CallAgain
        BY <4>1 DEF Init, Abstract!CallAgain, Clipped, Abstract!Granted, Exhausted
      <4>3. QED
        BY <4>2 DEF Abstract!Next
    <3>3. CASE results # <<>>
      <4>1. UNCHANGED searchVars
        BY <2>3, <3>1, <3>3, CollectFacts
      <4>2. QED
        BY <2>1, <4>1 DEF searchVars, vars, loopVars
    <3>4. QED
      BY <3>2, <3>3
  <2>4. CASE UNCHANGED compareVars
    BY <2>1, <2>4 DEF compareVars, searchVars, vars, loopVars
  <2>5. QED
    BY <1>2, <2>2, <2>3, <2>4 DEF CompareNext
<1>3. CompareInv /\ [CompareNext]_compareVars => [Abstract!Next]_(Abstract!vars)
  BY <1>2
<1>4. QED
  BY <1>1, <1>3, CompareInvAlways, PTL DEF CompareSpec, ImplementsEnumeration, Abstract!Spec

\* Both results of a comparison, as the invariant knows them.
LEMMA ComparedKept ==
  ASSUME CompareInv, Compared
  PROVE  \A i \in {1, 2} : Kept(results[i])
<1>1. Len(results) = 2
  BY DEF Compared
<1>2. results # <<>> /\ \A x : results # <<x>>
  BY <1>1
<1>3. PICK x, y : Kept(x) /\ Kept(y) /\ results = <<x, y>>
  BY <1>2 DEF CompareInv, ResultsInv
<1>4. QED
  BY <1>3

(***************************************************************************)
(* Permitting more.  The rules read of the specification only what Relaxes *)
(* leaves alone, and their predicates only grow.                           *)
(***************************************************************************)
LEMMA RelaxesFacts ==
  ASSUME NEW left, NEW right, Relaxes(right, left)
  PROVE  /\ right.input_mode = left.input_mode /\ right.output_mode = left.output_mode
         /\ right.polarity = left.polarity /\ right.limits = left.limits
         /\ right.require_compensation = left.require_compensation
         /\ InputKind(right) = InputKind(left) /\ LoadKind(right) = LoadKind(left)
         /\ InputRail(right) = InputRail(left) /\ LoadRail(right) = LoadRail(left)
         /\ Start(right) = Start(left)
<1>1. /\ right.input_mode = left.input_mode /\ right.output_mode = left.output_mode
      /\ right.polarity = left.polarity /\ right.limits = left.limits
      /\ right.require_compensation = left.require_compensation
  BY DEF Relaxes
<1>2. /\ InputKind(right) = InputKind(left) /\ LoadKind(right) = LoadKind(left)
      /\ InputRail(right) = InputRail(left) /\ LoadRail(right) = LoadRail(left)
  BY <1>1 DEF InputKind, LoadKind, InputRail, LoadRail
<1>3. Start(right) = Start(left)
  BY <1>1 DEF Start
<1>4. QED
  BY <1>1, <1>2, <1>3

LEMMA RelaxedChild ==
  ASSUME NEW left, NEW right, Relaxes(right, left), NEW s, NEW r \in Rules
  PROVE  Child(right, s, r) = Child(left, s, r)
<1>1. /\ right.output_mode = left.output_mode /\ right.polarity = left.polarity
      /\ InputKind(right) = InputKind(left) /\ LoadKind(right) = LoadKind(left)
      /\ InputRail(right) = InputRail(left) /\ LoadRail(right) = LoadRail(left)
  BY RelaxesFacts
<1>2. InputPair(right, s, r) = InputPair(left, s, r)
  BY <1>1 DEF InputPair
<1>3. SingleTransconductor(right, s, r) = SingleTransconductor(left, s, r)
  BY <1>1 DEF SingleTransconductor
<1>4. TailCurrent(right, s, r) = TailCurrent(left, s, r)
  BY <1>1 DEF TailCurrent
<1>5. TailResistor(right, s, r) = TailResistor(left, s, r)
  BY <1>1 DEF TailResistor
<1>6. ResistiveLoad(right, s, r) = ResistiveLoad(left, s, r)
  BY <1>1 DEF ResistiveLoad
<1>7. ActiveMirrorLoad(right, s, r) = ActiveMirrorLoad(left, s, r)
  BY <1>1 DEF ActiveMirrorLoad
<1>8. CompensationCap(right, s, r) = CompensationCap(left, s, r)
  BY DEF CompensationCap
<1>9. DirectOutput(right, s, r) = DirectOutput(left, s, r)
  BY <1>1 DEF DirectOutput
<1>10. BufferedOutput(right, s, r) = BufferedOutput(left, s, r)
  BY <1>1 DEF BufferedOutput
<1>11. QED
  BY <1>2, <1>3, <1>4, <1>5, <1>6, <1>7, <1>8, <1>9, <1>10 DEF Child

LEMMA RelaxedPermits ==
  ASSUME NEW left, NEW right, Relaxes(right, left), NEW s, NEW r \in Rules, Permits(left, s, r)
  PROVE  Permits(right, s, r)
<1>1. /\ right.input_mode = left.input_mode /\ right.output_mode = left.output_mode
      /\ InputKind(right) = InputKind(left) /\ LoadKind(right) = LoadKind(left)
  BY RelaxesFacts
<1>2. /\ right.load_preference \in {left.load_preference, "either"}
      /\ left.allow_resistive_bias => right.allow_resistive_bias
      /\ left.allowed_devices \subseteq right.allowed_devices
  BY DEF Relaxes
<1>3. ResistorTailAllowed(left) => ResistorTailAllowed(right)
  BY <1>2 DEF ResistorTailAllowed
<1>4. ResistiveAllowed(left, s) => ResistiveAllowed(right, s)
  BY <1>2 DEF ResistiveAllowed
<1>5. ActiveAllowed(left) => ActiveAllowed(right)
  BY <1>1, <1>2 DEF ActiveAllowed
<1>6. BufferAllowed(left) => BufferAllowed(right)
  BY <1>1, <1>2 DEF BufferAllowed
<1>7. QED
  BY <1>1, <1>2, <1>3, <1>4, <1>5, <1>6 DEF Permits, Rules

LEMMA RelaxedDerivable ==
  ASSUME NEW left \in Specs, NEW right \in Specs, Relaxes(right, left)
  PROVE  Derivable(left) \subseteq Derivable(right)
<1>1. Start(left) \in Derivable(right)
  BY SpecsAssumption, DerivableFacts, RelaxesFacts
<1>2. ASSUME NEW s \in Derivable(right), NEW c \in Successors(left, s) PROVE c \in Derivable(right)
  <2>1. PICK r : MayApply(left, s, r) /\ c = Child(left, s, r)
    BY <1>2, SuccessorsFacts
  <2>2. r \in Rules /\ Answers(r) = FirstKind(s) /\ ~Complete(s) /\ Permits(right, s, r)
    BY <2>1, RelaxedPermits DEF MayApply
  <2>3. c = Child(right, s, r)
    BY <2>1, <2>2, RelaxedChild
  <2>4. QED
    BY <2>2, <2>3, DerivableChild
<1>3. QED
  BY <1>1, <1>2, DerivableLeast

LEMMA RelaxedErrors ==
  ASSUME NEW left \in Specs, NEW right \in Specs, Relaxes(right, left),
         NEW s \in Derivable(left), \A c \in Codes : FinalErrors(left, s)[c] = 0
  PROVE  \A c \in Codes : FinalErrors(right, s)[c] = 0
<1>1. s \in Derivable(right)
  BY RelaxedDerivable
<1>2. Sound(s.topology)
  BY SpecsAssumption, DerivableFacts DEF Derived, Furnished
<1>3. /\ right.input_mode = left.input_mode /\ right.output_mode = left.output_mode
      /\ right.limits = left.limits /\ right.require_compensation = left.require_compensation
      /\ left.allowed_devices \subseteq right.allowed_devices
  BY RelaxesFacts DEF Relaxes
<1>4. ASSUME NEW c \in Codes \ PartialCodes PROVE FinalErrors(right, s)[c] = FinalErrors(left, s)[c]
  BY <1>3 DEF FinalErrors, Codes, PartialCodes
<1>5. ASSUME NEW c \in PartialCodes PROVE PartialErrors(right, s)[c] > 0 => PartialErrors(left, s)[c] > 0
  <2> DEFINE devices == s.topology.devices
             mos == {d \in DOMAIN devices : devices[d].kind \in Transistors}
             before == PartialErrors(left, s)
             after == PartialErrors(right, s)
  <2>1. /\ before["LIM001"] > 0 <=> OverLimit(left, s)
        /\ before["DEV001"] > 0 <=> \E d \in DOMAIN devices : devices[d].kind \notin left.allowed_devices
        /\ before["MOS001"] > 0 <=> \E d \in mos : devices[d].net["d"] = devices[d].net["s"]
        /\ before["MOS002"] > 0 <=> \E d \in mos : devices[d].net["b"] # Bulk(devices[d].kind)
    BY <1>2, PartialErrorsMean
  <2>2. /\ after["LIM001"] > 0 <=> OverLimit(right, s)
        /\ after["DEV001"] > 0 <=> \E d \in DOMAIN devices : devices[d].kind \notin right.allowed_devices
        /\ after["MOS001"] > 0 <=> \E d \in mos : devices[d].net["d"] = devices[d].net["s"]
        /\ after["MOS002"] > 0 <=> \E d \in mos : devices[d].net["b"] # Bulk(devices[d].kind)
    BY <1>2, PartialErrorsMean
  <2>3. OverLimit(right, s) <=> OverLimit(left, s)
    BY <1>3 DEF OverLimit
  <2> HIDE DEF before, after, mos
  <2>4. after[c] > 0 => before[c] > 0
    BY <1>3, <2>1, <2>2, <2>3 DEF PartialCodes
  <2>5. QED
    BY <2>4 DEF before, after
<1>6. ASSUME NEW c \in PartialCodes PROVE FinalErrors(right, s)[c] = 0
  <2>1. c \in Codes
    BY DEF Codes
  <2>2. PartialErrors(left, s)[c] = 0
    BY <2>1, DerivableState
  <2>3. PartialErrors(right, s)[c] \in Nat /\ ~(PartialErrors(right, s)[c] > 0)
    BY <1>1, <1>5, <2>1, <2>2, DerivableState
  <2>4. PartialErrors(right, s)[c] = 0
    BY <2>3
  <2>5. QED
    BY <1>1, <2>4, DerivableState
<1>7. QED
  BY <1>4, <1>6

LEMMA RelaxedAcceptable ==
  ASSUME NEW left \in Specs, NEW right \in Specs, Relaxes(right, left)
  PROVE  Acceptable(left) \subseteq Acceptable(right)
<1>1. Admitted(left) \subseteq Admitted(right)
  BY RelaxesFacts, RelaxedDerivable, RelaxedErrors DEF Admitted, MaxDepth
<1>2. \A s : TopologySignature(left, s) = TopologySignature(right, s)
  BY RelaxesFacts DEF TopologySignature
<1>3. /\ Acceptable(left) = {TopologySignature(left, s) : s \in Admitted(left)}
      /\ Acceptable(right) = {TopologySignature(right, s) : s \in Admitted(right)}
  BY DEF Acceptable, AcceptableTo, AdmittedBy
<1>4. QED
  BY <1>1, <1>2, <1>3

(***************************************************************************)
(* "topology-lantern diff" of two exhausted searches: a specification that *)
(* permits more finds every topology of the stricter one.  What the        *)
(* comparison lists as missing is then never an artefact of the search.    *)
(***************************************************************************)
THEOREM RelaxingNeverLoses == CompareSpec => []RelaxingKeepsTopologies
<1>1. CompareInv => RelaxingKeepsTopologies
  <2>1. SUFFICES ASSUME CompareInv, Compared, NEW p \in Pairs,
                        Relaxes(results[p[2]].spec, results[p[1]].spec), ~Limited
                 PROVE  Gap(p) = {}
    BY DEF RelaxingKeepsTopologies
  <2>2. Kept(results[1]) /\ Kept(results[2]) /\ DOMAIN results = {1, 2}
    BY <2>1, ComparedKept DEF Compared
  <2>3. results[1].exhausted /\ results[2].exhausted
    BY <2>1, <2>2 DEF Limited
  <2>4. Kept(results[p[1]]) /\ Kept(results[p[2]]) /\ results[p[2]].exhausted
    BY <2>2, <2>3 DEF Pairs
  <2>5. Acceptable(results[p[1]].spec) \subseteq Acceptable(results[p[2]].spec)
    BY <2>1, <2>4, RelaxedAcceptable DEF Kept
  <2>6. QED
    BY <2>4, <2>5 DEF Kept, Gap, Absent
<1>2. QED
  BY <1>1, CompareInvAlways, PTL

(***************************************************************************)
(* What "closed off" proves.  The graph of a candidate shows every rule of *)
(* its derivation but the direct output, which is always permitted; a      *)
(* derivation of the same graph applies the same rules, and a permitted    *)
(* one is not closed off.                                                  *)
(***************************************************************************)
LEMMA ClosedOffBuildsNothing ==
  ASSUME NEW own, Kept(own), NEW other, Kept(other), NEW t \in DOMAIN own.candidates,
         BlockedBy(own, other, t) # {},
         NEW s \in Derivable(other.spec), SameGraph(s, own.candidates[t])
  PROVE  FALSE
<1> DEFINE c == own.candidates[t]
<1>1. /\ own.spec \in Specs /\ other.spec \in Specs /\ c \in Derivable(own.spec)
  BY DEF Kept
<1>2. PICK r : r \in Range(c.trace) /\ r \in ClosedOff(other.ledger)
  BY DEF BlockedBy, RulesOf
<1> HIDE DEF c
<1>3. r \in Rules /\ Never(other.spec, r)
  BY <1>2 DEF Kept
<1>4. r # "output.direct"
  BY <1>3 DEF Never, Permits
<1>5. Shown(own.spec, c) /\ Shown(other.spec, s) /\ c.trace \in Seq(Rules)
  BY <1>1, DerivableShown, SpecsAssumption, DerivableFacts DEF Derived, Ordered
<1>6. Applied(c, r)
  BY <1>2, <1>5, LenProperties DEF Applied, Range
<1>7. Seen(s.topology) = Seen(c.topology)
  BY <1>5, SameEncodings DEF Shown, SameGraph, c
<1>8. Applied(s, r)
  BY <1>3, <1>4, <1>5, <1>6, <1>7 DEF Shown
<1>9. Permits(other.spec, s, r)
  BY <1>3, <1>5, <1>8 DEF Shown
<1>10. QED
  BY <1>3, <1>9 DEF Never

(***************************************************************************)
(* compare.py tells the reader that a topology "cannot exist under the     *)
(* other specification, which closed off" a rule it needs.  That is true   *)
(* of every derivation of the other specification, whatever its limits,    *)
(* its signing budget and the point at which its search stopped.           *)
(***************************************************************************)
THEOREM ClosedOffIsTrue == CompareSpec => []ClosedOffIsProof
<1>1. CompareInv => ClosedOffIsProof
  <2>1. SUFFICES ASSUME CompareInv, Compared, NEW p \in Pairs, NEW t \in Gap(p),
                        Reason(p, t) = "rule_closed", NEW s \in Builds(p, t)
                 PROVE  FALSE
    BY DEF ClosedOffIsProof
  <2> DEFINE own == results[p[1]]
             other == results[p[2]]
  <2>2. Kept(own) /\ Kept(other)
    BY <2>1, ComparedKept DEF Pairs
  <2>3. t \in DOMAIN own.candidates
    BY DEF Gap, Absent
  <2>4. BlockedBy(own, other, t) # {}
    BY <2>1 DEF Reason, Absence
  <2>5. s \in Derivable(other.spec) /\ SameGraph(s, own.candidates[t])
    BY <2>2 DEF Builds, CompleteStates, Kept
  <2> HIDE DEF own, other
  <2>6. QED
    BY <2>2, <2>3, <2>4, <2>5, ClosedOffBuildsNothing
<1>2. QED
  BY <1>1, CompareInvAlways, PTL

(***************************************************************************)
(* The second search of a comparison repeats nothing either: no memory of  *)
(* the first is left.                                                      *)
(***************************************************************************)
THEOREM ComparisonRepeatsNothing == CompareSpec => []NoDuplicateWork
<1>1. CompareInv => NoDuplicateWork
  BY OriginMeans DEF CompareInv, SearchInv
<1>2. QED
  BY <1>1, CompareInvAlways, PTL
=============================================================================
