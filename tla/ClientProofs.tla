------------------------------ MODULE ClientProofs ------------------------------
(***************************************************************************)
(* Proofs about the components that prepare or read something and act on   *)
(* it later: registry planning, the dashboard, the answers and the         *)
(* operations of the terminal UI, an observing CLI command, status scans,  *)
(* the journals of the destinations, and Product Draft imports.  One part  *)
(* per component; they share the lemmas on least numbers and on ranks.     *)
(*                                                                         *)
(* Registry planning.  The visit that orders definitions is depth-first,   *)
(* and its stack is all it knows: what is below a frame waits for it.  The *)
(* invariant says of each frame that what it has stepped over is in the    *)
(* order already or is the frame above.  A definition cannot wait below    *)
(* itself when it joins the order: the frame above the lower one would be  *)
(* followed by it, hence in the order, and frames of the stack are not.    *)
(***************************************************************************)
EXTENDS RegistryPlanning, TuiDashboard, TuiAnswers, TuiOperations, CliObservation,
        StatusScan, DestinationWrites, ProductDraftImports,
        FiniteSetTheorems, TLAPS

\* Sets of numbers have a least element: the least one has the smallest
\* set of numbers below it.
LEMMA LeastNumber ==
    ASSUME NEW T \in SUBSET Nat, T # {}
    PROVE  \E n \in T : \A m \in T : n <= m
<1> DEFINE Below(n) == 0..n
           Belows == {Below(n) : n \in T}
           R == StrictSubsetOrdering(Nat)
<1>1. IsWellFoundedOn(R, FiniteSubsetsOf(Nat))
  BY FS_StrictSubsetOrderingWellFounded
<1>2. \A n \in T : Below(n) \in FiniteSubsetsOf(Nat)
  BY FS_Interval DEF FiniteSubsetsOf
<1>3. Belows \subseteq FiniteSubsetsOf(Nat) /\ Belows # {}
  BY <1>2
<1> HIDE DEF R
<1>4. \E U \in Belows : \A V \in Belows : <<V, U>> \notin R
  <2> HIDE DEF Belows
  <2> QED BY <1>1, <1>3, WFMin
<1>5. PICK n \in T : \A V \in Belows : <<V, Below(n)>> \notin R
  BY <1>4
<1>6. ASSUME NEW m \in T PROVE n <= m
  <2> SUFFICES ASSUME m < n PROVE FALSE
    OBVIOUS
  <2>1. Below(m) \subseteq Below(n) /\ Below(m) # Below(n)
    OBVIOUS
  <2>2. <<Below(m), Below(n)>> \in R
    BY <2>1 DEF StrictSubsetOrdering, R
  <2> QED
    BY <2>2, <1>5
<1> QED
  BY <1>6

-----------------------------------------------------------------------------
(* A finite set of numbers in ascending order: each has a rank, every rank  *)
(* is one's, and no two share one.                                         *)

Before(p, S) == {r \in S : r < p}

LEMMA BeforeIsRank ==
    ASSUME NEW S \in SUBSET Nat, IsFiniteSet(S)
    PROVE  /\ IsFiniteSet(S) /\ Cardinality(S) \in Nat
           /\ \A p \in S : /\ Cardinality(Before(p, S)) \in Nat
                           /\ Cardinality(Before(p, S)) < Cardinality(S)
           /\ \A p, q \in S : p < q =>
                Cardinality(Before(p, S)) < Cardinality(Before(q, S))
<1>1. IsFiniteSet(S) /\ Cardinality(S) \in Nat
  BY FS_Subset, FS_CardinalityType
<1>2. ASSUME NEW T \in SUBSET S, NEW U \in SUBSET T, NEW e \in T, e \notin U
      PROVE  Cardinality(U) \in Nat /\ Cardinality(U) < Cardinality(T)
  <2>1. IsFiniteSet(T) /\ Cardinality(T) \in Nat
    BY <1>1, FS_Subset, FS_CardinalityType
  <2>2. IsFiniteSet(U) /\ Cardinality(U) \in Nat
    BY <2>1, FS_Subset, FS_CardinalityType
  <2>3. Cardinality(U) <= Cardinality(T) /\ (Cardinality(T) = Cardinality(U) => T = U)
    BY <2>1, FS_Subset
  <2> QED
    BY <1>2, <2>1, <2>2, <2>3
<1>3. ASSUME NEW p \in S
      PROVE  /\ Cardinality(Before(p, S)) \in Nat
             /\ Cardinality(Before(p, S)) < Cardinality(S)
  <2>1. p \in Nat
    OBVIOUS
  <2>2. Before(p, S) \in SUBSET S /\ p \notin Before(p, S)
    BY <2>1 DEF Before
  <2> QED
    BY <1>2, <2>2
<1>4. ASSUME NEW p \in S, NEW q \in S, p < q
      PROVE  Cardinality(Before(p, S)) < Cardinality(Before(q, S))
  <2>1. S \subseteq Nat
    OBVIOUS
  <2>2. \A r \in S : r < p => r < q
    BY <1>4, <2>1
  <2>3. Before(p, S) \in SUBSET Before(q, S)
    BY <2>2 DEF Before
  <2>4. p \in Before(q, S) /\ Before(q, S) \in SUBSET S
    BY <1>4 DEF Before
  <2>5. p \notin Before(p, S)
    BY <2>1 DEF Before
  <2> QED
    BY <1>2, <2>3, <2>4, <2>5
<1> QED
  BY <1>1, <1>3, <1>4

LEMMA RankDistinguishes ==
    ASSUME NEW S \in SUBSET Nat, IsFiniteSet(S), NEW p \in S, NEW q \in S,
           Cardinality(Before(p, S)) = Cardinality(Before(q, S))
    PROVE  p = q
<1>1. p \in Nat /\ q \in Nat
  OBVIOUS
<1>2. Cardinality(Before(p, S)) \in Nat
  BY BeforeIsRank
<1>3. ~(p < q) /\ ~(q < p)
  BY <1>2, BeforeIsRank
<1> QED
  BY <1>1, <1>3

LEMMA RanksAreCovered ==
    ASSUME NEW S \in SUBSET Nat, IsFiniteSet(S), NEW i \in 1..Cardinality(S)
    PROVE  \E p \in S : Cardinality(Before(p, S)) = i - 1
<1> DEFINE n == Cardinality(S)
           Rank == [p \in S |-> Cardinality(Before(p, S)) + 1]
<1>1. IsFiniteSet(S) /\ n \in Nat
  BY BeforeIsRank
<1>2. Rank \in [S -> 1..n]
  BY BeforeIsRank
<1>3. ASSUME NEW p \in S, NEW q \in S, Rank[p] = Rank[q]
      PROVE  p = q
  <2>1. /\ Cardinality(Before(p, S)) \in Nat
        /\ Cardinality(Before(q, S)) \in Nat
    BY BeforeIsRank
  <2>2. Cardinality(Before(p, S)) = Cardinality(Before(q, S))
    BY <1>3, <2>1
  <2> QED
    BY <2>2, RankDistinguishes
<1>4. Rank \in Injection(S, 1..n)
  BY <1>2, <1>3 DEF Injection, IsInjective
<1>5. IsFiniteSet(1..n) /\ Cardinality(1..n) = n
  BY <1>1, FS_Interval
<1>6. Rank \in Surjection(S, 1..n)
  BY <1>4, <1>5, FS_Injection
<1>7. PICK p \in S : Rank[p] = i
  BY <1>6 DEF Surjection
<1>8. Cardinality(Before(p, S)) \in Nat /\ Cardinality(Before(p, S)) + 1 = i
  BY <1>7, BeforeIsRank
<1> QED
  BY <1>8

-----------------------------------------------------------------------------
PlannedPhases == {"planned", "reported", "prepared", "executing"}

Frames == [of : included, left : SUBSET included]

\* What the definition has stepped over is in the order or is above.
Above(k) == IF k > 1 THEN {stack[k - 1].of} ELSE {}

OrderShape ==
    /\ ordered \in Seq(included)
    /\ stack \in Seq(Frames)
    /\ phase \in {"constructing", "selecting"} => stack = <<>> /\ ordered = <<>>

StackWaits ==
    \A k \in 1..Len(stack) :
        /\ stack[k].of \notin Visited
        /\ stack[k].left \subseteq followed(stack[k].of)
        /\ k > 1 => stack[k - 1].of \in followed(stack[k].of)
        /\ followed(stack[k].of) \ stack[k].left \subseteq Visited \cup Above(k)

OrderedOnce == \A i, j \in 1..Len(ordered) : ordered[i] = ordered[j] => i = j

OrderedAfter ==
    \A i \in 1..Len(ordered) :
        followed(ordered[i]) \subseteq {ordered[j] : j \in 1..(i - 1)}

OrderComplete == phase \in PlannedPhases => included \subseteq Visited

OrderInv ==
    OrderShape /\ StackWaits /\ OrderedOnce /\ OrderedAfter /\ OrderComplete

-----------------------------------------------------------------------------
\* Sequences: the stacks and orders the steps build.

LEMMA ReplacedTop ==
    ASSUME NEW S, NEW s \in Seq(S), s # <<>>, NEW a \in S
    PROVE  LET t == <<a>> \o Tail(s)
           IN /\ t \in Seq(S) /\ Len(t) = Len(s) /\ t[1] = a
              /\ \A k \in 2..Len(s) : t[k] = s[k]
  OBVIOUS

LEMMA PushedTop ==
    ASSUME NEW S, NEW s \in Seq(S), s # <<>>, NEW a \in S, NEW b \in S
    PROVE  LET t == <<a, b>> \o Tail(s)
           IN /\ t \in Seq(S) /\ Len(t) = Len(s) + 1 /\ t[1] = a /\ t[2] = b
              /\ \A k \in 3..Len(t) : t[k] = s[k - 1]
  OBVIOUS

LEMMA PoppedTop ==
    ASSUME NEW S, NEW s \in Seq(S), s # <<>>
    PROVE  /\ Tail(s) \in Seq(S) /\ Len(Tail(s)) = Len(s) - 1
           /\ \A k \in 1..Len(Tail(s)) : Tail(s)[k] = s[k + 1]
           /\ Len(s) \in Nat \ {0} /\ Head(s) = s[1] /\ s[1] \in S
  OBVIOUS

LEMMA Appended ==
    ASSUME NEW S, NEW s \in Seq(S), NEW a \in S
    PROVE  LET t == Append(s, a)
           IN /\ t \in Seq(S) /\ Len(t) = Len(s) + 1 /\ t[Len(t)] = a
              /\ \A k \in 1..Len(s) : t[k] = s[k]
  OBVIOUS

-----------------------------------------------------------------------------
\* The steps.

\* Steps that leave the order and the stack alone.
LEMMA OrderUntouched ==
    ASSUME OrderInv, UNCHANGED <<registry, included, cyclic, stack, ordered>>,
           phase' \in {"constructing", "selecting"} =>
               stack = <<>> /\ ordered = <<>>,
           phase' \in PlannedPhases =>
               phase \in PlannedPhases \/ included \subseteq Visited
    PROVE  OrderInv'
<1>1. Visited' = Visited
  BY DEF Visited
<1>2. \A d : followed(d)' = followed(d)
  BY DEF followed
<1>3. Frames' = Frames
  BY DEF Frames
<1>4. \A k : Above(k)' = Above(k)
  BY DEF Above
<1>5. OrderShape'
  BY <1>3 DEF OrderInv, OrderShape
<1>6. StackWaits'
  BY <1>1, <1>2, <1>4 DEF OrderInv, StackWaits
<1>7. OrderedOnce'
  BY DEF OrderInv, OrderedOnce
<1>8. OrderedAfter'
  BY <1>2 DEF OrderInv, OrderedAfter
<1>9. OrderComplete'
  BY <1>1 DEF OrderInv, OrderComplete
<1> QED
  BY <1>5, <1>6, <1>7, <1>8, <1>9 DEF OrderInv

\* The steps of the visit that leave the order alone: what remains is the
\* stack they build.
LEMMA OrderKept ==
    ASSUME OrderInv, UNCHANGED <<registry, included, cyclic, ordered>>,
           phase = "ordering", phase' = "ordering",
           stack' \in Seq(Frames),
           \A k \in 1..Len(stack') :
               /\ stack'[k].of \notin Visited
               /\ stack'[k].left \subseteq followed(stack'[k].of)
               /\ k > 1 => stack'[k - 1].of \in followed(stack'[k].of)
               /\ followed(stack'[k].of) \ stack'[k].left
                    \subseteq Visited \cup (IF k > 1 THEN {stack'[k - 1].of}
                                            ELSE {})
    PROVE  OrderInv'
<1>1. Visited' = Visited
  BY DEF Visited
<1>2. \A d : followed(d)' = followed(d)
  BY DEF followed
<1>3. Frames' = Frames
  BY DEF Frames
<1>4. OrderShape'
  BY <1>3 DEF OrderInv, OrderShape
<1>5. StackWaits'
  BY <1>1, <1>2 DEF StackWaits, Above
<1>6. OrderedOnce'
  BY DEF OrderInv, OrderedOnce
<1>7. OrderedAfter'
  BY <1>2, ZenonT(40) DEF OrderInv, OrderedAfter
<1>8. OrderComplete'
  BY DEF OrderComplete, PlannedPhases
<1> QED
  BY <1>4, <1>5, <1>6, <1>7, <1>8 DEF OrderInv

LEMMA SelectStep ==
    ASSUME OrderInv, Select
    PROVE  OrderInv'
<1>1. stack' = <<>> /\ ordered' = <<>>
  BY DEF Select, OrderInv, OrderShape
<1>2. phase' \in {"ordering", "refused"}
  BY DEF Select
<1> QED
  BY <1>1, <1>2 DEF OrderInv, OrderShape, StackWaits, OrderedOnce, OrderedAfter,
                    OrderComplete, PlannedPhases

LEMMA VisitRootStep ==
    ASSUME OrderInv, NEW d, VisitRoot(d)
    PROVE  OrderInv'
<1>1. /\ phase = "ordering" /\ phase' = "ordering"
      /\ UNCHANGED <<registry, included, cyclic, ordered>>
      /\ d \in included \ Visited /\ stack' = <<Frame(d)>>
  BY DEF VisitRoot
<1>2. Frame(d) \in Frames /\ Frame(d).of = d /\ Frame(d).left = followed(d)
  BY <1>1 DEF Frame, Frames, followed
<1>3. stack' \in Seq(Frames) /\ Len(stack') = 1 /\ stack'[1] = Frame(d)
  BY <1>1, <1>2
<1> QED
  BY <1>1, <1>2, <1>3, OrderKept

LEMMA VisitDependencyStep ==
    ASSUME OrderInv, NEW d, VisitDependency(d)
    PROVE  OrderInv'
<1> DEFINE top == Head(stack)
           rest == [top EXCEPT !.left = @ \ {d}]
<1>1. /\ phase = "ordering" /\ stack # <<>> /\ d \in top.left
      /\ UNCHANGED <<registry, included, cyclic, ordered>>
  BY DEF VisitDependency
<1>2. stack \in Seq(Frames)
  BY DEF OrderInv, OrderShape
<1>3. /\ Len(stack) \in Nat \ {0} /\ top = stack[1] /\ top \in Frames
  BY <1>1, <1>2, PoppedTop
<1>4. /\ rest \in Frames /\ rest.of = top.of /\ rest.left = top.left \ {d}
  BY <1>3 DEF Frames
<1> HIDE DEF top, rest
<1>5. /\ top.of \notin Visited /\ top.left \subseteq followed(top.of)
      /\ followed(top.of) \ top.left \subseteq Visited
      /\ \A k \in 2..Len(stack) :
            /\ stack[k].of \notin Visited
            /\ stack[k].left \subseteq followed(stack[k].of)
            /\ stack[k - 1].of \in followed(stack[k].of)
            /\ followed(stack[k].of) \ stack[k].left
                 \subseteq Visited \cup {stack[k - 1].of}
  BY <1>3 DEF OrderInv, StackWaits, Above
<1>6. CASE d \in Visited
  <2>1. stack' = <<rest>> \o Tail(stack) /\ phase' = phase
    BY <1>6 DEF VisitDependency, top, rest
  <2>2. /\ stack' \in Seq(Frames) /\ Len(stack') = Len(stack)
        /\ stack'[1] = rest
        /\ \A k \in 2..Len(stack) : stack'[k] = stack[k]
    BY <1>1, <1>2, <1>4, <2>1, ReplacedTop
  <2>3. /\ rest.of \notin Visited /\ rest.left \subseteq followed(rest.of)
        /\ followed(rest.of) \ rest.left \subseteq Visited
    BY <1>4, <1>5, <1>6
  <2>4. ASSUME NEW k \in 1..Len(stack')
        PROVE  /\ stack'[k].of \notin Visited
               /\ stack'[k].left \subseteq followed(stack'[k].of)
               /\ k > 1 => stack'[k - 1].of \in followed(stack'[k].of)
               /\ followed(stack'[k].of) \ stack'[k].left
                    \subseteq Visited \cup (IF k > 1 THEN {stack'[k - 1].of}
                                            ELSE {})
    <3>1. CASE k = 1
      BY <3>1, <2>2, <2>3
    <3>2. CASE k = 2
      <4>1. /\ 2 \in 2..Len(stack) /\ stack'[2] = stack[2] /\ k - 1 = 1 /\ k > 1
            /\ stack'[1].of = stack[2 - 1].of
        BY <3>2, <2>2, <1>3, <1>4
      <4> QED
        BY <3>2, <4>1, <1>5
    <3>3. CASE k \in 3..Len(stack)
      <4>1. /\ k \in 2..Len(stack) /\ k - 1 \in 2..Len(stack) /\ k > 1
            /\ stack'[k] = stack[k] /\ stack'[k - 1] = stack[k - 1]
        BY <3>3, <2>2, <1>3
      <4> QED
        BY <4>1, <1>5
    <3> QED
      BY <3>1, <3>2, <3>3, <2>2, <1>3
  <2> QED
    BY <1>1, <2>1, <2>2, <2>4, OrderKept
<1>7. CASE d \notin Visited /\ Len(stack) < StackLimit
  <2>1. stack' = <<Frame(d), rest>> \o Tail(stack) /\ phase' = phase
    BY <1>7 DEF VisitDependency, top, rest
  <2>2. d \in included
    BY <1>1, <1>3 DEF Frames
  <2>3. Frame(d) \in Frames /\ Frame(d).of = d /\ Frame(d).left = followed(d)
    BY <2>2 DEF Frame, Frames, followed
  <2>4. /\ stack' \in Seq(Frames) /\ Len(stack') = Len(stack) + 1
        /\ stack'[1] = Frame(d) /\ stack'[2] = rest
        /\ \A k \in 3..Len(stack') : stack'[k] = stack[k - 1]
    BY <1>1, <1>2, <1>4, <2>1, <2>3, PushedTop
  <2>5. /\ rest.of \notin Visited /\ rest.left \subseteq followed(rest.of)
        /\ d \in followed(rest.of)
        /\ followed(rest.of) \ rest.left \subseteq Visited \cup {d}
    BY <1>1, <1>4, <1>5
  <2>7. ASSUME NEW k \in 1..Len(stack')
        PROVE  /\ stack'[k].of \notin Visited
               /\ stack'[k].left \subseteq followed(stack'[k].of)
               /\ k > 1 => stack'[k - 1].of \in followed(stack'[k].of)
               /\ followed(stack'[k].of) \ stack'[k].left
                    \subseteq Visited \cup (IF k > 1 THEN {stack'[k - 1].of}
                                            ELSE {})
    <3>1. CASE k = 1
      BY <3>1, <1>7, <2>3, <2>4
    <3>2. CASE k = 2
      BY <3>2, <2>3, <2>4, <2>5
    <3>3. CASE k \in 3..Len(stack')
      <4>1. k - 1 \in 2..Len(stack) /\ stack'[k] = stack[k - 1] /\ k > 1
        BY <3>3, <2>4, <1>3
      <4>2. stack'[k - 1].of = stack[(k - 1) - 1].of
        <5>1. CASE k = 3
          <6>1. stack'[3 - 1] = rest /\ (3 - 1) - 1 = 1
            BY <2>4
          <6> QED
            BY <5>1, <6>1, <1>3, <1>4
        <5>2. CASE k # 3
          <6>1. k - 1 \in 3..Len(stack')
            BY <5>2, <3>3, <2>4, <1>3
          <6> QED
            BY <6>1, <2>4
        <5> QED
          BY <5>1, <5>2
      <4> QED
        BY <4>1, <4>2, <1>5
    <3> QED
      BY <3>1, <3>2, <3>3, <2>4, <1>3
  <2> QED
    BY <1>1, <2>1, <2>4, <2>7, OrderKept
<1>8. CASE d \notin Visited /\ ~(Len(stack) < StackLimit)
  <2>1. phase' = "overflow" /\ stack' = stack
    BY <1>8 DEF VisitDependency
  <2> QED
    BY <1>1, <2>1, OrderUntouched DEF PlannedPhases
<1> QED
  BY <1>6, <1>7, <1>8

LEMMA FinishStep ==
    ASSUME OrderInv, Finish
    PROVE  OrderInv'
<1> DEFINE top == Head(stack)
           b == top.of
<1>1. /\ phase = "ordering" /\ phase' = "ordering" /\ stack # <<>>
      /\ top.left = {} /\ ordered' = Append(ordered, b) /\ stack' = Tail(stack)
      /\ UNCHANGED <<registry, included, cyclic>>
  BY DEF Finish
<1>2. stack \in Seq(Frames) /\ ordered \in Seq(included)
  BY DEF OrderInv, OrderShape
<1>3. /\ stack' \in Seq(Frames) /\ Len(stack') = Len(stack) - 1
      /\ \A k \in 1..Len(stack') : stack'[k] = stack[k + 1]
      /\ Len(stack) \in Nat \ {0} /\ top = stack[1] /\ top \in Frames
  BY <1>1, <1>2, PoppedTop
<1>4. b \in included
  BY <1>3 DEF Frames
<1>5. b \notin Visited /\ followed(b) \subseteq Visited
  <2>1. 1 \in 1..Len(stack) /\ ~(1 > 1) /\ stack[1].left = {} /\ stack[1].of = b
    BY <1>1, <1>3
  <2>2. /\ stack[1].of \notin Visited
        /\ followed(stack[1].of) \ stack[1].left \subseteq Visited \cup Above(1)
    BY <2>1 DEF OrderInv, StackWaits
  <2>3. Above(1) = {}
    BY <2>1 DEF Above
  <2> HIDE DEF b
  <2> QED
    BY <2>1, <2>2, <2>3
<1>6. \A k \in 2..Len(stack) :
         /\ stack[k].of \notin Visited
         /\ stack[k].left \subseteq followed(stack[k].of)
         /\ stack[k - 1].of \in followed(stack[k].of)
         /\ followed(stack[k].of) \ stack[k].left
              \subseteq Visited \cup {stack[k - 1].of}
  BY <1>3 DEF OrderInv, StackWaits, Above
<1>7. /\ ordered' \in Seq(included) /\ Len(ordered') = Len(ordered) + 1
      /\ ordered'[Len(ordered) + 1] = b /\ Len(ordered) \in Nat
      /\ \A i \in 1..Len(ordered) : ordered'[i] = ordered[i]
  BY <1>1, <1>2, <1>4, Appended
<1> HIDE DEF b, top
<1>8. Visited' = Visited \cup {b}
  BY <1>7 DEF Visited
<1>9. /\ \A d : followed(d)' = followed(d)
      /\ Frames' = Frames
  BY <1>1 DEF followed, Frames
<1>10. OrderShape'
  BY <1>1, <1>3, <1>7, <1>9 DEF OrderShape
<1>11. StackWaits'
  \* What waits below is not the definition that joins the order.
  <2>1. ASSUME NEW k \in 2..Len(stack)
        PROVE  stack[k].of # b
    BY <2>1, <1>3, <1>5, <1>6, SMTT(30) DEF OrderInv, StackWaits
  <2>2. ASSUME NEW k \in 1..Len(stack')
        PROVE  /\ stack'[k].of \notin Visited \cup {b}
               /\ stack'[k].left \subseteq followed(stack'[k].of)
               /\ k > 1 => stack'[k - 1].of \in followed(stack'[k].of)
               /\ followed(stack'[k].of) \ stack'[k].left
                    \subseteq (Visited \cup {b})
                       \cup (IF k > 1 THEN {stack'[k - 1].of} ELSE {})
    <3>1. /\ k + 1 \in 2..Len(stack) /\ stack'[k] = stack[k + 1]
          /\ (k + 1) - 1 = k
      BY <1>3
    <3>2. CASE k = 1
      <4>1. stack[(k + 1) - 1].of = b
        BY <3>1, <3>2, <1>3 DEF b
      <4> QED
        BY <3>1, <3>2, <4>1, <2>1, <1>6
    <3>3. CASE k > 1
      <4>1. stack'[k - 1] = stack[(k + 1) - 1]
        <5>1. k - 1 \in 1..Len(stack') /\ (k - 1) + 1 = k
          BY <3>3, <1>3
        <5> QED
          BY <5>1, <3>1, <1>3
      <4> QED
        BY <3>1, <3>3, <4>1, <2>1, <1>6
    <3> QED
      BY <3>2, <3>3, <1>3
  <2> QED
    BY <2>2, <1>8, <1>9 DEF StackWaits, Above
<1>12. OrderedOnce'
  <2>1. \A i \in 1..Len(ordered) : ordered[i] # b
    BY <1>5 DEF Visited
  <2> QED
    BY <2>1, <1>7 DEF OrderInv, OrderedOnce
<1>13. OrderedAfter'
  <2>1. ASSUME NEW i \in 1..Len(ordered')
        PROVE  followed(ordered'[i]) \subseteq {ordered'[j] : j \in 1..(i - 1)}
    <3>1. CASE i = Len(ordered) + 1
      <4>1. Visited \subseteq {ordered'[j] : j \in 1..(i - 1)}
        BY <3>1, <1>7 DEF Visited
      <4> QED
        BY <3>1, <4>1, <1>5, <1>7
    <3>2. CASE i \in 1..Len(ordered)
      <4>1. {ordered'[j] : j \in 1..(i - 1)} = {ordered[j] : j \in 1..(i - 1)}
        BY <3>2, <1>7
      <4> QED
        BY <3>2, <4>1, <1>7 DEF OrderInv, OrderedAfter
    <3> QED
      BY <3>1, <3>2, <1>7
  <2> QED
    BY <2>1, <1>9 DEF OrderedAfter
<1>14. OrderComplete'
  BY <1>1 DEF OrderComplete, PlannedPhases
<1> QED
  BY <1>10, <1>11, <1>12, <1>13, <1>14 DEF OrderInv

-----------------------------------------------------------------------------
\* The theorem.

LEMMA OrderInvInitially == PlanInit => OrderInv
  BY DEF PlanInit, OrderInv, OrderShape, StackWaits, OrderedOnce, OrderedAfter,
         OrderComplete, PlannedPhases

LEMMA OrderInvInductive == OrderInv /\ [PlanNext]_planVars => OrderInv'
<1> SUFFICES ASSUME OrderInv, [PlanNext]_planVars
             PROVE  OrderInv'
  OBVIOUS
<1>1. CASE Construct
  <2>1. phase' \in {"refused", "selecting"} /\ phase = "constructing"
        /\ UNCHANGED <<registry, included, cyclic, stack, ordered>>
    BY <1>1 DEF Construct
  <2> QED
    BY <2>1, OrderUntouched DEF OrderInv, OrderShape, PlannedPhases
<1>2. CASE Select
  BY <1>2, SelectStep
<1>3. CASE Finish
  BY <1>3, FinishStep
<1>4. CASE Planned
  <2>1. phase' \in {"refused", "planned", "reported"} /\ included \subseteq Visited
        /\ UNCHANGED <<registry, included, cyclic, stack, ordered>>
    BY <1>4 DEF Planned
  <2> QED
    BY <2>1, OrderUntouched DEF PlannedPhases
<1>5. CASE Prepare
  <2>1. phase' \in {"unprepared", "refused", "prepared"} /\ phase = "planned"
        /\ UNCHANGED <<registry, included, cyclic, stack, ordered>>
    BY <1>5 DEF Prepare
  <2> QED
    BY <2>1, OrderUntouched DEF PlannedPhases
<1>6. CASE \E d \in Definition : VisitRoot(d) \/ VisitDependency(d)
  BY <1>6, VisitRootStep, VisitDependencyStep
<1>7. CASE \E complete, items \in SUBSET Definition : Preflight(complete, items)
  <2>1. phase' \in {"executing", "refused"} /\ phase = "prepared"
        /\ UNCHANGED <<registry, included, cyclic, stack, ordered>>
    BY <1>7 DEF Preflight
  <2> QED
    BY <2>1, OrderUntouched DEF PlannedPhases
<1>8. CASE UNCHANGED planVars
  <2>1. UNCHANGED <<registry, included, cyclic, stack, ordered, phase>>
    BY <1>8 DEF planVars
  <2> QED
    BY <2>1, OrderUntouched DEF OrderInv, OrderShape
<1> QED
  BY <1>1, <1>2, <1>3, <1>4, <1>5, <1>6, <1>7, <1>8 DEF PlanNext

\* The order orderDefinitionIds gives a plan names every included definition
\* once and after what it depends on, whatever the registry (cyclic ones
\* included), the request, and the frames the engine allows the visit.
THEOREM PlanDependenciesFirst == PlanSpec => []DependenciesFirst
<1>1. OrderInv => DependenciesFirst
  <2> SUFFICES ASSUME OrderInv, phase \in PlannedPhases
               PROVE  Visited = included /\ OrderedOnce /\ OrderedAfter
    BY DEF DependenciesFirst, OrderedOnce, OrderedAfter, PlannedPhases
  <2>1. Visited \subseteq included
    BY DEF OrderInv, OrderShape, Visited
  <2>2. included \subseteq Visited
    BY DEF OrderInv, OrderComplete
  <2> QED
    BY <2>1, <2>2 DEF OrderInv
<1> QED
  BY OrderInvInitially, OrderInvInductive, <1>1, PTL DEF PlanSpec

-----------------------------------------------------------------------------
(* Reached is defined by layers: layer n is what n steps reach.            *)
Rounds == Cardinality(Definition)
NextOf(next, S) == UNION {next[d] : d \in S \cap Definition}
Layers(s, next, from, k) ==
    s = [n \in 0..k |-> IF n = 0 THEN from ELSE s[n-1] \cup NextOf(next, s[n-1])]

LEMMA RoundsAreFinite == Rounds \in Nat
BY DefinitionsFinite, FS_CardinalityType DEF Rounds

LEMMA LayersExist ==
    ASSUME NEW next, NEW from, NEW k \in Nat
    PROVE  \E s : Layers(s, next, from, k)
<1> DEFINE Bad == {n \in Nat : ~\E s : Layers(s, next, from, n)}
<1> SUFFICES ASSUME Bad # {} PROVE FALSE
  OBVIOUS
<1>1. PICK n \in Bad : \A m \in Bad : n <= m
  <2> HIDE DEF Bad
  <2>1. Bad \in SUBSET Nat
    BY DEF Bad
  <2> QED
    BY <2>1, LeastNumber
<1>2. n \in Nat /\ ~\E s : Layers(s, next, from, n)
  OBVIOUS
<1>3. n # 0
  <2> SUFFICES ASSUME n = 0 PROVE FALSE
    OBVIOUS
  <2>1. Layers([m \in 0..0 |-> from], next, from, 0)
    BY DEF Layers
  <2> QED
    BY <1>2, <2>1
<1>4. n - 1 \in Nat /\ n - 1 \notin Bad
  BY <1>1, <1>2, <1>3
<1>5. PICK s : Layers(s, next, from, n - 1)
  BY <1>4
<1> DEFINE last == s[n-1] \cup NextOf(next, s[n-1])
           t == [m \in 0..n |-> IF m = n THEN last ELSE s[m]]
<1>6. \A m \in 0..n-1 : t[m] = s[m]
  BY <1>2, <1>3
<1>7. ASSUME NEW m \in 0..n
      PROVE  t[m] = IF m = 0 THEN from ELSE t[m-1] \cup NextOf(next, t[m-1])
  <2>1. CASE m = 0
    <3>1. t[0] = s[0]
      BY <1>2, <1>3, <1>6
    <3>2. s[0] = from
      BY <1>5, <1>4 DEF Layers
    <3> QED
      BY <2>1, <3>1, <3>2
  <2>2. CASE m = n
    <3>1. t[m] = last
      BY <2>2
    <3>2. t[m-1] = s[n-1]
      BY <2>2, <1>6, <1>2, <1>3
    <3> HIDE DEF t
    <3> QED
      BY <2>2, <1>3, <3>1, <3>2
  <2>3. CASE m # 0 /\ m # n
    <3>1. m \in 0..n-1 /\ m - 1 \in 0..n-1
      BY <2>3, <1>2
    <3>2. s[m] = s[m-1] \cup NextOf(next, s[m-1])
      <4> HIDE DEF t, last
      <4> QED
        BY <1>5, <2>3, <3>1 DEF Layers
    <3>3. t[m] = s[m] /\ t[m-1] = s[m-1]
      BY <3>1, <1>6
    <3> HIDE DEF t
    <3> QED
      BY <2>3, <3>2, <3>3
  <2> QED
    BY <2>1, <2>2, <2>3
<1>8. t = [m \in 0..n |-> t[m]]
  OBVIOUS
<1> HIDE DEF t
<1>9. Layers(t, next, from, n)
  BY <1>7, <1>8 DEF Layers
<1> QED
  BY <1>2, <1>9

LEMMA ReachedIsALayer ==
    ASSUME NEW next, NEW from
    PROVE  \E s : Layers(s, next, from, Rounds) /\ Reached(next, from) = s[Rounds]
<1> DEFINE t == CHOOSE s : Layers(s, next, from, Rounds)
<1>1. Layers(t, next, from, Rounds)
  BY LayersExist, RoundsAreFinite
<1>2. Reached(next, from) = t[Rounds]
  BY DEF Reached, Rounds, Layers, NextOf
<1> QED
  BY <1>1, <1>2

(* Every layer contains the one before.                                    *)
LEMMA LayerSteps ==
    ASSUME NEW next, NEW from, NEW k \in Nat, NEW s, Layers(s, next, from, k)
    PROVE  /\ s[0] = from
           /\ \A n \in 0..k : n + 1 <= k => s[n+1] = s[n] \cup NextOf(next, s[n])
<1>1. s[0] = from
  BY DEF Layers
<1>2. ASSUME NEW n \in 0..k, n + 1 <= k PROVE s[n+1] = s[n] \cup NextOf(next, s[n])
  <2>1. n + 1 \in 0..k /\ n + 1 # 0 /\ (n + 1) - 1 = n
    BY <1>2
  <2>2. s[n+1] = s[(n+1)-1] \cup NextOf(next, s[(n+1)-1])
    BY <2>1 DEF Layers
  <2> QED
    BY <2>1, <2>2
<1> QED
  BY <1>1, <1>2

LEMMA LayersGrow ==
    ASSUME NEW next, NEW from, NEW k \in Nat, NEW s, Layers(s, next, from, k),
           NEW a \in 0..k, NEW b \in 0..k, a <= b
    PROVE  s[a] \subseteq s[b]
<1> DEFINE Bad == {n \in Nat : a <= n /\ n <= k /\ ~(s[a] \subseteq s[n])}
<1> SUFFICES ASSUME Bad # {} PROVE FALSE
  OBVIOUS
<1>1. PICK n \in Bad : \A m \in Bad : n <= m
  <2>1. Bad \in SUBSET Nat
    OBVIOUS
  <2> HIDE DEF Bad
  <2> QED
    BY <2>1, LeastNumber
<1>2. n \in Nat /\ a <= n /\ n <= k /\ ~(s[a] \subseteq s[n])
  OBVIOUS
<1>3. a # n
  BY <1>2
<1>4. n - 1 \in Nat /\ a <= n - 1 /\ n - 1 <= k /\ n - 1 \notin Bad
  BY <1>1, <1>2, <1>3
<1>5. s[a] \subseteq s[n-1]
  BY <1>4
<1>6. s[(n-1)+1] = s[n-1] \cup NextOf(next, s[n-1])
  BY <1>2, <1>4, LayerSteps
<1>7. (n-1)+1 = n
  BY <1>2
<1> QED
  BY <1>2, <1>5, <1>6, <1>7

Closed(next, C) == \A d \in C \cap Definition : next[d] \subseteq C

LEMMA LayersWithin ==
    ASSUME NEW next, NEW from, NEW k \in Nat, NEW s, Layers(s, next, from, k),
           NEW C, from \subseteq C, Closed(next, C), NEW b \in 0..k
    PROVE  s[b] \subseteq C
<1> DEFINE Bad == {n \in Nat : n <= k /\ ~(s[n] \subseteq C)}
<1> SUFFICES ASSUME Bad # {} PROVE FALSE
  OBVIOUS
<1>1. PICK n \in Bad : \A m \in Bad : n <= m
  <2>1. Bad \in SUBSET Nat
    OBVIOUS
  <2> HIDE DEF Bad
  <2> QED
    BY <2>1, LeastNumber
<1>2. n \in Nat /\ n <= k /\ ~(s[n] \subseteq C)
  OBVIOUS
<1>3. n # 0
  BY <1>2, LayerSteps
<1>4. n - 1 \in Nat /\ n - 1 <= k /\ n - 1 \notin Bad /\ n - 1 \in 0..k
  BY <1>1, <1>2, <1>3
<1>5. s[n-1] \subseteq C
  BY <1>4
<1>6. s[(n-1)+1] = s[n-1] \cup NextOf(next, s[n-1])
  <2>1. (n-1) + 1 <= k
    BY <1>2
  <2>2. \A i \in 0..k : i + 1 <= k => s[i+1] = s[i] \cup NextOf(next, s[i])
    BY LayerSteps
  <2>3. n - 1 \in 0..k
    BY <1>4
  <2> QED
    BY <2>1, <2>2, <2>3
<1>7. (n-1)+1 = n
  BY <1>2
<1>8. NextOf(next, s[n-1]) \subseteq C
  BY <1>5 DEF NextOf, Closed
<1> QED
  BY <1>2, <1>5, <1>6, <1>7, <1>8

(* Some layer adds no definition: otherwise each of the Rounds layers      *)
(* would add one.                                                          *)
LEMMA SomeLayerAddsNothing ==
    ASSUME NEW next, NEW from, NEW s, Layers(s, next, from, Rounds), Rounds # 0
    PROVE  \E m \in 0..Rounds :
              m + 1 <= Rounds /\ s[m+1] \cap Definition = s[m] \cap Definition
<1> DEFINE D(m) == s[m] \cap Definition
<1>0. Rounds \in Nat
  BY RoundsAreFinite
<1> SUFFICES ASSUME \A m \in 0..Rounds : m + 1 <= Rounds => D(m+1) # D(m)
             PROVE  FALSE
  OBVIOUS
<1>1. \A m \in 0..Rounds : m + 1 <= Rounds => s[m+1] = s[m] \cup NextOf(next, s[m])
  BY <1>0, LayerSteps
<1>2. \A m \in 0..Rounds : D(m) # {}
  <2>1. D(0) # {}
    <3> SUFFICES ASSUME D(0) = {} PROVE FALSE
      OBVIOUS
    <3>1. s[0+1] = s[0] \cup NextOf(next, s[0]) /\ D(0+1) # D(0)
      BY <1>0, <1>1
    <3>2. NextOf(next, s[0]) = {}
      BY DEF NextOf
    <3> QED
      BY <3>1, <3>2
  <2>2. ASSUME NEW m \in 0..Rounds PROVE s[0] \subseteq s[m]
    <3>1. 0 \in 0..Rounds /\ 0 <= m
      BY <1>0
    <3> QED
      BY <1>0, <3>1, LayersGrow
  <2> QED
    BY <2>1, <2>2
<1>3. \A m \in 0..Rounds : IsFiniteSet(D(m)) /\ Cardinality(D(m)) \in Nat
  BY DefinitionsFinite, FS_Subset, FS_CardinalityType
<1> DEFINE Bad == {n \in Nat : n <= Rounds /\ ~(Cardinality(D(n)) >= n + 1)}
<1>4. Bad = {}
  <2> SUFFICES ASSUME Bad # {} PROVE FALSE
    OBVIOUS
  <2>1. PICK n \in Bad : \A m \in Bad : n <= m
    <3>1. Bad \in SUBSET Nat
      OBVIOUS
    <3> HIDE DEF Bad
    <3> QED
      BY <3>1, LeastNumber
  <2>2. n \in Nat /\ n \in 0..Rounds /\ ~(Cardinality(D(n)) >= n + 1)
    BY <1>0
  <2>3. n # 0
    <3> SUFFICES ASSUME n = 0 PROVE FALSE
      OBVIOUS
    <3>1. IsFiniteSet(D(0)) /\ D(0) # {} /\ Cardinality(D(0)) \in Nat
      BY <1>0, <1>2, <1>3
    <3>2. Cardinality(D(0)) # 0
      BY <3>1, FS_EmptySet
    <3> HIDE DEF D
    <3> QED
      BY <2>2, <3>1, <3>2
  <2>4. n - 1 \in 0..Rounds /\ n - 1 \notin Bad /\ (n - 1) + 1 = n
    BY <1>0, <2>1, <2>2, <2>3
  <2>5. Cardinality(D(n-1)) >= n
    <3> HIDE DEF D
    <3> QED
      BY <2>4, <2>2
  <2>6. D(n) # D(n-1)
    <3> HIDE DEF D
    <3>1. (n-1)+1 <= Rounds
      BY <2>4, <2>2, <1>0
    <3> QED
      BY <2>4, <3>1
  <2>7. D(n-1) \subseteq D(n)
    <3>1. n - 1 <= n
      BY <2>2
    <3>2. s[n-1] \subseteq s[n]
      <4> HIDE DEF Bad
      <4> QED
        BY <1>0, <2>2, <2>4, <3>1, LayersGrow
    <3> QED
      BY <3>2
  <2>8. /\ IsFiniteSet(D(n)) /\ Cardinality(D(n)) \in Nat
        /\ Cardinality(D(n-1)) \in Nat
    BY <1>3, <2>2, <2>4
  <2>9. Cardinality(D(n-1)) < Cardinality(D(n))
    <3> HIDE DEF D
    <3>1. Cardinality(D(n-1)) <= Cardinality(D(n))
      BY <2>7, <2>8, FS_Subset
    <3>2. Cardinality(D(n-1)) # Cardinality(D(n))
      BY <2>6, <2>7, <2>8, FS_Subset
    <3> QED
      BY <2>8, <3>1, <3>2
  <2> HIDE DEF D
  <2> QED
    BY <2>2, <2>5, <2>8, <2>9
<1>5. Cardinality(D(Rounds)) >= Rounds + 1
  <2>1. Rounds \notin Bad
    BY <1>4
  <2> HIDE DEF D
  <2> QED
    BY <1>0, <2>1
<1>6. Cardinality(D(Rounds)) <= Rounds
  BY <1>0, DefinitionsFinite, FS_Subset DEF Rounds
<1>7. Cardinality(D(Rounds)) \in Nat
  BY <1>0, <1>3
<1> HIDE DEF D
<1> QED
  BY <1>0, <1>5, <1>6, <1>7

(* Reached is the closure: it contains what it starts from and everything  *)
(* next to it, and lies within every set that does.                        *)
LEMMA ReachedIsClosure ==
    ASSUME NEW next, NEW from
    PROVE  /\ from \subseteq Reached(next, from)
           /\ Closed(next, Reached(next, from))
           /\ \A C : from \subseteq C /\ Closed(next, C) => Reached(next, from) \subseteq C
<1>0. Rounds \in Nat
  BY RoundsAreFinite
<1>1. PICK s : Layers(s, next, from, Rounds) /\ Reached(next, from) = s[Rounds]
  BY ReachedIsALayer
<1>5. ASSUME NEW b \in 0..Rounds PROVE from \subseteq s[b]
  <2>1. 0 \in 0..Rounds /\ 0 <= b
    BY <1>0
  <2>2. s[0] = from
    BY <1>0, <1>1, LayerSteps
  <2>3. s[0] \subseteq s[b]
    BY <1>0, <1>1, <2>1, LayersGrow
  <2> QED
    BY <2>2, <2>3
<1>6. Rounds \in 0..Rounds
  BY <1>0
<1>2. from \subseteq Reached(next, from)
  BY <1>1, <1>5, <1>6
<1>3. ASSUME NEW C, from \subseteq C, Closed(next, C)
      PROVE  Reached(next, from) \subseteq C
  <2>1. Rounds \in 0..Rounds
    BY <1>0
  <2> QED
    BY <1>0, <1>1, <1>3, <2>1, LayersWithin
<1>4. Closed(next, Reached(next, from))
  <2>1. CASE Rounds = 0
    <3>1. Definition = {}
      BY <2>1, DefinitionsFinite, FS_EmptySet DEF Rounds
    <3> QED
      BY <3>1 DEF Closed
  <2>2. CASE Rounds # 0
    <3>1. PICK m \in 0..Rounds :
             m + 1 <= Rounds /\ s[m+1] \cap Definition = s[m] \cap Definition
      BY <1>1, <2>2, SomeLayerAddsNothing
    <3>2. m + 1 \in 0..Rounds
      BY <1>0, <3>1
    <3>3. s[m+1] = s[m] \cup NextOf(next, s[m])
      BY <1>0, <1>1, <3>1, LayerSteps
    <3>4. Closed(next, s[m+1])
      BY <3>1, <3>3 DEF Closed, NextOf
    <3>5. from \subseteq s[m+1]
      BY <3>2, <1>5
    <3>6. s[Rounds] \subseteq s[m+1]
      BY <1>0, <1>1, <1>6, <3>4, <3>5, LayersWithin
    <3>7. s[m+1] \subseteq s[Rounds]
      BY <1>0, <1>1, <3>1, <3>2, LayersGrow
    <3>8. s[Rounds] = s[m+1]
      BY <3>6, <3>7
    <3> QED
      BY <1>1, <3>4, <3>8
  <2> QED
    BY <2>1, <2>2
<1> QED
  BY <1>2, <1>3, <1>4

-----------------------------------------------------------------------------
(* What is required beyond the plan, and what depends on it.               *)

LEMMA RequiredBeyondPlan ==
    Reached(registry.required, included) \ included \subseteq requiredDependencyPreflight
<1> DEFINE beyond == [d \in Definition |-> registry.required[d] \ included]
           origin == UNION {registry.required[d] \ included : d \in included}
           P == Reached(beyond, origin)
           C == included \cup P
<1>1. origin \subseteq P /\ Closed(beyond, P)
  BY ReachedIsClosure
<1>2. Closed(registry.required, C)
  <2> SUFFICES ASSUME NEW d \in C \cap Definition, NEW x \in registry.required[d],
                      x \notin included
               PROVE  x \in P
    BY DEF Closed
  <2> HIDE DEF P
  <2>1. CASE d \in included
    BY <1>1, <2>1
  <2>2. CASE d \in P
    <3>1. beyond[d] = registry.required[d] \ included
      OBVIOUS
    <3> HIDE DEF beyond
    <3> QED
      BY <1>1, <2>2, <3>1 DEF Closed
  <2> QED
    BY <2>1, <2>2
<1>3. Reached(registry.required, included) \subseteq C
  <2>1. included \subseteq C
    OBVIOUS
  <2> HIDE DEF C
  <2> QED
    BY <1>2, <2>1, ReachedIsClosure
<1>4. P = requiredDependencyPreflight
  BY DEF requiredDependencyPreflight
<1> HIDE DEF P
<1> QED
  BY <1>3, <1>4

LEMMA DependentsBeyondPlan ==
    Reached(Dependents, included) \ included \subseteq unsafeDependents
<1> DEFINE origin == UNION {Dependents[d] : d \in included}
           P == Reached(Dependents, origin)
           C == included \cup P
<1>1. origin \subseteq P /\ Closed(Dependents, P)
  BY ReachedIsClosure
<1>2. Closed(Dependents, C)
  <2> HIDE DEF P
  <2> QED
    BY <1>1 DEF Closed
<1>3. Reached(Dependents, included) \subseteq C
  <2>1. included \subseteq C
    OBVIOUS
  <2> HIDE DEF C
  <2> QED
    BY <1>2, <2>1, ReachedIsClosure
<1>4. P = unsafeDependents
  BY DEF unsafeDependents
<1> HIDE DEF P
<1> QED
  BY <1>3, <1>4

(***************************************************************************)
(* A run that executes unforced has every definition it depends on,        *)
(* however indirectly, in its plan or completed; a rollback leaves no      *)
(* dependent of what it removes with items: for every registry.            *)
(***************************************************************************)
THEOREM NothingIsMissingBelow == PlanSpec => []NothingMissingBelow
<1>1. PlanInit => NothingMissingBelow
  BY DEF PlanInit, NothingMissingBelow
<1>2. NothingMissingBelow /\ [PlanNext]_planVars => NothingMissingBelow'
  <2> SUFFICES ASSUME NothingMissingBelow, [PlanNext]_planVars
               PROVE  NothingMissingBelow'
    OBVIOUS
  <2>1. ASSUME NEW complete \in SUBSET Definition, NEW items \in SUBSET Definition,
               Preflight(complete, items)
        PROVE  NothingMissingBelow'
    <3>1. UNCHANGED <<registry, request, included>>
      BY <2>1 DEF Preflight
    <3> SUFFICES ASSUME phase' = "executing", ~request.force
                 PROVE  IF request.kind = "run"
                        THEN Reached(registry.required, included) \ included
                               \subseteq facts'.complete
                        ELSE (Reached(Dependents, included) \ included)
                               \cap facts'.items = {}
      BY <3>1 DEF NothingMissingBelow, Dependents
    <3>2. PreflightPasses
      BY <2>1 DEF Preflight
    <3>3. CASE request.kind = "run"
      BY <3>2, <3>3, RequiredBeyondPlan DEF PreflightPasses
    <3>4. CASE request.kind # "run"
      <4>1. RollbackDependentsSafe
        BY <3>2, <3>4 DEF PreflightPasses
      <4> QED
        BY <3>4, <4>1, DependentsBeyondPlan DEF RollbackDependentsSafe
    <3> QED
      BY <3>3, <3>4
  <2>2. CASE UNCHANGED planVars
    BY <2>2 DEF planVars, NothingMissingBelow, Dependents
  <2>3. CASE Construct \/ Select \/ Finish \/ Planned \/ Prepare
               \/ \E d \in Definition : VisitRoot(d) \/ VisitDependency(d)
    <3>1. phase' # "executing"
      BY <2>3 DEF Construct, Select, Finish, Planned, Prepare, VisitRoot, VisitDependency
    <3> QED
      BY <3>1 DEF NothingMissingBelow
  <2> QED
    BY <2>1, <2>2, <2>3 DEF PlanNext
<1> QED
  BY <1>1, <1>2, PTL DEF PlanSpec

-----------------------------------------------------------------------------
(* The dashboard of the terminal UI.                                       *)

Streams == {"off", "waiting", "watching"} \cup Answer

BoardTypeOK ==
    /\ shown \in [active : BOOLEAN, error : BOOLEAN,
                  loading : BOOLEAN, observing : BOOLEAN]
    /\ watch \in Streams
    /\ refreshing \in {"none", "stopping", "reading"} \cup Answer
    /\ scan \in {"none", "reading"} \cup Answer

BoardInv == BoardTypeOK /\ DashboardNotFrozen

LEMMA BoardStep == BoardInv /\ [BoardNext]_boardVars => BoardInv'
<1> SUFFICES ASSUME BoardTypeOK, DashboardNotFrozen, [BoardNext]_boardVars
             PROVE  BoardTypeOK' /\ DashboardNotFrozen'
  BY DEF BoardInv
<1> USE DEF BoardTypeOK, DashboardNotFrozen, Answer, answer, Streams
<1>1. CASE ServerChanges
  BY <1>1 DEF ServerChanges
<1>2. CASE ObservationReads
  BY <1>2 DEF ObservationReads
<1>3. CASE OnSnapshot
  BY <1>3 DEF OnSnapshot, applied
<1>4. CASE DashboardObservationFails
  BY <1>4 DEF DashboardObservationFails
<1>5. CASE OnStaleSnapshot
  BY <1>5 DEF OnStaleSnapshot
<1>6. CASE \E coalesce \in BOOLEAN : Refresh(coalesce)
  BY <1>6 DEF Refresh
<1>7. CASE RefreshStopped \/ RefreshReads
  BY <1>7 DEF RefreshStopped, RefreshReads
<1>8. CASE RefreshApplies
  BY <1>8 DEF RefreshApplies, applied
<1>9. CASE RefreshFails
  BY <1>9 DEF RefreshFails
<1>10. CASE OperationStarted
  BY <1>10 DEF OperationStarted, startObservation
<1>11. CASE Scan \/ ScanReads
  BY <1>11 DEF Scan, ScanReads
<1>12. CASE ScanApplies
  BY <1>12 DEF ScanApplies, startObservation, applied
<1>13. CASE Reopened
  BY <1>13 DEF Reopened
<1>14. CASE UNCHANGED boardVars
  BY <1>14 DEF boardVars
<1> QED
  BY <1>1, <1>2, <1>3, <1>4, <1>5, <1>6, <1>7, <1>8, <1>9, <1>10, <1>11, <1>12,
     <1>13, <1>14 DEF BoardNext

(***************************************************************************)
(* A dashboard of the terminal UI is never frozen: while it shows an       *)
(* active run or says it is loading, and shows no error, an observation or *)
(* a refresh is under way that will correct it.                            *)
(***************************************************************************)
THEOREM DashboardIsNeverFrozen == BoardSpec => []DashboardNotFrozen
<1>1. BoardInit => BoardInv
  BY DEF BoardInit, BoardInv, BoardTypeOK, DashboardNotFrozen, Streams
<1>2. BoardInv => DashboardNotFrozen
  BY DEF BoardInv
<1> QED
  BY <1>1, <1>2, BoardStep, PTL DEF BoardSpec

-----------------------------------------------------------------------------
(* The answers the terminal UI shows.                                      *)

(***************************************************************************)
(* Messages, totals and the selective dialog: what is asked for carries    *)
(* the revision, the generation or the number it was asked under, and only *)
(* the answer to what is asked now is shown.                               *)
(***************************************************************************)

\* Messages read for the revision that is shown are read after the change
\* it stands for.
MessagesInv ==
    /\ version \in Nat /\ revision \in Nat
    /\ rows.version \in Nat /\ rows.since \in Nat
    /\ rows = [version |-> rows.version, since |-> rows.since]
    /\ rows.since <= rows.version /\ rows.version <= version
    /\ loading.of \in Nat /\ loading.at \in Nat /\ loading.of <= revision
    /\ loading = [state |-> loading.state, of |-> loading.of, at |-> loading.at]
    /\ loading.state = "read" /\ loading.of = revision => loading.at >= rows.since
    /\ entry.of \in Nat /\ entry.at \in Nat /\ entry.of <= revision
    /\ entry.status = "loaded" /\ entry.of = revision => entry.at >= rows.since

Request == [closure : Nat, sentIn : Nat]

\* A request closes over a generation that is not newer than the one it is
\* sent in, and neither is newer than the current one.
TotalsInv ==
    /\ totals \in [generation : Nat, cached : BOOLEAN, askedIn : Nat]
    /\ effect \in [state : {"armed", "done"}, closure : Nat]
    /\ effect.closure <= totals.generation
    /\ asking \in [sent : SUBSET Request, registered : SUBSET Request]
    /\ \A q \in asking.sent :
         q.closure <= q.sentIn /\ q.sentIn <= totals.generation
    /\ totals.cached => totals.askedIn = totals.generation

\* The current request is the one the open dialog made.
DialogInv ==
    /\ clears \in Nat /\ dialog.current \in Nat /\ dialog.current <= clears
    /\ dialog = [target |-> dialog.target, history |-> dialog.history,
                 asked |-> dialog.asked, current |-> dialog.current]
    /\ \A q \in dialog.asked : q.id \in Nat /\ q.id <= clears /\ q.id > 0
    /\ \A q \in dialog.asked : q.id = dialog.current => q.of = dialog.target
    /\ dialog.target # Nothing => dialog.history \in {Nothing, dialog.target}

AnswersInv == MessagesInv /\ TotalsInv /\ DialogInv

LEMMA MessagesStep ==
    ASSUME MessagesInv, [AnswersNext]_answerVars
    PROVE  MessagesInv'
<1>1. CASE UNCHANGED messageVars
  BY <1>1 DEF MessagesInv, messageVars
<1>2. CASE DataChanges
  BY <1>2 DEF DataChanges, MessagesInv
<1>3. CASE RowsShown
  BY <1>3 DEF RowsShown, MessagesInv
<1>4. CASE Load
  BY <1>4 DEF Load, MessagesInv
<1>5. CASE LoadReads
  <2>1. /\ loading' = [state |-> "read", of |-> loading.of, at |-> version]
        /\ UNCHANGED <<version, revision, rows, entry>>
    BY <1>5 DEF LoadReads, MessagesInv
  <2>2. /\ loading'.of = loading.of /\ loading'.at = version
        /\ loading' = [state |-> loading'.state, of |-> loading'.of, at |-> loading'.at]
    BY <2>1
  <2> QED
    BY <2>1, <2>2 DEF MessagesInv
<1>6. CASE Loaded
  BY <1>6 DEF Loaded, MessagesInv, Quiet
<1> QED
  BY <1>1, <1>2, <1>3, <1>4, <1>5, <1>6 DEF AnswersNext, answerVars, messageVars,
     ClearTotals, EffectRuns, TimerAsks, TotalArrives, OpenDialog, CancelDialog, HistoryArrives

LEMMA TotalsStep ==
    ASSUME TotalsInv, [AnswersNext]_answerVars
    PROVE  TotalsInv'
<1>1. CASE UNCHANGED totalVars
  BY <1>1 DEF TotalsInv, totalVars
<1>2. CASE ClearTotals
  <2>1. /\ totals' = [generation |-> totals.generation + 1, cached |-> FALSE, askedIn |-> 0]
        /\ asking' = [asking EXCEPT !.registered = {}] /\ UNCHANGED effect
    BY <1>2 DEF ClearTotals
  <2>2. totals.generation \in Nat /\ effect.closure \in Nat
    BY DEF TotalsInv
  <2>3. /\ asking' \in [sent : SUBSET Request, registered : SUBSET Request]
        /\ asking'.sent = asking.sent
    BY <2>1 DEF TotalsInv
  <2>4. /\ totals' \in [generation : Nat, cached : BOOLEAN, askedIn : Nat]
        /\ totals'.generation = totals.generation + 1 /\ totals'.cached = FALSE
    BY <2>1, <2>2
  <2>5. \A q \in asking.sent : q.closure \in Nat /\ q.sentIn \in Nat
    BY DEF TotalsInv, Request
  <2> QED
    BY <2>1, <2>2, <2>3, <2>4, <2>5 DEF TotalsInv
<1>3. CASE EffectRuns
  BY <1>3 DEF EffectRuns, TotalsInv
<1>4. CASE TimerAsks
  BY <1>4 DEF TimerAsks, TotalsInv, Request
<1>5. ASSUME NEW q \in asking.sent, TotalArrives(q)
      PROVE  TotalsInv'
  <2>1. /\ asking' \in [sent : SUBSET Request, registered : SUBSET Request]
        /\ asking'.sent \subseteq asking.sent
    BY <1>5 DEF TotalArrives, TotalsInv
  <2>2. /\ totals \in [generation : Nat, cached : BOOLEAN, askedIn : Nat]
        /\ q.closure \in Nat /\ q.sentIn \in Nat
    BY DEF TotalsInv, Request
  <2>3. UNCHANGED effect
    BY <1>5 DEF TotalArrives
  <2>4. /\ totals' \in [generation : Nat, cached : BOOLEAN, askedIn : Nat]
        /\ totals'.generation = totals.generation
        /\ totals'.cached => totals'.askedIn = totals.generation
    <3>1. CASE UNCHANGED totals
      BY <3>1 DEF TotalsInv
    <3>2. CASE /\ q.closure = totals.generation
               /\ totals' = [totals EXCEPT !.cached = TRUE, !.askedIn = q.sentIn]
      <4>1. q.sentIn = totals.generation
        BY <2>2, <3>2 DEF TotalsInv
      <4> QED
        BY <2>2, <3>2, <4>1
    <3> QED
      BY <1>5, <3>1, <3>2 DEF TotalArrives
  <2> QED
    BY <2>1, <2>3, <2>4 DEF TotalsInv
<1> QED
  BY <1>1, <1>2, <1>3, <1>4, <1>5 DEF AnswersNext, answerVars, totalVars, messageVars,
     DataChanges, RowsShown, Load, LoadReads, Loaded, OpenDialog, CancelDialog, HistoryArrives

LEMMA DialogStep ==
    ASSUME DialogInv, [AnswersNext]_answerVars
    PROVE  DialogInv'
<1>1. CASE UNCHANGED <<dialog, clears>>
  BY <1>1 DEF DialogInv
<1>2. CASE ClearTotals
  BY <1>2 DEF ClearTotals, DialogInv
<1>3. ASSUME NEW d \in ListedDefinition, OpenDialog(d)
      PROVE  DialogInv'
  <2>1. /\ dialog' = [target |-> d, history |-> Nothing, current |-> clears + 1,
                      asked |-> dialog.asked \cup {[id |-> clears + 1, of |-> d]}]
        /\ clears' = clears + 1
    BY <1>3 DEF OpenDialog
  <2>2. /\ dialog'.target = d /\ dialog'.history = Nothing /\ dialog'.current = clears + 1
        /\ dialog'.asked = dialog.asked \cup {[id |-> clears + 1, of |-> d]}
    BY <2>1
  <2>3. \A q \in dialog'.asked :
          \/ q.id = clears + 1 /\ q.of = d
          \/ q.id \in Nat /\ q.id <= clears /\ q.id > 0
    BY <2>2 DEF DialogInv
  <2> QED
    BY <2>1, <2>2, <2>3 DEF DialogInv
<1>4. CASE CancelDialog
  <2>1. /\ dialog' = [target |-> Nothing, history |-> dialog.history,
                      asked |-> dialog.asked, current |-> 0]
        /\ UNCHANGED clears
    BY <1>4 DEF CancelDialog, DialogInv
  <2>2. /\ dialog'.target = Nothing /\ dialog'.asked = dialog.asked
        /\ dialog'.current = 0 /\ dialog'.history = dialog.history
    BY <2>1
  <2>3. \A q \in dialog.asked : q.id # 0
    BY DEF DialogInv
  <2> QED
    BY <2>1, <2>2, <2>3 DEF DialogInv
<1>5. ASSUME NEW q \in dialog.asked, HistoryArrives(q)
      PROVE  DialogInv'
  BY <1>5 DEF HistoryArrives, DialogInv, Nothing
<1> QED
  BY <1>1, <1>2, <1>3, <1>4, <1>5 DEF AnswersNext, answerVars, totalVars, messageVars,
     DataChanges, RowsShown, Load, LoadReads, Loaded, EffectRuns, TimerAsks, TotalArrives

-----------------------------------------------------------------------------
(***************************************************************************)
(* The session activity.  The reads of all snapshots follow each other:    *)
(* the active runs of the n-th are read at moment 2n - 1, its rows at 2n.  *)
(* Each run has a story: the moments up to which it did not exist yet, had *)
(* not ended yet, and was still some definition's last run; and what any   *)
(* snapshot says of the run is what its story says (Story).                *)
(***************************************************************************)

Statuses == ActiveStatuses \cup TerminalStatuses
What == Statuses \cup {"no longer active"}
ToldEntry == [run : ActivityRun, what : What]

\* The moments that are over.
Moment == IF activeRead = Unread THEN 2 * snapshots ELSE 2 * snapshots - 1

IsReadOfActive(read) ==
    /\ DOMAIN read.active \subseteq ActivityRun
    /\ \A r \in DOMAIN read.active : read.active[r] \in ActiveStatuses

IsSnapshot(s) ==
    /\ s.at \in Nat \ {0}
    /\ IsReadOfActive(s)
    /\ DOMAIN s.rows \subseteq ActivityRun
    /\ \A r \in DOMAIN s.rows : s.rows[r] \in Statuses

\* The snapshots whose rows have been read.
Complete == arriving \cup {s \in {observed} : s # NoObservation}

ActivityShape ==
    /\ runStatus \in [ActivityRun -> {"none"} \cup Statuses]
    /\ lastRun \in [ActivityDefinition -> {0} \cup ActivityRun]
    /\ \A d \in ActivityDefinition : lastRun[d] # 0 => runStatus[lastRun[d]] # "none"
    /\ snapshots \in Nat
    /\ activeRead # Unread => /\ snapshots > 0 /\ activeRead.at = snapshots
                              /\ IsReadOfActive(activeRead)
    /\ \A s \in Complete : IsSnapshot(s) /\ 2 * s.at <= Moment
    /\ activity \in Seq(ToldEntry)
    /\ outdated \in BOOLEAN
    /\ observed = NoObservation => activity = <<>>

Ended(status) == status \in TerminalStatuses
IsLast(r) == \E d \in ActivityDefinition : lastRun[d] = r

\* What a read of the active runs at the moment says of the run.
ActiveFits(read, moment, r, born, died) ==
    r \in DOMAIN read.active <=>
      /\ runStatus[r] # "none" /\ born < moment
      /\ Ended(runStatus[r]) => died >= moment

\* What a read of the rows says.
RowsFit(s, r, born, died, dropped) ==
    /\ r \in DOMAIN s.rows <=>
         /\ runStatus[r] # "none" /\ born < 2 * s.at
         /\ ~IsLast(r) => dropped >= 2 * s.at
    /\ r \in DOMAIN s.rows =>
         IF Ended(runStatus[r]) /\ died < 2 * s.at
         THEN s.rows[r] = runStatus[r] ELSE s.rows[r] \in ActiveStatuses

HasEnd(r) ==
    \E i \in DOMAIN activity :
      activity[i].run = r /\ activity[i].what \notin ActiveStatuses

Story(r, born, died, dropped) ==
    /\ runStatus[r] # "none" => born <= Moment
    /\ Ended(runStatus[r]) => born <= died /\ died <= Moment
    /\ runStatus[r] # "none" /\ ~IsLast(r) => dropped <= Moment
    /\ \A s \in Complete : /\ ActiveFits(s, 2 * s.at - 1, r, born, died)
                           /\ RowsFit(s, r, born, died, dropped)
    /\ activeRead # Unread => ActiveFits(activeRead, Moment, r, born, died)
    \* An end that was told is an end the newest snapshot has seen.
    /\ ~outdated /\ HasEnd(r) =>
         /\ observed # NoObservation
         /\ Ended(runStatus[r]) /\ died < 2 * observed.at
         /\ r \notin DOMAIN observed.active

Stories ==
    \A r \in ActivityRun : \E born, died, dropped \in Nat : Story(r, born, died, dropped)

ActivityInv == ActivityShape /\ Stories /\ ActivityTellsEnds

LEMMA StatusFacts ==
    /\ ActiveStatuses \cap TerminalStatuses = {} /\ "none" \notin Statuses
    /\ "no longer active" \notin Statuses
    /\ "queued" \in ActiveStatuses
    /\ \A r \in ActivityRun : r \in Nat /\ r # 0
BY ActivityAssumption DEF ActiveStatuses, TerminalStatuses, Statuses, ActivityRun

LEMMA MomentFacts ==
    ASSUME ActivityShape
    PROVE  /\ Moment \in Nat
           /\ activeRead # Unread => Moment = 2 * snapshots - 1
           /\ activeRead = Unread => Moment = 2 * snapshots
           /\ \A s \in Complete : 2 * s.at \in Nat /\ s.at \in Nat /\ 2 * s.at <= Moment
BY DEF ActivityShape, Moment, IsSnapshot

LEMMA QueueStep ==
    ASSUME ActivityInv, NEW r \in ActivityRun,
           NEW plan \in SUBSET ActivityDefinition \ {{}}, RunQueued(r, plan)
    PROVE  ActivityShape' /\ Stories'
<1>1. /\ ActivityShape /\ Stories
      /\ runStatus[r] = "none" /\ runStatus' = [runStatus EXCEPT ![r] = "queued"]
      /\ lastRun' = [d \in ActivityDefinition |-> IF d \in plan THEN r ELSE lastRun[d]]
      /\ UNCHANGED <<activeRead, arriving, snapshots, observed, activity, outdated>>
  BY DEF RunQueued, ActivityInv
<1>2. /\ runStatus' \in [ActivityRun -> {"none"} \cup Statuses]
      /\ runStatus'[r] = "queued"
      /\ \A q \in ActivityRun \ {r} : runStatus'[q] = runStatus[q]
  BY <1>1 DEF ActivityShape, Statuses, ActiveStatuses
<1>3. Moment' = Moment /\ Complete' = Complete
  BY <1>1 DEF Moment, Complete
<1>4. ActivityShape'
  <2>1. lastRun' \in [ActivityDefinition -> {0} \cup ActivityRun]
    BY <1>1 DEF ActivityShape
  <2>2. \A d \in ActivityDefinition : lastRun'[d] # 0 => runStatus'[lastRun'[d]] # "none"
    BY <1>1, <1>2, StatusFacts DEF ActivityShape
  <2>3. activity' \in Seq(ToldEntry)
    BY <1>1 DEF ActivityShape
  <2> QED
    BY <1>1, <1>2, <1>3, <2>1, <2>2, <2>3 DEF ActivityShape
<1>5. ASSUME NEW q \in ActivityRun
      PROVE  \E born, died, dropped \in Nat : Story(q, born, died, dropped)'
  <2>1. PICK born \in Nat, died \in Nat, dropped \in Nat : Story(q, born, died, dropped)
    BY <1>1 DEF Stories
  <2>2. IsLast(q)' => q = r \/ IsLast(q)
    BY <1>1 DEF IsLast
  <2>3. CASE q = r
    <3>0. PICK now \in Nat : now = Moment
      BY <1>1, MomentFacts
    <3>1. Story(r, now, died, now)'
      <4>1. ~HasEnd(r)' \/ outdated'
        BY <1>1, <2>1, <2>3, StatusFacts DEF Story, HasEnd, Ended, Statuses
      <4>2. ~Ended(runStatus'[r])
        BY <1>2 DEF Ended, TerminalStatuses
      <4>3. ASSUME NEW s \in Complete
            PROVE  /\ ActiveFits(s, 2 * s.at - 1, r, now, died)'
                   /\ RowsFit(s, r, now, died, now)'
        <5>1. r \notin DOMAIN s.active /\ r \notin DOMAIN s.rows
          BY <1>1, <2>1, <2>3 DEF Story, ActiveFits, RowsFit
        <5>2. ~(now < 2 * s.at) /\ ~(now < 2 * s.at - 1)
          BY <1>1, <3>0, MomentFacts
        <5> QED
          BY <1>3, <5>1, <5>2 DEF ActiveFits, RowsFit
      <4>4. activeRead # Unread => ActiveFits(activeRead, Moment, r, now, died)'
        BY <1>1, <1>3, <2>1, <2>3, <3>0, MomentFacts DEF Story, ActiveFits
      <4> QED
        BY <1>1, <1>3, <3>0, <4>1, <4>2, <4>3, <4>4, MomentFacts DEF Story
    <3> QED
      BY <2>3, <3>1
  <2>4. CASE q # r
    <3>1. PICK gone \in Nat : gone = IF IsLast(q) THEN Moment ELSE dropped
      BY <1>1, MomentFacts
    <3>2. runStatus'[q] = runStatus[q] /\ HasEnd(q)' = HasEnd(q)
      BY <1>1, <1>2, <2>4 DEF HasEnd
    <3>3. ASSUME NEW s \in Complete
          PROVE  /\ ActiveFits(s, 2 * s.at - 1, q, born, died)'
                 /\ RowsFit(s, q, born, died, gone)'
      <4>1. Moment >= 2 * s.at
        BY <1>1, MomentFacts
      <4> QED
        BY <2>1, <2>2, <2>4, <3>1, <3>2, <4>1 DEF Story, ActiveFits, RowsFit
    <3>4. activeRead # Unread => ActiveFits(activeRead, Moment, q, born, died)'
      BY <1>1, <1>3, <2>1, <3>2 DEF Story, ActiveFits
    <3>5. Story(q, born, died, gone)'
      BY <1>1, <1>3, <2>1, <2>2, <2>4, <3>1, <3>2, <3>3, <3>4, MomentFacts DEF Story
    <3> QED
      BY <3>5
  <2> QED
    BY <2>3, <2>4
<1> QED
  BY <1>4, <1>5 DEF Stories

LEMMA MoveStep ==
    ASSUME ActivityInv, NEW r \in ActivityRun, RunMoves(r)
    PROVE  ActivityShape' /\ Stories'
<1>1. PICK status \in Statuses :
        /\ ActivityShape /\ Stories /\ runStatus[r] \in ActiveStatuses
        /\ runStatus' = [runStatus EXCEPT ![r] = status]
        /\ UNCHANGED <<lastRun, activeRead, arriving, snapshots, observed, activity, outdated>>
  BY DEF RunMoves, ActivityInv, Statuses, ActiveStatuses, TerminalStatuses
<1>2. /\ runStatus' \in [ActivityRun -> {"none"} \cup Statuses]
      /\ runStatus'[r] = status
      /\ \A q \in ActivityRun \ {r} : runStatus'[q] = runStatus[q]
  BY <1>1 DEF ActivityShape
<1>3. Moment' = Moment /\ Complete' = Complete
  BY <1>1 DEF Moment, Complete
<1>4. ActivityShape'
  <2>1. \A d \in ActivityDefinition : lastRun'[d] # 0 => runStatus'[lastRun'[d]] # "none"
    BY <1>1, <1>2, StatusFacts DEF ActivityShape
  <2>2. activity' \in Seq(ToldEntry)
    BY <1>1 DEF ActivityShape
  <2> QED
    BY <1>1, <1>2, <1>3, <2>1, <2>2 DEF ActivityShape
<1>5. ASSUME NEW q \in ActivityRun
      PROVE  \E born, died, dropped \in Nat : Story(q, born, died, dropped)'
  <2>1. PICK born \in Nat, died \in Nat, dropped \in Nat : Story(q, born, died, dropped)
    BY <1>1 DEF Stories
  <2>2. IsLast(q)' = IsLast(q) /\ HasEnd(q)' = HasEnd(q)
    BY <1>1 DEF IsLast, HasEnd
  <2>3. CASE q = r
    <3>0. PICK now \in Nat : now = Moment
      BY <1>1, MomentFacts
    <3>1. runStatus[r] # "none" /\ ~Ended(runStatus[r]) /\ runStatus'[r] # "none"
      BY <1>1, <1>2, StatusFacts DEF Ended, Statuses
    <3>2. ASSUME NEW s \in Complete
          PROVE  /\ ActiveFits(s, 2 * s.at - 1, r, born, now)'
                 /\ RowsFit(s, r, born, now, dropped)'
      <4>1. Moment >= 2 * s.at - 1 /\ ~(Moment < 2 * s.at)
        BY <1>1, MomentFacts
      <4> QED
        BY <1>3, <2>1, <2>2, <2>3, <3>0, <3>1, <4>1 DEF Story, ActiveFits, RowsFit
    <3>3. activeRead # Unread => ActiveFits(activeRead, Moment, r, born, now)'
      BY <1>1, <1>3, <2>1, <2>3, <3>0, <3>1, MomentFacts DEF Story, ActiveFits
    <3>4. Story(r, born, now, dropped)'
      BY <1>1, <1>3, <2>1, <2>2, <2>3, <3>0, <3>1, <3>2, <3>3, MomentFacts DEF Story
    <3> QED
      BY <2>3, <3>4
  <2>4. CASE q # r
    <3>1. runStatus'[q] = runStatus[q]
      BY <1>2, <2>4
    <3>2. \A s \in Complete : /\ ActiveFits(s, 2 * s.at - 1, q, born, died)'
                              /\ RowsFit(s, q, born, died, dropped)'
      BY <2>1, <2>2, <3>1 DEF Story, ActiveFits, RowsFit
    <3>3. activeRead # Unread => ActiveFits(activeRead, Moment, q, born, died)'
      BY <1>1, <1>3, <2>1, <3>1 DEF Story, ActiveFits
    <3>4. Story(q, born, died, dropped)'
      BY <1>1, <1>3, <2>1, <2>2, <3>1, <3>2, <3>3 DEF Story
    <3> QED
      BY <3>4
  <2> QED
    BY <2>3, <2>4
<1> QED
  BY <1>4, <1>5 DEF Stories

LEMMA ReadActiveStep ==
    ASSUME ActivityInv, ReadActiveRuns
    PROVE  ActivityShape' /\ Stories'
<1> DEFINE atWork == {a \in ActivityRun : runStatus[a] \in ActiveStatuses}
           read == [at |-> snapshots + 1, active |-> [r \in atWork |-> runStatus[r]]]
<1>1. /\ ActivityShape /\ Stories
      /\ activeRead = Unread /\ snapshots' = snapshots + 1 /\ activeRead' = read
      /\ UNCHANGED <<runStatus, lastRun, arriving, observed, activity, outdated>>
  BY DEF ReadActiveRuns, ActivityInv
<1>2. snapshots \in Nat /\ snapshots + 1 # 0
  BY <1>1 DEF ActivityShape
<1>3. /\ read.at = snapshots + 1 /\ DOMAIN read.active = atWork
      /\ \A r \in atWork : read.active[r] = runStatus[r]
  OBVIOUS
<1>4. read # Unread
  BY <1>2 DEF Unread
<1> HIDE DEF read
<1>5. /\ Moment \in Nat /\ Moment' = Moment + 1 /\ Moment = 2 * snapshots
      /\ Complete' = Complete
  BY <1>1, <1>2, <1>4 DEF Moment, Complete
<1>6. ActivityShape'
  <2>1. IsReadOfActive(read)
    BY <1>3 DEF IsReadOfActive
  <2>2. \A s \in Complete : IsSnapshot(s) /\ 2 * s.at <= Moment + 1
    BY <1>1, <1>5, MomentFacts DEF ActivityShape
  <2>3. activity' \in Seq(ToldEntry)
    BY <1>1 DEF ActivityShape
  <2>4. \A d \in ActivityDefinition : lastRun'[d] # 0 => runStatus'[lastRun'[d]] # "none"
    BY <1>1 DEF ActivityShape
  <2>5. snapshots' \in Nat /\ snapshots' > 0 /\ activeRead'.at = snapshots'
    BY <1>1, <1>2, <1>3
  <2>6. \A s \in Complete' : IsSnapshot(s) /\ 2 * s.at <= Moment'
    BY <1>5, <2>2
  <2>7. IsReadOfActive(activeRead')
    BY <1>1, <2>1
  <2> QED
    BY <1>1, <2>3, <2>4, <2>5, <2>6, <2>7 DEF ActivityShape
<1>7. ASSUME NEW q \in ActivityRun
      PROVE  \E born, died, dropped \in Nat : Story(q, born, died, dropped)'
  <2>1. PICK born \in Nat, died \in Nat, dropped \in Nat : Story(q, born, died, dropped)
    BY <1>1 DEF Stories
  <2>2. IsLast(q)' = IsLast(q) /\ HasEnd(q)' = HasEnd(q)
    BY <1>1 DEF IsLast, HasEnd
  <2>3. ActiveFits(read, Moment + 1, q, born, died)
    <3>1. q \in DOMAIN read.active <=> runStatus[q] \in ActiveStatuses
      BY <1>3
    <3>2. runStatus[q] \in {"none"} \cup Statuses
      BY <1>1 DEF ActivityShape
    <3>3. CASE runStatus[q] = "none"
      BY <3>1, <3>3, StatusFacts DEF ActiveFits, Statuses
    <3>4. CASE Ended(runStatus[q])
      <4>1. /\ runStatus[q] \notin ActiveStatuses /\ runStatus[q] # "none"
        BY <3>4, StatusFacts DEF Ended, Statuses
      <4>2. ~(died >= Moment + 1)
        BY <1>5, <2>1, <3>4 DEF Story
      <4> QED
        BY <3>1, <3>4, <4>1, <4>2 DEF ActiveFits
    <3>5. CASE runStatus[q] \in ActiveStatuses
      <4>1. runStatus[q] # "none" /\ ~Ended(runStatus[q]) /\ born <= Moment
        BY <2>1, <3>5, StatusFacts DEF Story, Ended, Statuses
      <4> QED
        BY <1>5, <3>1, <3>5, <4>1 DEF ActiveFits
    <3> QED
      BY <3>2, <3>3, <3>4, <3>5 DEF Statuses, Ended
  <2>4. ActiveFits(activeRead, Moment, q, born, died)'
    BY <1>1, <1>5, <2>3 DEF ActiveFits
  <2>5. \A s \in Complete : /\ ActiveFits(s, 2 * s.at - 1, q, born, died)'
                            /\ RowsFit(s, q, born, died, dropped)'
    BY <1>1, <2>1, <2>2 DEF Story, ActiveFits, RowsFit
  <2>6. Story(q, born, died, dropped)'
    <3>1. /\ runStatus'[q] # "none" => born <= Moment'
          /\ Ended(runStatus'[q]) => born <= died /\ died <= Moment'
          /\ runStatus'[q] # "none" /\ ~IsLast(q)' => dropped <= Moment'
      BY <1>1, <1>5, <2>1, <2>2 DEF Story
    <3> QED
      BY <1>1, <1>5, <2>1, <2>2, <2>4, <2>5, <3>1 DEF Story
  <2> QED
    BY <2>6
<1> QED
  BY <1>6, <1>7 DEF Stories

LEMMA ReadRowsStep ==
    ASSUME ActivityInv, ReadRowStatuses
    PROVE  ActivityShape' /\ Stories'
<1> DEFINE last == {lastRun[d] : d \in ActivityDefinition} \ {0}
           new == [at |-> activeRead.at, active |-> activeRead.active,
                   rows |-> [r \in last |-> runStatus[r]]]
<1>1. /\ ActivityShape /\ Stories
      /\ activeRead # Unread /\ arriving' = arriving \cup {new} /\ activeRead' = Unread
      /\ UNCHANGED <<runStatus, lastRun, snapshots, observed, activity, outdated>>
  BY DEF ReadRowStatuses, ActivityInv
<1>2. /\ snapshots \in Nat /\ snapshots > 0 /\ activeRead.at = snapshots
      /\ IsReadOfActive(activeRead)
  BY <1>1 DEF ActivityShape
<1>3. /\ new.at = snapshots /\ new.active = activeRead.active /\ DOMAIN new.rows = last
      /\ \A r \in last : new.rows[r] = runStatus[r]
  BY <1>2
<1>4. \A r \in last : r \in ActivityRun /\ runStatus[r] \in Statuses
  BY <1>1 DEF ActivityShape
<1>5. \A r \in ActivityRun : r \in last <=> IsLast(r)
  BY StatusFacts DEF IsLast
<1> HIDE DEF new
<1>6. /\ Moment \in Nat /\ Moment' = Moment + 1 /\ Moment' = 2 * new.at
      /\ Complete' = Complete \cup {new}
  BY <1>1, <1>2, <1>3 DEF Moment, Complete
<1>7. ActivityShape'
  <2>1. IsSnapshot(new)
    <3>1. IsReadOfActive(new)
      BY <1>2, <1>3 DEF IsReadOfActive
    <3>2. DOMAIN new.rows \subseteq ActivityRun
      BY <1>3, <1>4
    <3>3. \A r \in DOMAIN new.rows : new.rows[r] \in Statuses
      BY <1>3, <1>4
    <3> QED
      BY <1>2, <1>3, <3>1, <3>2, <3>3 DEF IsSnapshot
  <2>2. \A s \in Complete : IsSnapshot(s) /\ 2 * s.at <= Moment + 1
    BY <1>1, <1>6, MomentFacts DEF ActivityShape
  <2>3. activity' \in Seq(ToldEntry)
    BY <1>1 DEF ActivityShape
  <2>4. \A d \in ActivityDefinition : lastRun'[d] # 0 => runStatus'[lastRun'[d]] # "none"
    BY <1>1 DEF ActivityShape
  <2>5. \A s \in Complete' : IsSnapshot(s) /\ 2 * s.at <= Moment'
    BY <1>2, <1>3, <1>6, <2>1, <2>2
  <2> QED
    BY <1>1, <2>3, <2>4, <2>5 DEF ActivityShape
<1>8. ASSUME NEW q \in ActivityRun
      PROVE  \E born, died, dropped \in Nat : Story(q, born, died, dropped)'
  <2>1. PICK born \in Nat, died \in Nat, dropped \in Nat : Story(q, born, died, dropped)
    BY <1>1 DEF Stories
  <2>2. IsLast(q)' = IsLast(q) /\ HasEnd(q)' = HasEnd(q)
    BY <1>1 DEF IsLast, HasEnd
  <2>3. ActiveFits(new, 2 * new.at - 1, q, born, died)
    <3>1. ActiveFits(activeRead, Moment, q, born, died) /\ Moment = 2 * new.at - 1
      BY <1>1, <1>2, <1>3, <1>6, <2>1 DEF Story
    <3> QED
      BY <1>3, <3>1 DEF ActiveFits
  <2>4. RowsFit(new, q, born, died, dropped)
    <3>1. q \in DOMAIN new.rows <=> IsLast(q)
      BY <1>3, <1>5
    <3>2. runStatus[q] \in {"none"} \cup Statuses
      BY <1>1 DEF ActivityShape
    <3>3. IsLast(q) => runStatus[q] # "none"
      BY <1>5, <1>4, StatusFacts
    <3>4. runStatus[q] # "none" => born < 2 * new.at
      BY <1>6, <2>1 DEF Story
    <3>5. runStatus[q] # "none" /\ ~IsLast(q) => ~(dropped >= 2 * new.at)
      BY <1>6, <2>1 DEF Story
    <3>6. q \in DOMAIN new.rows => new.rows[q] = runStatus[q]
      BY <1>3
    <3>7. Ended(runStatus[q]) => died < 2 * new.at
      BY <1>6, <2>1 DEF Story
    <3>8. /\ IsLast(q) /\ Ended(runStatus[q]) => new.rows[q] = runStatus[q]
          /\ IsLast(q) /\ ~Ended(runStatus[q]) => new.rows[q] \in ActiveStatuses
      BY <3>1, <3>2, <3>3, <3>6 DEF Ended, Statuses
    <3> QED
      BY <3>1, <3>3, <3>4, <3>5, <3>7, <3>8 DEF RowsFit
  <2>5. \A s \in Complete \cup {new} :
            /\ ActiveFits(s, 2 * s.at - 1, q, born, died)
            /\ RowsFit(s, q, born, died, dropped)
    BY <2>1, <2>3, <2>4 DEF Story
  <2>6. \A s \in Complete' : /\ ActiveFits(s, 2 * s.at - 1, q, born, died)'
                             /\ RowsFit(s, q, born, died, dropped)'
    BY <1>1, <1>6, <2>2, <2>5 DEF ActiveFits, RowsFit
  <2>7. Story(q, born, died, dropped)'
    <3>1. /\ runStatus'[q] # "none" => born <= Moment'
          /\ Ended(runStatus'[q]) => born <= died /\ died <= Moment'
          /\ runStatus'[q] # "none" /\ ~IsLast(q)' => dropped <= Moment'
      BY <1>1, <1>6, <2>1, <2>2 DEF Story
    <3> QED
      BY <1>1, <2>1, <2>2, <2>6, <3>1 DEF Story
  <2> QED
    BY <2>7
<1> QED
  BY <1>7, <1>8 DEF Stories

-----------------------------------------------------------------------------
(* What applying a snapshot appends: at most one entry for a run.          *)

\* The entries tell of each run in the set, once, what the function says.
Tells(entries, runs, what) ==
    /\ entries \in Seq(ToldEntry)
    /\ \A i \in DOMAIN entries :
         entries[i].run \in runs /\ entries[i].what = what[entries[i].run]
    /\ \A r \in runs : \E i \in DOMAIN entries : entries[i].run = r
    /\ \A i, j \in DOMAIN entries : entries[i].run = entries[j].run => i = j

LEMMA EntriesTell ==
    ASSUME NEW runs \in SUBSET ActivityRun, NEW what \in [runs -> What]
    PROVE  Tells(Entries(what), runs, what)
<1> DEFINE n == Cardinality(runs)
           Run(i) == CHOOSE r \in runs : Cardinality(Before(r, runs)) = i - 1
<1>1. runs \in SUBSET Nat /\ IsFiniteSet(runs)
  <2>1. IsFiniteSet(ActivityRun) /\ ActivityRun \subseteq Nat
    BY ActivityAssumption, FS_Interval DEF ActivityRun
  <2> QED
    BY <2>1, FS_Subset
<1>2. n \in Nat
  BY <1>1, FS_CardinalityType
<1>3. Entries(what) = [i \in 1..n |-> [run |-> Run(i), what |-> what[Run(i)]]]
  BY DEF Entries, Before
<1>4. ASSUME NEW i \in 1..n
      PROVE  Run(i) \in runs /\ Cardinality(Before(Run(i), runs)) = i - 1
  <2>1. \E r \in runs : Cardinality(Before(r, runs)) = i - 1
    BY <1>1, RanksAreCovered
  <2> QED
    BY <2>1
<1>5. ASSUME NEW r \in runs
      PROVE  \E i \in 1..n : Run(i) = r
  <2>1. Cardinality(Before(r, runs)) \in Nat /\ Cardinality(Before(r, runs)) < n
    BY <1>1, BeforeIsRank
  <2>2. PICK i \in 1..n : i = Cardinality(Before(r, runs)) + 1
    BY <1>2, <2>1
  <2>3. Cardinality(Before(Run(i), runs)) = Cardinality(Before(r, runs))
    BY <1>4, <2>1, <2>2
  <2> QED
    BY <1>1, <1>4, <2>3, RankDistinguishes
<1>6. ASSUME NEW i \in 1..n, NEW j \in 1..n, Run(i) = Run(j)
      PROVE  i = j
  <2>1. i - 1 = j - 1
    BY <1>4, <1>6
  <2> QED
    BY <1>2, <2>1
<1> HIDE DEF Run, n
<1>7. Entries(what) \in Seq(ToldEntry)
  <2>1. \A i \in 1..n : [run |-> Run(i), what |-> what[Run(i)]] \in ToldEntry
    BY <1>4 DEF ToldEntry
  <2> QED
    BY <1>2, <1>3, <2>1
<1>8. /\ DOMAIN Entries(what) = 1..n
      /\ \A i \in 1..n : /\ Entries(what)[i].run = Run(i)
                         /\ Entries(what)[i].what = what[Run(i)]
  BY <1>3
<1> QED
  BY <1>4, <1>5, <1>6, <1>7, <1>8 DEF Tells

LEMMA JoinedTell ==
    ASSUME NEW runs \in SUBSET ActivityRun, NEW what,
           NEW others \in SUBSET ActivityRun, NEW of,
           NEW e, NEW f, Tells(e, runs, what), Tells(f, others, of),
           runs \cap others = {}
    PROVE  Tells(e \o f, runs \cup others,
                 [r \in runs \cup others |-> IF r \in runs THEN what[r] ELSE of[r]])
<1> DEFINE both == [r \in runs \cup others |-> IF r \in runs THEN what[r] ELSE of[r]]
<1>1. e \in Seq(ToldEntry) /\ f \in Seq(ToldEntry)
  BY DEF Tells
<1>2. e \o f \in Seq(ToldEntry)
  BY <1>1
<1>3. /\ Len(e) \in Nat /\ Len(f) \in Nat
      /\ DOMAIN e = 1..Len(e) /\ DOMAIN f = 1..Len(f)
      /\ DOMAIN (e \o f) = 1..Len(e) + Len(f)
      /\ \A i \in 1..Len(e) : (e \o f)[i] = e[i]
      /\ \A i \in 1..Len(f) : (e \o f)[Len(e) + i] = f[i]
  BY <1>1
<1>4. \A i \in DOMAIN (e \o f) :
        \/ i \in DOMAIN e /\ (e \o f)[i] = e[i]
        \/ /\ i - Len(e) \in DOMAIN f /\ i = Len(e) + (i - Len(e))
           /\ (e \o f)[i] = f[i - Len(e)]
  BY <1>3
<1>5. ASSUME NEW i \in DOMAIN (e \o f)
      PROVE  /\ (e \o f)[i].run \in runs \cup others
             /\ (e \o f)[i].what = both[(e \o f)[i].run]
  BY <1>4 DEF Tells
<1>6. ASSUME NEW r \in runs \cup others
      PROVE  \E i \in DOMAIN (e \o f) : (e \o f)[i].run = r
  <2>1. CASE r \in runs
    <3>1. PICK i \in DOMAIN e : e[i].run = r
      BY <2>1 DEF Tells
    <3> QED
      BY <1>3, <3>1
  <2>2. CASE r \in others
    <3>1. PICK i \in DOMAIN f : f[i].run = r
      BY <2>2 DEF Tells
    <3>2. Len(e) + i \in DOMAIN (e \o f) /\ (e \o f)[Len(e) + i] = f[i]
      BY <1>3
    <3> QED
      BY <3>1, <3>2
  <2> QED
    BY <2>1, <2>2
<1>7. ASSUME NEW i \in DOMAIN (e \o f), NEW j \in DOMAIN (e \o f),
             (e \o f)[i].run = (e \o f)[j].run
      PROVE  i = j
  <2>1. \A k \in DOMAIN e : e[k].run \in runs
    BY DEF Tells
  <2>2. \A k \in DOMAIN f : f[k].run \in others
    BY DEF Tells
  <2>3. CASE i \in DOMAIN e /\ (e \o f)[i] = e[i]
    BY <1>4, <1>7, <2>1, <2>2, <2>3 DEF Tells
  <2>4. CASE /\ i - Len(e) \in DOMAIN f /\ i = Len(e) + (i - Len(e))
             /\ (e \o f)[i] = f[i - Len(e)]
    <3>1. /\ j - Len(e) \in DOMAIN f /\ j = Len(e) + (j - Len(e))
          /\ (e \o f)[j] = f[j - Len(e)]
      BY <1>4, <1>7, <2>1, <2>2, <2>4
    <3>2. i - Len(e) = j - Len(e)
      BY <1>7, <2>4, <3>1 DEF Tells
    <3> QED
      BY <1>3, <2>4, <3>1, <3>2
  <2> QED
    BY <1>4, <2>3, <2>4
<1> QED
  BY <1>2, <1>5, <1>6, <1>7 DEF Tells

known == IF observed = NoObservation THEN <<>> ELSE observed.active
known_rows == IF observed = NoObservation THEN <<>> ELSE observed.rows
HaveLeft(s) == DOMAIN known \ DOMAIN s.active
HaveChanged(s) ==
    {r \in DOMAIN s.active : r \notin DOMAIN known \/ known[r] # s.active[r]}
HaveEnded(s) ==
    {r \in DOMAIN s.rows \ (HaveLeft(s) \cup DOMAIN s.active) :
        /\ observed # NoObservation /\ s.rows[r] \in TerminalStatuses
        /\ r \notin DOMAIN known_rows \/ known_rows[r] # s.rows[r]}

\* What the snapshot newly tells of a run.
News(s, r, what) ==
    \/ r \in HaveLeft(s) /\ what = completedActiveRunActivity(r, s.rows)
    \/ r \in HaveChanged(s) /\ what = s.active[r]
    \/ r \in HaveEnded(s) /\ what = s.rows[r]

LEMMA NewsIsTold ==
    ASSUME ActivityShape, NEW s \in arriving
    PROVE  LET news == observedRunActivity(observed, s) IN
           /\ news \in Seq(ToldEntry)
           /\ \A i \in DOMAIN news : News(s, news[i].run, news[i].what)
           /\ \A r \in HaveLeft(s) : \E i \in DOMAIN news :
                /\ news[i].run = r
                /\ news[i].what = completedActiveRunActivity(r, s.rows)
           /\ \A i, j \in DOMAIN news : news[i].run = news[j].run => i = j
<1> DEFINE left == HaveLeft(s)
           changed == HaveChanged(s)
           ended == HaveEnded(s)
           f == [r \in left |-> completedActiveRunActivity(r, s.rows)]
           g == [r \in changed |-> s.active[r]]
           h == [r \in ended |-> s.rows[r]]
           news == observedRunActivity(observed, s)
           fg == [r \in left \cup changed |-> IF r \in left THEN f[r] ELSE g[r]]
           all == [r \in (left \cup changed) \cup ended |->
                     IF r \in left \cup changed THEN fg[r] ELSE h[r]]
<1>1. news = (Entries(f) \o Entries(g)) \o Entries(h)
  BY DEF observedRunActivity, HaveLeft, HaveChanged, HaveEnded, known, known_rows
<1>2. /\ s \in Complete /\ IsSnapshot(s)
      /\ observed # NoObservation => IsSnapshot(observed)
  BY DEF ActivityShape, Complete
<1>3. left \in SUBSET ActivityRun
  BY <1>2 DEF HaveLeft, known, IsSnapshot, IsReadOfActive
<1>4. changed \in SUBSET ActivityRun /\ ended \in SUBSET ActivityRun
  BY <1>2 DEF HaveChanged, HaveEnded, IsSnapshot, IsReadOfActive
<1>5. left \cap changed = {} /\ (left \cup changed) \cap ended = {}
  BY DEF HaveLeft, HaveChanged, HaveEnded
<1>6. f \in [left -> What] /\ g \in [changed -> What] /\ h \in [ended -> What]
  <2>1. \A r \in left : completedActiveRunActivity(r, s.rows) \in What
    BY DEF completedActiveRunActivity, What, Statuses
  <2>2. \A r \in changed : s.active[r] \in What
    BY <1>2 DEF HaveChanged, IsSnapshot, IsReadOfActive, What, Statuses
  <2>3. \A r \in ended : s.rows[r] \in What
    BY DEF HaveEnded, What, Statuses
  <2> QED
    BY <2>1, <2>2, <2>3
<1> HIDE DEF left, changed, ended, f, g, h, news, fg
<1>7. Tells(Entries(f), left, f) /\ Tells(Entries(g), changed, g) /\ Tells(Entries(h), ended, h)
  BY <1>3, <1>4, <1>6, EntriesTell
<1>8. Tells(Entries(f) \o Entries(g), left \cup changed, fg)
  <2> HIDE DEF fg
  <2>1. fg = [r \in left \cup changed |-> IF r \in left THEN f[r] ELSE g[r]]
    BY DEF fg
  <2>2. left \cap changed = {}
    BY <1>5
  <2> QED
    BY <1>3, <1>4, <1>7, <2>1, <2>2, JoinedTell
<1>9. Tells(news, (left \cup changed) \cup ended, all)
  <2>1. left \cup changed \in SUBSET ActivityRun
    BY <1>3, <1>4
  <2>2. (left \cup changed) \cap ended = {}
    BY <1>5
  <2>3. Tells((Entries(f) \o Entries(g)) \o Entries(h), (left \cup changed) \cup ended, all)
    BY <1>4, <1>7, <1>8, <2>1, <2>2, JoinedTell
  <2> QED
    BY <1>1, <2>3
<1>10. /\ \A r \in left : all[r] = completedActiveRunActivity(r, s.rows)
       /\ \A r \in changed : all[r] = s.active[r]
       /\ \A r \in ended : all[r] = s.rows[r]
  BY <1>5 DEF f, g, h, fg
<1> HIDE DEF all
<1>11. \A i \in DOMAIN news : News(s, news[i].run, news[i].what)
  BY <1>9, <1>10 DEF Tells, News, left, changed, ended
<1>12. \A r \in HaveLeft(s) : \E i \in DOMAIN news :
          news[i].run = r /\ news[i].what = completedActiveRunActivity(r, s.rows)
  BY <1>9, <1>10 DEF Tells, left
<1>13. /\ news \in Seq(ToldEntry)
       /\ \A i, j \in DOMAIN news : news[i].run = news[j].run => i = j
  BY <1>9 DEF Tells
<1> QED
  BY <1>11, <1>12, <1>13 DEF news

\* An end that is newly told is the run's.
LEMMA NewEndIsTrue ==
    ASSUME ActivityShape, NEW s \in arriving, NEW r \in ActivityRun,
           NEW born \in Nat, NEW died \in Nat, NEW dropped \in Nat,
           Story(r, born, died, dropped),
           NEW what, News(s, r, what), what \notin ActiveStatuses
    PROVE  /\ what \in {runStatus[r], "no longer active"}
           /\ r \notin DOMAIN s.active
           /\ s.at >= observed.at => Ended(runStatus[r]) /\ died < 2 * s.at
<1>1. s \in Complete /\ IsSnapshot(s) /\ s.at \in Nat
  BY DEF ActivityShape, Complete, IsSnapshot
<1>2. /\ ActiveFits(s, 2 * s.at - 1, r, born, died)
      /\ RowsFit(s, r, born, died, dropped)
  BY <1>1 DEF Story
<1>3. r \notin HaveChanged(s)
  BY <1>1 DEF News, HaveChanged, HaveLeft, HaveEnded, IsSnapshot, IsReadOfActive
<1>4. r \notin DOMAIN s.active
  BY <1>3 DEF News, HaveLeft, HaveEnded
<1>5. CASE r \in DOMAIN s.rows /\ s.rows[r] \in TerminalStatuses
  <2>1. Ended(runStatus[r]) /\ died < 2 * s.at /\ s.rows[r] = runStatus[r]
    BY <1>2, <1>5, StatusFacts DEF RowsFit
  <2>2. what = s.rows[r]
    BY <1>3, <1>5 DEF News, completedActiveRunActivity
  <2> QED
    BY <1>4, <2>1, <2>2
<1>6. CASE ~(r \in DOMAIN s.rows /\ s.rows[r] \in TerminalStatuses)
  <2>1. r \in HaveLeft(s) /\ what = "no longer active"
    BY <1>3, <1>6 DEF News, HaveEnded, completedActiveRunActivity
  <2>2. /\ observed # NoObservation /\ r \in DOMAIN observed.active
        /\ IsSnapshot(observed) /\ observed.at \in Nat
        /\ ActiveFits(observed, 2 * observed.at - 1, r, born, died)
    <3>1. observed # NoObservation /\ r \in DOMAIN observed.active
      <4>1. r \in DOMAIN known
        BY <2>1 DEF HaveLeft
      <4>2. observed = NoObservation => DOMAIN known = {}
        BY DEF known
      <4> QED
        BY <4>1, <4>2 DEF known
    <3>2. observed \in Complete
      BY <3>1 DEF Complete
    <3>3. IsSnapshot(observed)
      BY <3>2 DEF ActivityShape
    <3> QED
      BY <3>1, <3>2, <3>3 DEF Story, IsSnapshot
  <2>3. runStatus[r] # "none" /\ born < 2 * observed.at - 1
    BY <2>2 DEF ActiveFits
  <2>4. ASSUME s.at >= observed.at
        PROVE  Ended(runStatus[r]) /\ died < 2 * s.at
    <3>1. born < 2 * s.at - 1
      BY <1>1, <2>2, <2>3, <2>4
    <3>2. ~(Ended(runStatus[r]) => died >= 2 * s.at - 1)
      BY <1>2, <1>4, <2>3, <3>1 DEF ActiveFits
    <3> QED
      BY <1>1, <3>2
  <2> QED
    BY <1>4, <2>1, <2>4
<1> QED
  BY <1>5, <1>6

\* Of a run whose end was told, a snapshot that is not older tells nothing.
LEMMA EndedIsNoNews ==
    ASSUME ActivityShape, NEW s \in arriving, NEW r \in ActivityRun,
           NEW born \in Nat, NEW died \in Nat, NEW dropped \in Nat,
           Story(r, born, died, dropped),
           ~outdated, HasEnd(r), s.at >= observed.at
    PROVE  /\ \A what : ~News(s, r, what)
           /\ Ended(runStatus[r]) /\ died < 2 * s.at /\ r \notin DOMAIN s.active
<1>1. s \in Complete /\ IsSnapshot(s) /\ s.at \in Nat
  BY DEF ActivityShape, Complete, IsSnapshot
<1>2. /\ ActiveFits(s, 2 * s.at - 1, r, born, died)
      /\ RowsFit(s, r, born, died, dropped)
  BY <1>1 DEF Story
<1>3. /\ observed # NoObservation /\ Ended(runStatus[r]) /\ born <= died
      /\ died < 2 * observed.at /\ r \notin DOMAIN observed.active
  BY DEF Story
<1>4. /\ observed \in Complete /\ observed.at \in Nat
      /\ ActiveFits(observed, 2 * observed.at - 1, r, born, died)
      /\ RowsFit(observed, r, born, died, dropped)
  BY <1>3 DEF ActivityShape, Complete, IsSnapshot, Story
<1>5. runStatus[r] # "none"
  BY <1>3, StatusFacts DEF Ended, Statuses
<1>6. r \notin DOMAIN s.active
  <2>1. CASE s.at = observed.at
    BY <1>2, <1>3, <1>4, <2>1 DEF ActiveFits
  <2>2. CASE s.at > observed.at
    <3>1. ~(died >= 2 * s.at - 1)
      BY <1>1, <1>3, <1>4, <2>2
    <3> QED
      BY <1>2, <1>3, <3>1 DEF ActiveFits
  <2> QED
    BY <1>1, <1>4, <2>1, <2>2
<1>7. ASSUME r \in DOMAIN s.rows
      PROVE  r \in DOMAIN observed.rows /\ observed.rows[r] = s.rows[r]
  <2>1. ~IsLast(r) => dropped >= 2 * s.at
    BY <1>2, <1>7 DEF RowsFit
  <2>2. ~IsLast(r) => dropped >= 2 * observed.at
    BY <1>1, <1>4, <2>1
  <2>3. born < 2 * observed.at /\ died < 2 * s.at
    BY <1>1, <1>3, <1>4
  <2>4. r \in DOMAIN observed.rows
    BY <1>4, <1>5, <2>2, <2>3 DEF RowsFit
  <2> QED
    BY <1>2, <1>3, <1>4, <1>7, <2>3, <2>4 DEF RowsFit
<1>8. /\ r \notin HaveLeft(s) /\ r \notin HaveChanged(s) /\ r \notin HaveEnded(s)
  BY <1>3, <1>6, <1>7 DEF HaveLeft, HaveChanged, HaveEnded, known, known_rows
<1>9. died < 2 * s.at
  BY <1>1, <1>3, <1>4
<1> QED
  BY <1>3, <1>6, <1>8, <1>9 DEF News

LEMMA ActivityAppliedStep ==
    ASSUME ActivityInv, NEW s \in arriving, ActivityApplied(s)
    PROVE  ActivityInv'
<1> DEFINE news == observedRunActivity(observed, s)
<1>1. /\ ActivityShape /\ Stories /\ ActivityTellsEnds
      /\ arriving' = arriving \ {s} /\ activity' = activity \o news /\ observed' = s
      /\ outdated' = (outdated \/ s.at < observed.at)
      /\ UNCHANGED <<runStatus, lastRun, activeRead, snapshots>>
  BY DEF ActivityApplied, ActivityInv
<1>2. /\ news \in Seq(ToldEntry)
      /\ \A i \in DOMAIN news : News(s, news[i].run, news[i].what)
      /\ \A r \in HaveLeft(s) : \E i \in DOMAIN news :
           news[i].run = r /\ news[i].what = completedActiveRunActivity(r, s.rows)
      /\ \A i, j \in DOMAIN news : news[i].run = news[j].run => i = j
  BY <1>1, NewsIsTold
<1>3. IsSnapshot(s) /\ s.at \in Nat /\ s.at # 0 /\ s # NoObservation
  BY <1>1 DEF ActivityShape, Complete, IsSnapshot, NoObservation
<1>4. observed.at \in Nat
  BY <1>1 DEF ActivityShape, Complete, IsSnapshot, NoObservation
<1>5. /\ ~outdated' => ~outdated /\ s.at >= observed.at
      /\ outdated' \in BOOLEAN
  <2>1. ~(s.at < observed.at) => s.at >= observed.at
    BY <1>3, <1>4
  <2>2. outdated' \in BOOLEAN
    BY <1>1 DEF ActivityShape
  <2> QED
    BY <1>1, <2>1, <2>2
<1> HIDE DEF news
<1>6. activity \in Seq(ToldEntry) /\ activity' \in Seq(ToldEntry)
  BY <1>1, <1>2 DEF ActivityShape
<1>7. /\ Len(activity) \in Nat /\ Len(news) \in Nat
      /\ DOMAIN activity = 1..Len(activity) /\ DOMAIN news = 1..Len(news)
      /\ DOMAIN activity' = 1..Len(activity) + Len(news)
      /\ \A i \in 1..Len(activity) : activity'[i] = activity[i]
      /\ \A i \in 1..Len(news) : activity'[Len(activity) + i] = news[i]
  BY <1>1, <1>2, <1>6
<1>8. \A i \in DOMAIN activity' :
        \/ i \in DOMAIN activity /\ activity'[i] = activity[i]
        \/ /\ i - Len(activity) \in DOMAIN news
           /\ i = Len(activity) + (i - Len(activity))
           /\ activity'[i] = news[i - Len(activity)]
  BY <1>7
<1>9. Moment' = Moment /\ Complete' \subseteq Complete
  BY <1>1 DEF Moment, Complete
<1>10. ActivityShape'
  <2>1. \A q \in Complete' : IsSnapshot(q) /\ 2 * q.at <= Moment'
    BY <1>1, <1>9 DEF ActivityShape
  <2>2. \A d \in ActivityDefinition : lastRun'[d] # 0 => runStatus'[lastRun'[d]] # "none"
    BY <1>1 DEF ActivityShape
  <2> QED
    BY <1>1, <1>3, <1>5, <1>6, <2>1, <2>2 DEF ActivityShape
<1>11. ASSUME NEW r \in ActivityRun, HasEnd(r)'
       PROVE  HasEnd(r) \/ \E i \in DOMAIN news :
                /\ news[i].run = r /\ news[i].what \notin ActiveStatuses
                /\ News(s, r, news[i].what)
  BY <1>2, <1>8, <1>11 DEF HasEnd
<1>12. ASSUME NEW r \in ActivityRun
       PROVE  \E born, died, dropped \in Nat : Story(r, born, died, dropped)'
  <2>1. PICK born \in Nat, died \in Nat, dropped \in Nat : Story(r, born, died, dropped)
    BY <1>1 DEF Stories
  <2>2. IsLast(r)' = IsLast(r)
    BY <1>1 DEF IsLast
  <2>3. ASSUME ~outdated', HasEnd(r)'
        PROVE  Ended(runStatus[r]) /\ died < 2 * s.at /\ r \notin DOMAIN s.active
    <3>1. CASE HasEnd(r)
      BY <1>1, <1>5, <2>1, <2>3, <3>1, EndedIsNoNews
    <3>2. ASSUME NEW what, News(s, r, what), what \notin ActiveStatuses
          PROVE  Ended(runStatus[r]) /\ died < 2 * s.at /\ r \notin DOMAIN s.active
      BY <1>1, <1>5, <2>1, <2>3, <3>2, NewEndIsTrue
    <3> QED
      BY <1>11, <2>3, <3>1, <3>2
  <2>4. \A q \in Complete' : /\ ActiveFits(q, 2 * q.at - 1, r, born, died)'
                             /\ RowsFit(q, r, born, died, dropped)'
    BY <1>1, <1>9, <2>1, <2>2 DEF Story, ActiveFits, RowsFit
  <2>5. activeRead' # Unread => ActiveFits(activeRead, Moment, r, born, died)'
    BY <1>1, <1>9, <2>1 DEF Story, ActiveFits
  <2>6. /\ runStatus'[r] # "none" => born <= Moment'
        /\ Ended(runStatus'[r]) => born <= died /\ died <= Moment'
        /\ runStatus'[r] # "none" /\ ~IsLast(r)' => dropped <= Moment'
    BY <1>1, <1>9, <2>1, <2>2 DEF Story
  <2>7. ~outdated' /\ HasEnd(r)' =>
          /\ observed' # NoObservation
          /\ Ended(runStatus'[r]) /\ died < 2 * observed'.at
          /\ r \notin DOMAIN observed'.active
    BY <1>1, <1>3, <2>3
  <2>8. Story(r, born, died, dropped)'
    BY <2>4, <2>5, <2>6, <2>7 DEF Story
  <2> QED
    BY <2>8
<1>13. ASSUME NEW r \in ActivityRun, NEW i \in DOMAIN activity', activity'[i].run = r
       PROVE  /\ r \notin DOMAIN observed'.active =>
                   \E k \in DOMAIN activity' :
                     activity'[k].run = r /\ activity'[k].what \notin ActiveStatuses
              /\ activity'[i].what \notin ActiveStatuses =>
                   activity'[i].what \in {runStatus'[r], "no longer active"}
              /\ ~outdated' /\ activity'[i].what \notin ActiveStatuses =>
                   \A j \in DOMAIN activity' : activity'[j].run = r => j <= i
  <2>1. PICK born \in Nat, died \in Nat, dropped \in Nat : Story(r, born, died, dropped)
    BY <1>1 DEF Stories
  <2>2. ASSUME NEW k \in DOMAIN activity
        PROVE  k \in DOMAIN activity' /\ activity'[k] = activity[k] /\ k <= Len(activity)
    BY <1>7
  <2>3. ASSUME NEW k \in DOMAIN news
        PROVE  Len(activity) + k \in DOMAIN activity' /\ activity'[Len(activity) + k] = news[k]
    BY <1>7
  <2>4. CASE i \in DOMAIN activity /\ activity'[i] = activity[i]
    <3>1. /\ activity[i].what \notin ActiveStatuses =>
               activity[i].what \in {runStatus[r], "no longer active"}
          /\ ~outdated /\ activity[i].what \notin ActiveStatuses =>
               \A j \in DOMAIN activity : activity[j].run = r => j <= i
          /\ r \notin DOMAIN observed.active =>
               \E k \in DOMAIN activity :
                 activity[k].run = r /\ activity[k].what \notin ActiveStatuses
      BY <1>1, <1>13, <2>4 DEF ActivityTellsEnds
    <3>2. ASSUME r \notin DOMAIN observed'.active
          PROVE  \E k \in DOMAIN activity' :
                   activity'[k].run = r /\ activity'[k].what \notin ActiveStatuses
      <4>1. CASE r \notin DOMAIN observed.active
        BY <2>2, <3>1, <4>1
      <4>2. CASE r \in DOMAIN observed.active
        <5>1. observed # NoObservation
          BY <1>1, <1>7, <2>4 DEF ActivityShape
        <5>2. r \in HaveLeft(s)
          BY <1>1, <3>2, <4>2, <5>1 DEF HaveLeft, known
        <5>3. completedActiveRunActivity(r, s.rows) \notin ActiveStatuses
          BY StatusFacts DEF completedActiveRunActivity, Statuses
        <5> QED
          BY <1>2, <2>3, <5>2, <5>3
      <4> QED
        BY <4>1, <4>2
    <3>3. ASSUME ~outdated', activity'[i].what \notin ActiveStatuses,
                 NEW j \in DOMAIN activity', activity'[j].run = r
          PROVE  j <= i
      <4>1. HasEnd(r)
        BY <1>13, <2>4, <3>3 DEF HasEnd
      <4>2. \A what : ~News(s, r, what)
        BY <1>1, <1>5, <2>1, <3>3, <4>1, EndedIsNoNews
      <4>3. j \in DOMAIN activity /\ activity'[j] = activity[j]
        BY <1>2, <1>8, <3>3, <4>2
      <4> QED
        BY <1>5, <2>4, <3>1, <3>3, <4>3
    <3> QED
      BY <1>1, <2>4, <3>1, <3>2, <3>3
  <2>5. CASE /\ i - Len(activity) \in DOMAIN news
             /\ i = Len(activity) + (i - Len(activity))
             /\ activity'[i] = news[i - Len(activity)]
    <3> DEFINE k == i - Len(activity)
    <3>1. k \in DOMAIN news /\ activity'[i] = news[k] /\ News(s, r, activity'[i].what)
      BY <1>2, <1>13, <2>5
    <3>2. ASSUME activity'[i].what \notin ActiveStatuses
          PROVE  /\ activity'[i].what \in {runStatus'[r], "no longer active"}
                 /\ r \notin DOMAIN s.active
      BY <1>1, <2>1, <3>1, <3>2, NewEndIsTrue
    <3>3. ASSUME activity'[i].what \in ActiveStatuses
          PROVE  r \in DOMAIN s.active
      BY <3>1, <3>3, StatusFacts
         DEF News, HaveChanged, HaveEnded, completedActiveRunActivity, Statuses
    <3>4. ASSUME NEW j \in DOMAIN activity', activity'[j].run = r
          PROVE  j <= i
      <4>1. CASE j \in DOMAIN activity
        BY <1>7, <2>5, <4>1
      <4>2. CASE j \notin DOMAIN activity
        <5>1. /\ j - Len(activity) \in DOMAIN news
              /\ j = Len(activity) + (j - Len(activity))
              /\ news[j - Len(activity)].run = news[k].run
          BY <1>8, <1>13, <3>1, <3>4, <4>2
        <5>2. j - Len(activity) = k
          BY <1>2, <3>1, <5>1
        <5> QED
          BY <1>7, <2>5, <5>1, <5>2
      <4> QED
        BY <4>1, <4>2
    <3> QED
      BY <1>1, <1>13, <3>2, <3>3, <3>4
  <2> QED
    BY <1>8, <2>4, <2>5
<1>14. ActivityTellsEnds'
  BY <1>13 DEF ActivityTellsEnds
<1> QED
  BY <1>10, <1>12, <1>14 DEF ActivityInv, Stories

\* The other steps tell nothing, and what a run ended as it remains.
LEMMA NothingTold ==
    ASSUME ActivityInv, ActivityShape', UNCHANGED <<activity, observed, outdated>>,
           \A r \in ActivityRun :
             runStatus[r] \in TerminalStatuses => runStatus'[r] = runStatus[r]
    PROVE  ActivityTellsEnds'
<1>1. /\ activity \in Seq(ToldEntry) /\ ActivityTellsEnds
      /\ \A r \in ActivityRun : runStatus[r] \in {"none"} \cup Statuses
  BY DEF ActivityInv, ActivityShape
<1>2. \A i \in DOMAIN activity : activity[i].what \in What
  <2>1. \A i \in DOMAIN activity : activity[i] \in ToldEntry
    BY <1>1
  <2> QED
    BY <2>1 DEF ToldEntry
<1>3. ASSUME NEW r \in ActivityRun, NEW i \in DOMAIN activity, activity[i].run = r,
             activity[i].what \notin ActiveStatuses
      PROVE  activity[i].what \in {runStatus'[r], "no longer active"}
  <2>1. activity[i].what \in {runStatus[r], "no longer active"}
    BY <1>1, <1>3 DEF ActivityTellsEnds
  <2>2. CASE activity[i].what = "no longer active"
    BY <2>2
  <2>3. CASE activity[i].what # "no longer active"
    <3>1. activity[i].what \in TerminalStatuses
      BY <1>2, <1>3, <2>3 DEF What, Statuses
    <3> QED
      BY <2>1, <2>3, <3>1
  <2> QED
    BY <2>2, <2>3
<1> QED
  BY <1>1, <1>3 DEF ActivityTellsEnds

LEMMA ActivityStart ==
    ASSUME ActivityInit
    PROVE  ActivityInv
<1>1. /\ snapshots = 0 /\ activeRead = Unread /\ Complete = {} /\ activity = <<>>
      /\ outdated = FALSE /\ \A r \in ActivityRun : runStatus[r] = "none"
  BY DEF ActivityInit, Complete
<1>2. ActivityShape
  <2>1. activity \in Seq(ToldEntry)
    BY <1>1
  <2>2. runStatus \in [ActivityRun -> {"none"} \cup Statuses]
    BY DEF ActivityInit
  <2>3. /\ lastRun \in [ActivityDefinition -> {0} \cup ActivityRun]
        /\ \A d \in ActivityDefinition : lastRun[d] = 0
    BY DEF ActivityInit
  <2> QED
    BY <1>1, <2>1, <2>2, <2>3 DEF ActivityShape
<1>3. \A r \in ActivityRun : Story(r, 0, 0, 0)
  <2>1. "none" \notin TerminalStatuses
    BY DEF TerminalStatuses
  <2>2. \A r \in ActivityRun : ~HasEnd(r)
    BY <1>1 DEF HasEnd
  <2> QED
    BY <1>1, <2>1, <2>2 DEF Story, Ended
<1>4. ActivityTellsEnds
  BY <1>1 DEF ActivityTellsEnds
<1> QED
  BY <1>2, <1>3, <1>4 DEF ActivityInv, Stories

LEMMA ActivityStep ==
    ASSUME ActivityInv, [ActivityNext]_activityVars
    PROVE  ActivityInv'
<1>1. ASSUME NEW r \in ActivityRun, NEW plan \in SUBSET ActivityDefinition \ {{}},
             RunQueued(r, plan)
      PROVE  ActivityInv'
  <2>1. ActivityShape' /\ Stories'
    BY <1>1, QueueStep
  <2>2. \A q \in ActivityRun : runStatus[q] \in TerminalStatuses => runStatus'[q] = runStatus[q]
    BY <1>1, StatusFacts DEF RunQueued, ActivityInv, ActivityShape, Statuses
  <2>3. ActivityTellsEnds'
    BY <1>1, <2>1, <2>2, NothingTold DEF RunQueued
  <2> QED
    BY <2>1, <2>3 DEF ActivityInv
<1>2. ASSUME NEW r \in ActivityRun, RunMoves(r)
      PROVE  ActivityInv'
  <2>1. ActivityShape' /\ Stories'
    BY <1>2, MoveStep
  <2>2. \A q \in ActivityRun : runStatus[q] \in TerminalStatuses => runStatus'[q] = runStatus[q]
    BY <1>2, StatusFacts DEF RunMoves, ActivityInv, ActivityShape
  <2>3. ActivityTellsEnds'
    BY <1>2, <2>1, <2>2, NothingTold DEF RunMoves
  <2> QED
    BY <2>1, <2>3 DEF ActivityInv
<1>3. CASE ReadActiveRuns
  <2>1. ActivityShape' /\ Stories'
    BY <1>3, ReadActiveStep
  <2>2. ActivityTellsEnds'
    BY <1>3, <2>1, NothingTold DEF ReadActiveRuns
  <2> QED
    BY <2>1, <2>2 DEF ActivityInv
<1>4. CASE ReadRowStatuses
  <2>1. ActivityShape' /\ Stories'
    BY <1>4, ReadRowsStep
  <2>2. ActivityTellsEnds'
    BY <1>4, <2>1, NothingTold DEF ReadRowStatuses
  <2> QED
    BY <2>1, <2>2 DEF ActivityInv
<1>5. ASSUME NEW s \in arriving, ActivityApplied(s)
      PROVE  ActivityInv'
  BY <1>5, ActivityAppliedStep
<1>6. CASE UNCHANGED activityVars
  <2>1. Moment' = Moment /\ Complete' = Complete
    BY <1>6 DEF activityVars, Moment, Complete
  <2>2. ActivityShape'
    <3>1. activity' \in Seq(ToldEntry)
      BY <1>6 DEF activityVars, ActivityInv, ActivityShape
    <3> QED
      BY <1>6, <2>1, <3>1 DEF activityVars, ActivityInv, ActivityShape
  <2>3. \A r \in ActivityRun : \A born, died, dropped \in Nat :
          Story(r, born, died, dropped) => Story(r, born, died, dropped)'
    <3>1. \A r \in ActivityRun : IsLast(r)' = IsLast(r) /\ HasEnd(r)' = HasEnd(r)
      BY <1>6 DEF activityVars, IsLast, HasEnd
    <3> QED
      BY <1>6, <2>1, <3>1 DEF activityVars, Story, ActiveFits, RowsFit
  <2>4. Stories'
    BY <2>3 DEF Stories, ActivityInv
  <2>5. ActivityTellsEnds'
    BY <1>6, <2>2, NothingTold DEF activityVars
  <2> QED
    BY <2>2, <2>4, <2>5 DEF ActivityInv
<1> QED
  BY <1>1, <1>2, <1>3, <1>4, <1>5, <1>6 DEF ActivityNext

LEMMA AnswersStart ==
    ASSUME AnswersInit
    PROVE  AnswersInv
BY DEF AnswersInit, AnswersInv, MessagesInv, TotalsInv, DialogInv, NoEntry, Quiet, Nothing

(* Messages shown as loaded were read at or after the change the rows show,*)
(* a cached total was asked for after the last refresh, the history in the *)
(* dialog is the selected definition's, and the activity tells every run   *)
(* it showed as active how that run ended, in any order of answers.        *)
THEOREM AnswersStayCurrent == AnswersSpec => []AnswersAreCurrent
<1>1. AnswersInit /\ ActivityInit => AnswersInv /\ ActivityInv
  BY AnswersStart, ActivityStart
<1>2. /\ AnswersInv /\ ActivityInv
      /\ [ \/ AnswersNext /\ UNCHANGED activityVars
           \/ ActivityNext /\ UNCHANGED answerVars ]_<<answerVars, activityVars>>
      => (AnswersInv /\ ActivityInv)'
  <2> SUFFICES ASSUME AnswersInv, ActivityInv, [AnswersNext]_answerVars,
                      [ActivityNext]_activityVars
               PROVE  (AnswersInv /\ ActivityInv)'
    OBVIOUS
  <2>1. AnswersInv'
    BY MessagesStep, TotalsStep, DialogStep DEF AnswersInv
  <2>2. ActivityInv'
    BY ActivityStep
  <2> QED
    BY <2>1, <2>2
<1>3. AnswersInv /\ ActivityInv => AnswersAreCurrent
  <2>1. MessagesInv => (messagesStatus = "loaded" => entry.at >= rows.since)
    BY DEF MessagesInv, messagesStatus
  <2> QED
    BY <2>1 DEF AnswersInv, ActivityInv, AnswersAreCurrent, TotalsInv, DialogInv
<1> QED
  BY <1>1, <1>2, <1>3, PTL DEF AnswersSpec

-----------------------------------------------------------------------------
(* The operations of the terminal UI.                                      *)

(***************************************************************************)
(* Every operation the terminal UI started is the one its confirmation     *)
(* showed, prepared again from the registry and the world of that moment   *)
(* and accepted by the preflight, whatever changed in between.             *)
(***************************************************************************)
THEOREM OnlyTheConfirmedIsDestroyed == OpSpec => []OnlyConfirmedDestroys
<1>1. OpInit => OnlyConfirmedDestroys
  BY DEF OpInit, OnlyConfirmedDestroys
<1>2. OnlyConfirmedDestroys /\ [OpNext]_opVars => OnlyConfirmedDestroys'
  <2> SUFFICES ASSUME OnlyConfirmedDestroys, [OpNext]_opVars
               PROVE  OnlyConfirmedDestroys'
    OBVIOUS
  <2>1. CASE StartArrives
    <3> DEFINE made == [shown |-> start.of, world |-> world,
                        plan |-> Prepared(start.of.request)]
    <3>1. executed' = executed \/ (/\ executed' = executed \cup {made}
                                   /\ Prepared(start.of.request) = start.of
                                   /\ PreflightAccepts(start.of.request))
      BY <2>1 DEF StartArrives
    <3>2. made.shown = start.of /\ made.plan = Prepared(start.of.request)
            /\ made.world = world
      OBVIOUS
    <3> HIDE DEF made
    <3> QED
      BY <3>1, <3>2 DEF OnlyConfirmedDestroys, PreflightAccepts
  <2>2. CASE ~StartArrives
    <3>1. executed' = executed
      BY <2>2 DEF OpNext, opVars, WorldChanges, Render, RowsArrive, StartSettles,
         ChooseOperation, ConfirmEntries, SubmitEntry, ToggleEntry, EntryNormalized,
         FlowAnswered, FlowFails, FlowEnds, cancelConfirmation, ConfirmOperation,
         UpdateAnswered, UpdateEnds, changeRollbackScope, chooseDependencies,
         openBreakLock, cancelBreakLock, executeBreakLock, LockBroken
    <3> QED
      BY <3>1 DEF OnlyConfirmedDestroys
  <2> QED
    BY <2>1, <2>2
<1> QED
  BY <1>1, <1>2, PTL DEF OpSpec

-----------------------------------------------------------------------------
(* The command line.                                                       *)

(* Before the command observes there is no observation fiber, while it     *)
(* observes there is one, and it outlives the command in no state of its   *)
(* own.                                                                    *)
FiberOfPhase ==
    /\ cliMain \in {"connecting", "preparing", "starting", "interrupted"}
         => observation = "off" /\ completion = "none"
    /\ cliMain \in {"observing", "choosing", "joining", "stopping"}
         => observation \in {"running", "ended", "broken", "succeeded", "failed"}
    /\ cliMain = "exited"
         => observation \in {"off", "interrupted", "succeeded", "failed"}
    /\ cliMain \in {"connecting", "preparing", "starting", "interrupted",
                    "observing", "choosing", "joining", "stopping", "exited"}

(* A completion is what the run came to, and whoever reported or consumed  *)
(* one has raised the flag.                                                *)
CompletionIsTrue ==
    /\ completion \in CliEvent \cup {"none"}
    /\ completion \in CliOutcome => cliRun = completion
    /\ completion # "none" => observationFinished
    /\ observation \in {"succeeded", "failed"} => observationFinished

(* The main fiber holds the permit while it asks for a stop, and got it    *)
(* before the observation was over.                                        *)
StopHoldsPermit ==
    cliMain = "stopping" => terminalSection = "stop" /\ ~observationFinished

(* Until the command exits, only a report of the observation fiber is out. *)
WordsSoFar ==
    cliMain # "exited" =>
        IF observation \in {"succeeded", "failed"}
        THEN \E words \in CliEvent \cup {"observe again"} :
                /\ endings = <<words>>
                /\ words # "observe again" => completion = words
        ELSE endings = <<>>

CliInv == FiberOfPhase /\ CompletionIsTrue /\ StopHoldsPermit /\ WordsSoFar /\ OneTrueEnding

LEMMA FirstWords ==
    ASSUME NEW words
    PROVE  /\ Append(<<>>, words) = <<words>>
           /\ Len(<<words>>) = 1
           /\ <<words>>[1] = words
OBVIOUS

LEMMA FiberOfPhaseHolds == CliInv /\ [CliNext]_cliVars => FiberOfPhase'
<1> SUFFICES ASSUME FiberOfPhase, CompletionIsTrue, StopHoldsPermit, [CliNext]_cliVars
             PROVE  FiberOfPhase'
  BY DEF CliInv
<1> USE DEF FiberOfPhase, fiberVars, wireVars, pressVars
<1>1. CASE acquireCliMigrateConnection \/ prepareCliOperation
  <2>1. observation = "off" /\ completion = "none" /\ completion' = completion
    BY <1>1 DEF acquireCliMigrateConnection, prepareCliOperation
  <2>2. \/ cliMain' = "exited" /\ observation' = "off"
        \/ cliMain' = "observing" /\ observation' = "running"
        \/ cliMain' = "preparing" /\ observation' = "off"
    BY <1>1, <2>1 DEF acquireCliMigrateConnection, prepareCliOperation, Ends
  <2> QED
    BY <2>1, <2>2
<1>11. CASE startPreparedOperation
  BY <1>11 DEF startPreparedOperation
<1>2. CASE ServerStarts \/ ServerAnswers \/ RunEnds \/ Press
  BY <1>2 DEF ServerStarts, ServerAnswers, RunEnds, Press
<1>3. CASE Started \/ InterruptStart
  BY <1>3 DEF Started, InterruptStart
<1>12. CASE StartFails \/ GiveUpAcknowledgement
  <2>1. observation = "off" /\ cliMain' = "exited"
    BY <1>12 DEF StartFails, GiveUpAcknowledgement, Ends
  <2> QED
    BY <1>12, <2>1 DEF StartFails, GiveUpAcknowledgement, Ends
<1>4. CASE ConsumeCompletion \/ StreamEnds
  BY <1>4 DEF ConsumeCompletion, StreamEnds
<1>5. CASE ReportObservation
  BY <1>5 DEF ReportObservation, Reports
<1>6. CASE JoinObservation \/ TakeInterrupt \/ ChooseContinue
  BY <1>6 DEF JoinObservation, TakeInterrupt, ChooseContinue
<1>7. CASE stopObservedMigrationRun
  BY <1>7 DEF stopObservedMigrationRun
<1>8. CASE StopAnswered
  BY <1>8, CompletionIsTrue, StopHoldsPermit
     DEF StopAnswered, Ends, CompletionIsTrue, StopHoldsPermit
<1>9. CASE detachObservedMigrationRun
  BY <1>9, CompletionIsTrue DEF detachObservedMigrationRun, Ends, CompletionIsTrue
<1>10. CASE UNCHANGED cliVars
  BY <1>10 DEF cliVars
<1> QED
  BY <1>1, <1>2, <1>3, <1>4, <1>5, <1>6, <1>7, <1>8, <1>9, <1>10, <1>11, <1>12
     DEF CliNext

LEMMA CompletionStaysTrue == CliInv /\ [CliNext]_cliVars => CompletionIsTrue'
<1> SUFFICES ASSUME FiberOfPhase, CompletionIsTrue, [CliNext]_cliVars
             PROVE  CompletionIsTrue'
  BY DEF CliInv
<1> USE DEF CompletionIsTrue, fiberVars, wireVars, pressVars, CliOutcome, CliEvent
<1>1. CASE acquireCliMigrateConnection \/ prepareCliOperation \/ startPreparedOperation
  BY <1>1 DEF acquireCliMigrateConnection, prepareCliOperation, startPreparedOperation, Ends
<1>2. CASE ServerStarts \/ ServerAnswers \/ RunEnds \/ Press
  BY <1>2 DEF ServerStarts, ServerAnswers, RunEnds, Press
<1>3. CASE Started \/ InterruptStart \/ StartFails \/ GiveUpAcknowledgement
  BY <1>3 DEF Started, InterruptStart, StartFails, GiveUpAcknowledgement, Ends
<1>4. CASE ConsumeCompletion \/ StreamEnds
  BY <1>4 DEF ConsumeCompletion, StreamEnds
<1>5. CASE ReportObservation
  BY <1>5 DEF ReportObservation, Reports
<1>6. CASE JoinObservation \/ TakeInterrupt \/ ChooseContinue
  BY <1>6 DEF JoinObservation, TakeInterrupt, ChooseContinue
<1>7. CASE stopObservedMigrationRun \/ StopAnswered \/ detachObservedMigrationRun
  BY <1>7 DEF stopObservedMigrationRun, StopAnswered, detachObservedMigrationRun, Ends
<1>8. CASE UNCHANGED cliVars
  BY <1>8 DEF cliVars
<1> QED
  BY <1>1, <1>2, <1>3, <1>4, <1>5, <1>6, <1>7, <1>8 DEF CliNext

LEMMA StopKeepsPermit == CliInv /\ [CliNext]_cliVars => StopHoldsPermit'
<1> SUFFICES ASSUME StopHoldsPermit, [CliNext]_cliVars
             PROVE  StopHoldsPermit'
  BY DEF CliInv
<1> USE DEF StopHoldsPermit, fiberVars, wireVars, pressVars
<1>1. CASE acquireCliMigrateConnection \/ prepareCliOperation \/ startPreparedOperation
  BY <1>1 DEF acquireCliMigrateConnection, prepareCliOperation, startPreparedOperation, Ends
<1>2. CASE ServerStarts \/ ServerAnswers \/ RunEnds \/ Press
  BY <1>2 DEF ServerStarts, ServerAnswers, RunEnds, Press
<1>3. CASE Started \/ InterruptStart \/ StartFails \/ GiveUpAcknowledgement
  BY <1>3 DEF Started, InterruptStart, StartFails, GiveUpAcknowledgement, Ends
<1>4. CASE ConsumeCompletion \/ StreamEnds \/ ReportObservation
  BY <1>4 DEF ConsumeCompletion, StreamEnds, ReportObservation
<1>5. CASE JoinObservation \/ TakeInterrupt \/ ChooseContinue
  BY <1>5 DEF JoinObservation, TakeInterrupt, ChooseContinue
<1>6. CASE stopObservedMigrationRun \/ StopAnswered \/ detachObservedMigrationRun
  BY <1>6 DEF stopObservedMigrationRun, StopAnswered, detachObservedMigrationRun, Ends
<1>7. CASE UNCHANGED cliVars
  BY <1>7 DEF cliVars
<1> QED
  BY <1>1, <1>2, <1>3, <1>4, <1>5, <1>6, <1>7 DEF CliNext

LEMMA ZeroForSuccess ==
    ASSUME NEW words
    PROVE  ExitCodeOf(words) = 0 <=> words \in Successes
BY DEF ExitCodeOf

(* A step that leaves the words and the fiber's part in them alone.        *)
Unspoken ==
    /\ endings' = endings /\ completion' = completion
    /\ observation' \in {"succeeded", "failed"} <=> observation \in {"succeeded", "failed"}
    /\ cliMain # "exited" /\ cliMain' # "exited"

LEMMA UnspokenStep == WordsSoFar /\ Unspoken => WordsSoFar' /\ OneTrueEnding'
BY DEF WordsSoFar, Unspoken, OneTrueEnding

(* A command that ends without a word of the fiber says one last thing.    *)
LEMMA EndsWithOneWord ==
    ASSUME WordsSoFar, cliMain # "exited", observation \notin {"succeeded", "failed"},
           NEW words, Ends(words), words \notin CliOutcome,
           words = "detached" => completion' \in {"none", "detached"}
    PROVE  WordsSoFar' /\ OneTrueEnding'
<1>1. endings' = <<words>> /\ Len(endings') = 1 /\ endings'[1] = words
  BY FirstWords DEF WordsSoFar, Ends
<1>2. cliMain' = "exited" /\ exitCode' = ExitCodeOf(words)
  BY DEF Ends
<1>3. exitCode' = 0 <=> words \in Successes
  BY <1>2, ZeroForSuccess
<1> QED
  BY <1>1, <1>2, <1>3 DEF WordsSoFar, OneTrueEnding

LEMMA WordsHold == CliInv /\ [CliNext]_cliVars => WordsSoFar' /\ OneTrueEnding'
<1> SUFFICES ASSUME FiberOfPhase, CompletionIsTrue, StopHoldsPermit, WordsSoFar,
                    OneTrueEnding, [CliNext]_cliVars
             PROVE  WordsSoFar' /\ OneTrueEnding'
  BY DEF CliInv
<1> USE DEF fiberVars, wireVars, pressVars
<1>1. CASE acquireCliMigrateConnection
  <2>1. observation = "off" /\ cliMain # "exited"
    BY <1>1 DEF acquireCliMigrateConnection, FiberOfPhase
  <2>2. CASE Ends("not connected")
    BY <2>1, <2>2, EndsWithOneWord DEF CliOutcome
  <2>3. CASE ~Ends("not connected")
    BY <1>1, <2>1, <2>3, UnspokenStep DEF acquireCliMigrateConnection, Unspoken
  <2> QED
    BY <2>2, <2>3
<1>2. CASE prepareCliOperation
  <2>1. observation = "off" /\ cliMain # "exited"
    BY <1>2 DEF prepareCliOperation, FiberOfPhase
  <2>2. Ends("not planned") \/ Ends("planned")
    BY <1>2 DEF prepareCliOperation
  <2> QED
    BY <2>1, <2>2, EndsWithOneWord DEF CliOutcome
<1>3. CASE startPreparedOperation \/ InterruptStart \/ Started
  <2>1. observation = "off" /\ cliMain # "exited"
    BY <1>3 DEF startPreparedOperation, InterruptStart, Started, FiberOfPhase
  <2> QED
    BY <1>3, <2>1, UnspokenStep DEF startPreparedOperation, InterruptStart, Started, Unspoken
<1>4. CASE StartFails \/ GiveUpAcknowledgement
  <2>1. observation = "off" /\ cliMain # "exited"
    BY <1>4 DEF StartFails, GiveUpAcknowledgement, FiberOfPhase
  <2>2. Ends("start failed") \/ Ends("list active runs")
    BY <1>4 DEF StartFails, GiveUpAcknowledgement
  <2> QED
    BY <2>1, <2>2, EndsWithOneWord DEF CliOutcome
<1>5. CASE ServerStarts \/ ServerAnswers \/ RunEnds \/ Press
  BY <1>5, UnspokenStep DEF ServerStarts, ServerAnswers, RunEnds, Press, Unspoken
<1>6. CASE ConsumeCompletion \/ StreamEnds
  <2>1. observation = "running" /\ cliMain # "exited" /\ cliMain' = cliMain
    BY <1>6 DEF ConsumeCompletion, StreamEnds, FiberOfPhase
  <2>2. endings' = endings /\ observation' \notin {"succeeded", "failed"}
    BY <1>6, <2>1 DEF ConsumeCompletion, StreamEnds
  <2> QED
    BY <2>1, <2>2 DEF WordsSoFar, OneTrueEnding
<1>7. CASE ReportObservation
  <2> DEFINE words == IF observation = "broken" \/ completion = "none"
                        THEN "observe again" ELSE completion
  <2>1. cliMain # "exited" /\ cliMain' = cliMain
    BY <1>7 DEF ReportObservation, FiberOfPhase
  <2>2. endings = <<>>
    BY <1>7, <2>1 DEF ReportObservation, WordsSoFar
  <2>3. endings' = <<words>> /\ observation' \in {"succeeded", "failed"}
    BY <1>7, <2>2, FirstWords DEF ReportObservation, Reports
  <2>4. words \in CliEvent \cup {"observe again"} /\ completion' = completion
    BY <1>7 DEF ReportObservation, CompletionIsTrue
  <2>5. words # "observe again" => completion' = words
    BY <2>4
  <2> HIDE DEF words
  <2> QED
    BY <2>1, <2>3, <2>4, <2>5 DEF WordsSoFar, OneTrueEnding
<1>8. CASE JoinObservation
  <2>1. cliMain # "exited" /\ observation \in {"succeeded", "failed"}
    BY <1>8 DEF JoinObservation
  <2>2. PICK words \in CliEvent \cup {"observe again"} :
             /\ endings = <<words>>
             /\ words # "observe again" => completion = words
    BY <2>1 DEF WordsSoFar
  <2>3. /\ endings' = endings /\ Len(endings) = 1 /\ endings[1] = words
        /\ completion' = completion /\ cliRun' = cliRun
    BY <1>8, <2>2, FirstWords DEF JoinObservation
  <2>4. cliMain' = "exited" /\ exitCode' = ExitCodeOf(words)
    BY <1>8, <2>3 DEF JoinObservation
  <2>5. exitCode' = 0 <=> words \in Successes
    BY <2>4, ZeroForSuccess
  <2>6. words \in CliOutcome => cliRun' = words
    BY <2>2, <2>3 DEF CompletionIsTrue, CliOutcome
  <2>7. words = "detached" => completion' = "detached"
    BY <2>2, <2>3
  <2> QED
    BY <2>3, <2>4, <2>5, <2>6, <2>7 DEF WordsSoFar, OneTrueEnding
<1>9. CASE TakeInterrupt \/ ChooseContinue \/ stopObservedMigrationRun
  BY <1>9, UnspokenStep
     DEF TakeInterrupt, ChooseContinue, stopObservedMigrationRun, Unspoken
<1>10. CASE StopAnswered
  <2>1. cliMain # "exited" /\ observation \notin {"succeeded", "failed"}
    BY <1>10 DEF StopAnswered, StopHoldsPermit, CompletionIsTrue
  <2>2. CASE Ends("observe again")
    BY <2>1, <2>2, EndsWithOneWord DEF CliOutcome
  <2>3. CASE ~Ends("observe again")
    BY <1>10, <2>1, <2>3, UnspokenStep DEF StopAnswered, Unspoken
  <2> QED
    BY <2>2, <2>3
<1>11. CASE detachObservedMigrationRun
  <2>1. cliMain # "exited"
    BY <1>11 DEF detachObservedMigrationRun
  <2>2. CASE observationFinished
    BY <1>11, <2>1, <2>2, UnspokenStep DEF detachObservedMigrationRun, Unspoken
  <2>3. CASE ~observationFinished
    <3>1. observation \notin {"succeeded", "failed"} /\ completion = "none"
      BY <2>3 DEF CompletionIsTrue
    <3>2. Ends("detached") /\ completion' = completion
      BY <1>11, <2>3 DEF detachObservedMigrationRun
    <3> QED
      BY <2>1, <3>1, <3>2, EndsWithOneWord DEF CliOutcome
  <2> QED
    BY <2>2, <2>3
<1>12. CASE UNCHANGED cliVars
  BY <1>12 DEF cliVars, WordsSoFar, OneTrueEnding
<1> QED
  BY <1>1, <1>2, <1>3, <1>4, <1>5, <1>6, <1>7, <1>8, <1>9, <1>10, <1>11, <1>12
     DEF CliNext

(***************************************************************************)
(* A command that has exited said one last thing, and the thing is true.   *)
(***************************************************************************)
THEOREM CommandsEndWithOneTruth == CliSpec => []OneTrueEnding
<1>1. CliInit => CliInv
  BY DEF CliInit, CliInv, FiberOfPhase, CompletionIsTrue, StopHoldsPermit, WordsSoFar,
     OneTrueEnding, CliEvent, CliOutcome
<1>2. CliInv /\ [CliNext]_cliVars => CliInv'
  BY FiberOfPhaseHolds, CompletionStaysTrue, StopKeepsPermit, WordsHold DEF CliInv
<1>3. CliInv => OneTrueEnding
  BY DEF CliInv
<1> QED
  BY <1>1, <1>2, <1>3, PTL DEF CliSpec

-----------------------------------------------------------------------------
(* Status scans.                                                           *)

Inventory == Seq(Entry)
ScanRecord == [phase : {"idle", "windows", "reported", "failed"},
               listed : SUBSET Identity, items : Inventory, cursor : Nat]

ScanTypeOK ==
    /\ sourceEntries \in [Position -> Entry \cup {Gap}]
    /\ itemStates \in SUBSET Identity
    /\ statusScan \in ScanRecord
    /\ steady \in SUBSET Position

IdsRead == {statusScan.items[n].id : n \in 1..Len(statusScan.items)}

(* What has not moved since the states were listed and is behind the       *)
(* cursor has been read; a report has everything behind its cursor.        *)
BehindCursorRead ==
    /\ statusScan.phase \in {"windows", "reported"} =>
         \A p \in steady :
           p < statusScan.cursor /\ sourceEntries[p] # Gap => sourceEntries[p].id \in IdsRead
    /\ statusScan.phase = "reported" => \A p \in Position : p < statusScan.cursor
    /\ statusScan.cursor >= 1 /\ (statusScan.cursor - 1 \in Position \/ statusScan.cursor = 1)

ScanInv == ScanTypeOK /\ BehindCursorRead

LEMMA PositionsAreNumbered == \E n \in Nat : Position = 1..n
BY PositionAssumption, FS_CardinalityType

LEMMA ReadSoFar ==
    ASSUME NEW s \in Inventory
    PROVE  /\ Len(s) \in Nat /\ DOMAIN s = 1..Len(s)
           /\ \A n \in 1..Len(s) : s[n] \in Entry
BY DEF Inventory

LEMMA OneMoreRead ==
    ASSUME NEW s \in Inventory, NEW e \in Entry
    PROVE  /\ Append(s, e) \in Inventory /\ Len(Append(s, e)) = Len(s) + 1
           /\ Append(s, e)[Len(s) + 1] = e
           /\ \A n \in 1..Len(s) : Append(s, e)[n] = s[n]
BY DEF Inventory

LEMMA NothingRead == <<>> \in Inventory /\ Len(<<>>) = 0
BY DEF Inventory

LEMMA ScanStep == ScanInv /\ [ScanNext]_scanVars => ScanInv'
<1> SUFFICES ASSUME ScanInv, [ScanNext]_scanVars
             PROVE  ScanInv'
  OBVIOUS
<1> DEFINE items == statusScan.items
           cursor == statusScan.cursor
<1>0. /\ statusScan = [phase |-> statusScan.phase, listed |-> statusScan.listed,
                       items |-> items, cursor |-> cursor]
      /\ statusScan.phase \in {"idle", "windows", "reported", "failed"}
      /\ statusScan.listed \in SUBSET Identity /\ items \in Inventory /\ cursor \in Nat
      /\ Len(items) \in Nat /\ cursor >= 1
  BY ReadSoFar DEF ScanInv, ScanTypeOK, ScanRecord, BehindCursorRead
<1>1. CASE listItemStates
  <2>1. statusScan' = [phase |-> "windows", listed |-> itemStates, items |-> <<>>,
                       cursor |-> 1]
    BY <1>1 DEF listItemStates, NoScan
  <2>2. statusScan'.phase = "windows" /\ statusScan'.cursor = 1 /\ statusScan' \in ScanRecord
    BY <2>1, NothingRead DEF ScanInv, ScanTypeOK, ScanRecord
  <2>3. \A p \in Position : ~(p < 1)
    BY PositionsAreNumbered
  <2>4. ScanTypeOK'
    BY <1>1, <2>2 DEF listItemStates, ScanInv, ScanTypeOK
  <2> QED
    BY <1>1, <2>2, <2>3, <2>4 DEF listItemStates, ScanInv, BehindCursorRead
<1>2. CASE readSourceInventory
  <2>0. /\ statusScan.phase = "windows"
        /\ UNCHANGED <<sourceEntries, itemStates, steady>>
    BY <1>2 DEF readSourceInventory
  <2>1. CASE cursor \notin Position
    <3>1. statusScan' = [statusScan EXCEPT !.phase = "reported"]
      BY <1>2, <2>1 DEF readSourceInventory
    <3>2. statusScan' = [phase |-> "reported", listed |-> statusScan.listed,
                         items |-> items, cursor |-> cursor]
      <4> DEFINE l == statusScan.listed
      <4> HIDE DEF l, items, cursor
      <4>1. statusScan = [phase |-> statusScan.phase, listed |-> l,
                          items |-> items, cursor |-> cursor]
        BY <1>0 DEF l
      <4>2. [[phase |-> statusScan.phase, listed |-> l, items |-> items, cursor |-> cursor]
               EXCEPT !.phase = "reported"]
              = [phase |-> "reported", listed |-> l, items |-> items, cursor |-> cursor]
        OBVIOUS
      <4>3. statusScan' = [phase |-> "reported", listed |-> l, items |-> items,
                           cursor |-> cursor]
        BY <3>1, <4>1, <4>2
      <4> QED
        BY <4>3 DEF l
    <3>3. /\ statusScan'.phase = "reported" /\ statusScan'.items = items
          /\ statusScan'.cursor = cursor /\ statusScan' \in ScanRecord
      BY <1>0, <3>2 DEF ScanRecord
    <3>4. \A p \in Position : p < cursor
      <4>1. cursor - 1 \in Position \/ cursor = 1
        BY DEF ScanInv, BehindCursorRead
      <4>2. PICK n \in Nat : Position = 1..n
        BY PositionsAreNumbered
      <4> HIDE DEF cursor
      <4> QED
        BY <1>0, <2>1, <4>1, <4>2
    <3>5. IdsRead' = IdsRead
      BY <3>3 DEF IdsRead
    <3>6. ScanTypeOK'
      BY <2>0, <3>3 DEF ScanInv, ScanTypeOK
    <3> QED
      BY <2>0, <3>3, <3>4, <3>5, <3>6 DEF ScanInv, BehindCursorRead
  <2>2. CASE cursor \in Position
    <3> DEFINE read == IF sourceEntries[cursor] = Gap THEN items
                       ELSE Append(items, sourceEntries[cursor])
    <3>1. statusScan' = [phase |-> "windows", listed |-> statusScan.listed,
                         items |-> read, cursor |-> cursor + 1]
      <4> DEFINE next == cursor + 1
      <4>1. statusScan' = [statusScan EXCEPT !.cursor = next, !.items = read]
        BY <1>2, <2>2 DEF readSourceInventory
      <4> DEFINE l == statusScan.listed
      <4>2. statusScan = [phase |-> "windows", listed |-> l, items |-> items, cursor |-> cursor]
        BY <1>0, <2>0
      <4> HIDE DEF read, items, cursor, l, next
      <4> DEFINE r == [phase |-> "windows", listed |-> l, items |-> items, cursor |-> cursor]
                 moved == [phase |-> "windows", listed |-> l, items |-> items, cursor |-> next]
      <4>5. [r EXCEPT !.cursor = next] = moved
        OBVIOUS
      <4>6. [moved EXCEPT !.items = read]
              = [phase |-> "windows", listed |-> l, items |-> read, cursor |-> next]
        OBVIOUS
      <4>7. [statusScan EXCEPT !.cursor = next, !.items = read]
              = [[statusScan EXCEPT !.cursor = next] EXCEPT !.items = read]
        OBVIOUS
      <4>4. statusScan' = [phase |-> "windows", listed |-> l, items |-> read,
                           cursor |-> next]
        BY <4>1, <4>2, <4>5, <4>6, <4>7
      <4> QED
        BY <4>4 DEF l, next
    <3>2. sourceEntries[cursor] # Gap => sourceEntries[cursor] \in Entry
      BY <2>2 DEF ScanInv, ScanTypeOK
    <3>3. /\ read \in Inventory
          /\ Len(items) <= Len(read) /\ Len(read) \in Nat
          /\ \A n \in 1..Len(items) : read[n] = items[n]
          /\ sourceEntries[cursor] # Gap =>
               \E n \in 1..Len(read) : read[n] = sourceEntries[cursor]
      <4>1. CASE sourceEntries[cursor] = Gap
        BY <1>0, <4>1
      <4>2. CASE sourceEntries[cursor] # Gap
        <5> DEFINE e == sourceEntries[cursor]
        <5>1. e \in Entry /\ read = Append(items, e)
          BY <3>2, <4>2
        <5> HIDE DEF e, items, read
        <5>2. /\ read \in Inventory /\ Len(read) = Len(items) + 1
              /\ read[Len(items) + 1] = e
              /\ \A n \in 1..Len(items) : read[n] = items[n]
          BY <1>0, <5>1, OneMoreRead
        <5>3. Len(items) + 1 \in 1..Len(read) /\ Len(items) <= Len(read)
                /\ Len(read) \in Nat
          BY <1>0, <5>2
        <5> QED
          BY <5>2, <5>3 DEF e
      <4> QED
        BY <4>1, <4>2
    <3> HIDE DEF read
    <3>4. /\ statusScan'.phase = "windows" /\ statusScan'.items = read
          /\ statusScan'.cursor = cursor + 1 /\ statusScan' \in ScanRecord
      BY <1>0, <3>1, <3>3 DEF ScanRecord
    <3>5. IdsRead \subseteq IdsRead'
      <4>1. \A n \in 1..Len(items) : n \in 1..Len(read)
        BY <1>0, <3>3
      <4> QED
        BY <3>3, <3>4, <4>1 DEF IdsRead
    <3>6. sourceEntries[cursor] # Gap => sourceEntries[cursor].id \in IdsRead'
      BY <3>3, <3>4 DEF IdsRead
    <3>7. ASSUME NEW p \in steady, p < cursor + 1, sourceEntries[p] # Gap
          PROVE  sourceEntries[p].id \in IdsRead'
      <4>1. p \in Nat
        BY PositionsAreNumbered DEF ScanInv, ScanTypeOK
      <4>2. CASE p < cursor
        BY <2>0, <3>5, <3>7, <4>2 DEF ScanInv, BehindCursorRead
      <4>3. CASE p = cursor
        BY <3>6, <3>7, <4>3
      <4> HIDE DEF cursor
      <4> QED
        BY <1>0, <3>7, <4>1, <4>2, <4>3
    <3>8. ScanTypeOK'
      BY <2>0, <3>4 DEF ScanInv, ScanTypeOK
    <3>9. cursor + 1 >= 1 /\ (cursor + 1) - 1 \in Position
      BY <1>0, <2>2
    <3> HIDE DEF cursor
    <3> QED
      BY <2>0, <3>4, <3>7, <3>8, <3>9 DEF ScanInv, BehindCursorRead
  <2> QED
    BY <2>1, <2>2
<1>3. CASE ScanFails
  <2>1. statusScan' = [phase |-> "failed", listed |-> {}, items |-> <<>>, cursor |-> 1]
    BY <1>3 DEF ScanFails, NoScan
  <2>2. statusScan'.phase = "failed" /\ statusScan'.cursor = 1 /\ statusScan' \in ScanRecord
    BY <2>1, NothingRead DEF ScanRecord
  <2>3. ScanTypeOK'
    BY <1>3, <2>2 DEF ScanFails, ScanInv, ScanTypeOK
  <2> QED
    BY <2>2, <2>3 DEF ScanInv, BehindCursorRead
<1>4. CASE EntryChanges
  <2>1. PICK q \in Position, e \in Entry \cup {Gap} :
             /\ sourceEntries' = [sourceEntries EXCEPT ![q] = e]
             /\ steady' = steady \ {q}
    BY <1>4 DEF EntryChanges
  <2>2. UNCHANGED <<statusScan, itemStates>> /\ IdsRead' = IdsRead
    BY <1>4 DEF EntryChanges, IdsRead
  <2>3. \A p \in steady' : p \in steady /\ sourceEntries'[p] = sourceEntries[p]
    BY <2>1 DEF ScanInv, ScanTypeOK
  <2>4. ScanTypeOK'
    BY <2>1, <2>2 DEF ScanInv, ScanTypeOK
  <2> QED
    BY <2>2, <2>3, <2>4 DEF ScanInv, BehindCursorRead
<1>5. CASE StatesChange
  <2>1. /\ UNCHANGED <<sourceEntries, statusScan, steady>> /\ itemStates' \in SUBSET Identity
        /\ IdsRead' = IdsRead
    BY <1>5 DEF StatesChange, ScanInv, ScanTypeOK, IdsRead
  <2> QED
    BY <2>1 DEF ScanInv, ScanTypeOK, BehindCursorRead
<1>6. CASE UNCHANGED scanVars
  BY <1>6 DEF scanVars, ScanInv, ScanTypeOK, BehindCursorRead, IdsRead
<1> QED
  BY <1>1, <1>2, <1>3, <1>4, <1>5, <1>6 DEF ScanNext

-----------------------------------------------------------------------------
(* The counts.                                                             *)

(* Entries that are the first of their identity are as many as identities. *)
LEMMA CountedOnce ==
    ASSUME ScanTypeOK, NEW G \in SUBSET Firsts
    PROVE  /\ IsFiniteSet(G)
           /\ IsFiniteSet({statusScan.items[n].id : n \in G})
           /\ Cardinality({statusScan.items[n].id : n \in G}) = Cardinality(G)
           /\ Cardinality(G) \in Nat
<1> DEFINE items == statusScan.items
           T == {items[n].id : n \in G}
           f == [n \in G |-> items[n].id]
<1>1. items \in Inventory /\ Len(items) \in Nat /\ DOMAIN items = 1..Len(items)
  BY ReadSoFar DEF ScanTypeOK, ScanRecord
<1>2. G \subseteq 1..Len(items)
  BY <1>1 DEF Firsts
<1>3. IsFiniteSet(G) /\ Cardinality(G) \in Nat
  <2> HIDE DEF items
  <2>1. \A k \in Nat : IsFiniteSet(1..k)
    BY FS_Interval
  <2>2. IsFiniteSet(1..Len(items))
    BY <1>1, <2>1
  <2> QED
    BY <1>2, <2>2, FS_Subset, FS_CardinalityType
<1>4. ASSUME NEW m \in G, NEW n \in G, items[m].id = items[n].id
      PROVE  m = n
  <2>1. \A a \in G, b \in G : a < b => items[a].id # items[b].id
    <3> SUFFICES ASSUME NEW a \in G, NEW b \in G, a < b
                 PROVE  items[a].id # items[b].id
      OBVIOUS
    <3>1. a \in 1..b - 1
      BY <1>1, <1>2
    <3> QED
      BY <3>1 DEF Firsts
  <2>2. m \in Nat /\ n \in Nat
    BY <1>1, <1>2
  <2> HIDE DEF items
  <2> QED
    BY <1>4, <2>1, <2>2
<1> HIDE DEF items
<1>5. f \in Bijection(G, T)
  <2>1. f \in [G -> T]
    OBVIOUS
  <2>2. \A m, n \in G : f[m] = f[n] => m = n
    BY <1>4
  <2>3. \A t \in T : \E n \in G : f[n] = t
    OBVIOUS
  <2> HIDE DEF f, T
  <2>4. f \in Injection(G, T)
    BY <2>1, <2>2 DEF Injection, IsInjective
  <2>5. f \in Surjection(G, T)
    BY <2>1, <2>3 DEF Surjection
  <2> QED
    BY <2>4, <2>5 DEF Bijection
<1>6. ExistsBijection(G, T)
  BY <1>5 DEF ExistsBijection
<1>7. IsFiniteSet(T) /\ Cardinality(T) = Cardinality(G)
  <2> HIDE DEF T
  <2> QED
    BY <1>3, <1>6, FS_Bijection
<1> QED
  BY <1>3, <1>7 DEF items

(* Every identity read has a first entry.                                  *)
LEMMA FirstsAreAllIds ==
    ASSUME ScanTypeOK
    PROVE  /\ currentSourceIdentities = {statusScan.items[n].id : n \in Firsts}
           /\ currentSourceIdentities = IdsRead
           /\ Firsts \subseteq 1..Len(statusScan.items)
           /\ DOMAIN statusScan.items = 1..Len(statusScan.items)
           /\ Len(statusScan.items) \in Nat
<1> DEFINE items == statusScan.items
<1>1. items \in Inventory /\ Len(items) \in Nat /\ DOMAIN items = 1..Len(items)
  BY ReadSoFar DEF ScanTypeOK, ScanRecord
<1>2. Firsts \subseteq 1..Len(items)
  BY <1>1 DEF Firsts
<1>3. ASSUME NEW n \in 1..Len(items)
      PROVE  \E m \in Firsts : items[m].id = items[n].id
  <2> DEFINE Same == {m \in 1..Len(items) : items[m].id = items[n].id}
  <2>1. Same \in SUBSET Nat /\ Same # {} /\ Same \subseteq 1..Len(items)
    BY <1>1, <1>3
  <2>2. PICK m \in Same : \A k \in Same : m <= k
    <3> HIDE DEF Same
    <3> QED
      BY <2>1, LeastNumber
  <2>3. \A k \in 1..m - 1 : items[k].id # items[m].id
    <3> SUFFICES ASSUME NEW k \in 1..m - 1, items[k].id = items[m].id
                 PROVE  FALSE
      OBVIOUS
    <3>1. k \in 1..Len(items) /\ ~(m <= k)
      BY <1>1, <2>1, <2>2
    <3> QED
      BY <2>2, <3>1
  <2>4. m \in Firsts
    BY <1>1, <2>2, <2>3 DEF Firsts
  <2> QED
    BY <2>2, <2>4
<1>4. currentSourceIdentities = {items[n].id : n \in 1..Len(items)}
  BY <1>1 DEF currentSourceIdentities
<1>5. currentSourceIdentities = {items[n].id : n \in Firsts}
  <2> HIDE DEF items
  <2> QED
    BY <1>2, <1>3, <1>4
<1> QED
  BY <1>1, <1>2, <1>4, <1>5 DEF IdsRead

LEMMA SplitCount ==
    ASSUME NEW S, IsFiniteSet(S), NEW T
    PROVE  /\ IsFiniteSet(S \cap T) /\ IsFiniteSet(S \ T)
           /\ Cardinality(S) = Cardinality(S \cap T) + Cardinality(S \ T)
           /\ Cardinality(S) \in Nat /\ Cardinality(S \cap T) \in Nat
           /\ Cardinality(S \ T) \in Nat
<1>1. IsFiniteSet(S \cap T) /\ IsFiniteSet(S \ T)
  BY FS_Subset
<1>2. S = (S \cap T) \cup (S \ T) /\ (S \cap T) \cap (S \ T) = {}
  OBVIOUS
<1>3. /\ Cardinality(S) \in Nat /\ Cardinality(S \cap T) \in Nat
      /\ Cardinality(S \ T) \in Nat
  BY <1>1, FS_CardinalityType
<1>4. Cardinality({}) = 0
  BY FS_EmptySet
<1>5. Cardinality((S \cap T) \cup (S \ T))
        = Cardinality(S \cap T) + Cardinality(S \ T) - Cardinality((S \cap T) \cap (S \ T))
  BY <1>1, FS_Union
<1> DEFINE a == Cardinality(S \cap T)
           b == Cardinality(S \ T)
<1>6. Cardinality(S) = a + b - 0 /\ a \in Nat /\ b \in Nat
  BY <1>2, <1>3, <1>4, <1>5
<1> HIDE DEF a, b
<1>7. Cardinality(S) = a + b
  BY <1>6
<1> QED
  BY <1>1, <1>3, <1>7 DEF a, b

LEMMA ReportAddsUp == ScanInv => ScanReportsHold
<1> SUFFICES ASSUME ScanInv, statusScan.phase = "reported"
             PROVE  ScanReportsHold
  BY DEF ScanReportsHold
<1>0. ScanTypeOK
  BY DEF ScanInv
<1> DEFINE items == statusScan.items
           listed == statusScan.listed
           current == currentSourceIdentities
           stayed == {sourceEntries[p].id : p \in {q \in steady : sourceEntries[q] # Gap}}
           all == DOMAIN items
           Invalid == {n \in all : ~items[n].valid}
           Unprocessed == {n \in Firsts : items[n].valid /\ items[n].id \notin listed}
           Unlisted == {n \in Firsts : items[n].id \notin listed}
<1>1. /\ current = {items[n].id : n \in Firsts} /\ current = IdsRead
      /\ Firsts \subseteq all /\ all = 1..Len(items) /\ Len(items) \in Nat
  BY <1>0, FirstsAreAllIds
<1>2. stayed \subseteq current
  <2>1. \A p \in steady : p < statusScan.cursor
    BY DEF ScanInv, ScanTypeOK, BehindCursorRead
  <2> QED
    BY <1>1, <2>1 DEF ScanInv, BehindCursorRead
<1>3. IsFiniteSet(all) /\ Cardinality(all) = Len(items)
  <2>1. 1 \in Int /\ Len(items) \in Int /\ (1 > Len(items) <=> Len(items) = 0)
    BY <1>1
  <2>2. IsFiniteSet(1..Len(items))
          /\ Cardinality(1..Len(items)) = IF 1 > Len(items) THEN 0 ELSE Len(items)-1+1
    BY <2>1, FS_Interval
  <2> HIDE DEF items
  <2> QED
    BY <1>1, <2>1, <2>2
<1>4. IsFiniteSet(listed)
  BY <1>0, IdentityAssumption, FS_Subset DEF ScanTypeOK, ScanRecord
<1>5. /\ IsFiniteSet(current) /\ Cardinality(current) = Cardinality(Firsts)
      /\ Cardinality(Firsts) \in Nat
  BY <1>0, <1>1, CountedOnce
<1>6. /\ Cardinality(current \ listed) = Cardinality(Unlisted)
      /\ IsFiniteSet(Unlisted)
  <2>1. Unlisted \in SUBSET Firsts
    OBVIOUS
  <2>2. current \ listed = {items[n].id : n \in Unlisted}
    BY <1>1
  <2> HIDE DEF Unlisted
  <2> QED
    BY <1>0, <2>1, <2>2, CountedOnce
<1>7. /\ Unprocessed \subseteq Unlisted /\ Unlisted \ Unprocessed \subseteq Invalid
      /\ Invalid \subseteq all
  BY <1>1
<1>8. sourceReport.total = Len(items) /\ sourceReport.invalid = Cardinality(Invalid)
        /\ sourceReport.duplicate = Cardinality(all \ Firsts)
        /\ sourceReport.unprocessed = Cardinality(Unprocessed)
        /\ sourceReport.orphaned = Cardinality(listed \ current)
  BY DEF sourceReport
<1> HIDE DEF items, listed, current, stayed, all, Invalid, Unprocessed, Unlisted
<1>9. Len(items) - Cardinality(all \ Firsts) = Cardinality(current)
  <2>1. all \cap Firsts = Firsts
    BY <1>1
  <2>2. /\ Cardinality(all) = Cardinality(all \cap Firsts) + Cardinality(all \ Firsts)
        /\ Cardinality(all \ Firsts) \in Nat
    BY <1>3, SplitCount
  <2>3. Len(items) = Cardinality(Firsts) + Cardinality(all \ Firsts)
    BY <1>3, <2>1, <2>2
  <2> QED
    BY <1>5, <2>2, <2>3
<1>10. Cardinality(listed \ current) <= Cardinality(listed \ stayed)
  <2>1. IsFiniteSet(listed \ stayed) /\ listed \ current \subseteq listed \ stayed
    BY <1>2, <1>4, SplitCount
  <2> QED
    BY <2>1, FS_Subset
<1>11. Cardinality(stayed) <= Cardinality(current) /\ Cardinality(stayed) \in Nat
  BY <1>2, <1>5, FS_Subset, FS_CardinalityType
<1>12. /\ Cardinality(listed) = Cardinality(listed \cap current) + Cardinality(listed \ current)
       /\ Cardinality(listed \cap current) \in Nat /\ Cardinality(listed \ current) \in Nat
       /\ Cardinality(listed) \in Nat
  BY <1>4, SplitCount
<1>13. /\ Cardinality(current) = Cardinality(current \cap listed) + Cardinality(current \ listed)
       /\ Cardinality(current \cap listed) = Cardinality(listed \cap current)
       /\ Cardinality(current \ listed) \in Nat /\ Cardinality(current) \in Nat
  <2>1. current \cap listed = listed \cap current
    OBVIOUS
  <2> QED
    BY <1>5, <2>1, SplitCount
<1>14. /\ Cardinality(Unprocessed) <= Cardinality(Unlisted)
       /\ Cardinality(Unprocessed) \in Nat
       /\ Cardinality(Unlisted) <= Cardinality(Unprocessed) + Cardinality(Invalid)
       /\ Cardinality(Invalid) \in Nat
  <2>1. IsFiniteSet(Invalid) /\ Cardinality(Invalid) \in Nat
    BY <1>3, <1>7, FS_Subset, FS_CardinalityType
  <2>2. Unlisted \cap Unprocessed = Unprocessed
    BY <1>7
  <2>3. /\ Cardinality(Unlisted)
             = Cardinality(Unlisted \cap Unprocessed) + Cardinality(Unlisted \ Unprocessed)
        /\ Cardinality(Unlisted \cap Unprocessed) \in Nat
        /\ Cardinality(Unlisted \ Unprocessed) \in Nat /\ Cardinality(Unlisted) \in Nat
    BY <1>6, SplitCount
  <2>4. Cardinality(Unlisted \ Unprocessed) <= Cardinality(Invalid)
    BY <1>7, <2>1, FS_Subset
  <2> QED
    BY <2>1, <2>2, <2>3, <2>4
<1> DEFINE cur == Cardinality(current)
           dur == Cardinality(listed)
           orph == Cardinality(listed \ current)
           unp == Cardinality(Unprocessed)
           inv == Cardinality(Invalid)
<1>15. dur + unp <= cur + orph /\ cur + orph <= dur + unp + inv
  BY <1>6, <1>12, <1>13, <1>14
<1>16. sourceReport.total - sourceReport.duplicate = cur
  BY <1>8, <1>9
<1> HIDE DEF cur, dur, orph, unp, inv
<1>17. /\ sourceReport.orphaned = orph /\ sourceReport.unprocessed = unp
       /\ sourceReport.invalid = inv
       /\ orph <= Cardinality(listed \ stayed) /\ cur >= Cardinality(stayed)
  <2>1. cur >= Cardinality(stayed)
    BY <1>11, <1>13 DEF cur
  <2> QED
    BY <1>8, <1>10, <2>1 DEF orph, unp, inv
<1> QED
  BY <1>15, <1>16, <1>17 DEF ScanReportsHold, dur, listed, stayed

(***************************************************************************)
(* A status report that reads the states and the source one after the      *)
(* other loses nothing that stayed, and its counts account for every       *)
(* identity.                                                               *)
(***************************************************************************)
THEOREM ScanReportsAddUp == ScanSpec => []ScanReportsHold
<1>1. ScanInit => ScanInv
  <2> SUFFICES ASSUME ScanInit PROVE ScanInv
    OBVIOUS
  <2>1. statusScan = [phase |-> "idle", listed |-> {}, items |-> <<>>, cursor |-> 1]
    BY DEF ScanInit, NoScan
  <2>2. statusScan.phase = "idle" /\ statusScan.cursor = 1 /\ statusScan \in ScanRecord
    BY <2>1, NothingRead DEF ScanRecord
  <2> QED
    BY <2>2 DEF ScanInit, ScanInv, ScanTypeOK, BehindCursorRead
<1> QED
  BY <1>1, ScanStep, ReportAddsUp, PTL DEF ScanSpec

-----------------------------------------------------------------------------
(* Writes and journals of the destinations.                                *)

IsSequence(s) == \E S : s \in Seq(S)

LEMMA Extended ==
    ASSUME NEW s, IsSequence(s), NEW e
    PROVE  /\ IsSequence(Append(s, e)) /\ Len(s) \in Nat
           /\ DOMAIN s = 1..Len(s) /\ Len(Append(s, e)) = Len(s) + 1
           /\ DOMAIN Append(s, e) = 1..(Len(s) + 1)
           /\ Append(s, e)[Len(s) + 1] = e
           /\ \A n \in 1..Len(s) : Append(s, e)[n] = s[n]
<1>1. PICK S : s \in Seq(S)
  BY DEF IsSequence
<1> DEFINE T == S \cup {e}
<1>2. s \in Seq(T) /\ e \in T
  BY <1>1
<1>3. Append(s, e) \in Seq(T)
  BY <1>2
<1>4. IsSequence(Append(s, e))
  BY <1>3 DEF IsSequence
<1> HIDE DEF T
<1> QED
  BY <1>2, <1>3, <1>4

-----------------------------------------------------------------------------
(* Places among a finite set of numbers.                                   *)

LEMMA PlaceOfLast ==
    ASSUME NEW N \in Nat, NEW S \in SUBSET (1..N)
    PROVE  /\ IsFiniteSet(S) /\ Cardinality(S) \in Nat
           /\ Cardinality(S \cup {N + 1}) = Cardinality(S) + 1
           /\ Place(N + 1, S \cup {N + 1}) = Cardinality(S) + 1
           /\ \A n \in S : Place(n, S \cup {N + 1}) = Place(n, S)
           /\ \A n \in S : Place(n, S) \in Nat /\ Place(n, S) <= Cardinality(S)
<1>1. IsFiniteSet(1..N)
  BY FS_Interval
<1>2. IsFiniteSet(S) /\ Cardinality(S) \in Nat
  BY <1>1, FS_Subset, FS_CardinalityType
<1>3. Cardinality(S \cup {N + 1}) = Cardinality(S) + 1
  <2>1. N + 1 \notin S
    OBVIOUS
  <2> QED
    BY <1>2, <2>1, FS_AddElement
<1>4. {m \in S \cup {N + 1} : m <= N + 1} = S \cup {N + 1}
  <2>1. \A m \in S : m <= N + 1
    OBVIOUS
  <2>2. N + 1 <= N + 1
    OBVIOUS
  <2> QED
    BY <2>1, <2>2
<1>5. ASSUME NEW n \in S
      PROVE  /\ {m \in S \cup {N + 1} : m <= n} = {m \in S : m <= n}
             /\ Cardinality({m \in S : m <= n}) \in Nat
             /\ Cardinality({m \in S : m <= n}) <= Cardinality(S)
  <2>1. {m \in S \cup {N + 1} : m <= n} = {m \in S : m <= n}
    OBVIOUS
  <2>2. {m \in S : m <= n} \subseteq S
    OBVIOUS
  <2> QED
    BY <1>2, <2>1, <2>2, FS_Subset, FS_CardinalityType
<1> QED
  BY <1>2, <1>3, <1>4, <1>5 DEF Place

LEMMA PlaceBeforeLast ==
    ASSUME NEW E \in Nat, NEW S \in SUBSET (1..E), E \in S
    PROVE  /\ Cardinality(S \ {E}) \in Nat
           /\ Cardinality(S) = Cardinality(S \ {E}) + 1
           /\ \A n \in S \ {E} : /\ Place(n, S) = Place(n, S \ {E})
                                /\ Place(n, S) \in Nat
                                /\ Place(n, S) < Cardinality(S)
<1>1. IsFiniteSet(S) /\ Cardinality(S) \in Nat
  BY PlaceOfLast
<1>2. IsFiniteSet(S \ {E}) /\ Cardinality(S \ {E}) \in Nat
  BY <1>1, FS_Subset, FS_CardinalityType
<1>3. Cardinality(S) = Cardinality(S \ {E}) + 1
  <2>1. S = (S \ {E}) \cup {E} /\ E \notin S \ {E}
    OBVIOUS
  <2> QED
    BY <1>2, <2>1, FS_AddElement
<1>4. ASSUME NEW n \in S \ {E}
      PROVE  /\ {m \in S : m <= n} = {m \in S \ {E} : m <= n}
             /\ Cardinality({m \in S \ {E} : m <= n}) \in Nat
             /\ Cardinality({m \in S \ {E} : m <= n}) <= Cardinality(S \ {E})
  <2>1. ~(E <= n)
    OBVIOUS
  <2>2. {m \in S : m <= n} = {m \in S \ {E} : m <= n}
    BY <2>1
  <2>3. {m \in S \ {E} : m <= n} \subseteq S \ {E}
    OBVIOUS
  <2> QED
    BY <1>2, <2>2, <2>3, FS_Subset, FS_CardinalityType
<1>5. ASSUME NEW n \in S \ {E}
      PROVE  /\ Place(n, S) = Place(n, S \ {E})
             /\ Place(n, S) \in Nat /\ Place(n, S) <= Cardinality(S \ {E})
  BY <1>4 DEF Place
<1> QED
  BY <1>2, <1>3, <1>5

-----------------------------------------------------------------------------
Awaiting == {"record", "head", "diagnose"}

WriteShape ==
    /\ write # NoWrite =>
         /\ write = [pc |-> write.pc, change |-> write.change, for |-> write.for]
         /\ write.pc \in Awaiting \cup {"request", "verify", "log"}
    /\ IsSequence(journal) /\ IsSequence(effects) /\ foreign \in Nat
    /\ \A n \in DOMAIN effects :
         effects[n] = [change |-> effects[n].change, version |-> effects[n].version,
                       fate |-> effects[n].fate]

(* The journal owes an entry exactly while an answer waits to be recorded, *)
(* and that answer is of the last write.                                   *)
OwesOne ==
    IF write.pc \in Awaiting
    THEN /\ Cardinality(Changes) + 1 = Cardinality(Known)
         /\ Len(effects) \in Known
         /\ LastEffect.change = write.change
         /\ write.pc = "head" =>
              /\ write.change = "copied"
              /\ object = LastEffect.version \/ foreign > 0
    ELSE Cardinality(Changes) = Cardinality(Known)

TellsOf(c, k) ==
    /\ journal[c].change = effects[k].change
    /\ \/ journal[c].version \in {Unknown, effects[k].version}
       \/ effects[k].change = "copied" /\ foreign > 0

TellsInOrder ==
    \A c \in Changes, k \in Known : Place(c, Changes) = Place(k, Known) => TellsOf(c, k)

WriteInv == WriteShape /\ OwesOne /\ TellsInOrder

LEMMA JournalFacts ==
    ASSUME WriteShape
    PROVE  /\ Len(journal) \in Nat /\ DOMAIN journal = 1..Len(journal)
           /\ Len(effects) \in Nat /\ DOMAIN effects = 1..Len(effects)
           /\ Changes \in SUBSET (1..Len(journal))
           /\ Known \in SUBSET (1..Len(effects))
           /\ Cardinality(Changes) \in Nat /\ Cardinality(Known) \in Nat
<1>1. /\ Len(journal) \in Nat /\ DOMAIN journal = 1..Len(journal)
      /\ Len(effects) \in Nat /\ DOMAIN effects = 1..Len(effects)
  BY Extended DEF WriteShape
<1>2. Changes \in SUBSET (1..Len(journal)) /\ Known \in SUBSET (1..Len(effects))
  BY <1>1 DEF Changes, Known
<1> QED
  BY <1>1, <1>2, PlaceOfLast

-----------------------------------------------------------------------------
(* What a step does to the journal, and what to the effects.               *)

JournalStays == journal' = journal
EffectsStay == effects' = effects

LEMMA NothingRecorded ==
    ASSUME WriteInv, JournalStays, EffectsStay, foreign' \in Nat, foreign' >= foreign
    PROVE  Changes' = Changes /\ Known' = Known /\ TellsInOrder'
<1>1. Changes' = Changes /\ Known' = Known
  BY DEF JournalStays, EffectsStay, Changes, Known
<1>2. foreign > 0 => foreign' > 0
  BY DEF WriteInv, WriteShape
<1>3. ASSUME NEW c \in Changes', NEW k \in Known', Place(c, Changes') = Place(k, Known')
      PROVE  TellsOf(c, k)'
  <2>1. TellsOf(c, k)
    BY <1>1, <1>3 DEF WriteInv, TellsInOrder
  <2> QED
    BY <2>1, <1>2 DEF TellsOf, JournalStays, EffectsStay
<1> QED
  BY <1>1, <1>3 DEF TellsInOrder, Place

(* An entry that is no change.                                             *)
LEMMA DiagnosticRecorded ==
    ASSUME WriteInv, journal' = Append(journal, Diagnostic), EffectsStay,
           foreign' = foreign
    PROVE  Changes' = Changes /\ Known' = Known /\ TellsInOrder' /\ IsSequence(journal')
<1>1. /\ IsSequence(journal') /\ DOMAIN journal' = 1..(Len(journal) + 1)
      /\ DOMAIN journal = 1..Len(journal) /\ Len(journal) \in Nat
      /\ journal'[Len(journal) + 1] = Diagnostic
      /\ \A n \in 1..Len(journal) : journal'[n] = journal[n]
  BY Extended DEF WriteInv, WriteShape
<1>2. Diagnostic.kind # "change"
  BY DEF Diagnostic
<1>3. Changes' = Changes
  BY <1>1, <1>2 DEF Changes
<1>4. Known' = Known
  BY DEF EffectsStay, Known
<1>5. Changes \subseteq 1..Len(journal)
  BY <1>1 DEF Changes
<1>6. ASSUME NEW c \in Changes', NEW k \in Known', Place(c, Changes') = Place(k, Known')
      PROVE  TellsOf(c, k)'
  <2>1. TellsOf(c, k)
    BY <1>3, <1>4, <1>6 DEF WriteInv, TellsInOrder
  <2>2. journal'[c] = journal[c]
    BY <1>1, <1>3, <1>5
  <2> QED
    BY <2>1, <2>2 DEF TellsOf, EffectsStay
<1> QED
  BY <1>1, <1>3, <1>4, <1>6 DEF TellsInOrder, Place

(* The entry of the write that waits for it.                               *)
LEMMA ChangeRecorded ==
    ASSUME WriteInv, write.pc \in Awaiting, NEW noted,
           journal' = Append(journal, Change(noted)), EffectsStay, foreign' = foreign,
           \/ noted \in {Unknown, LastEffect.version}
           \/ LastEffect.change = "copied" /\ foreign > 0
    PROVE  /\ Cardinality(Changes') = Cardinality(Known') /\ Known' = Known
           /\ TellsInOrder' /\ IsSequence(journal')
<1> DEFINE J == Len(journal)
           E == Len(effects)
<1>1. /\ IsSequence(journal') /\ DOMAIN journal' = 1..(J + 1)
      /\ DOMAIN journal = 1..J /\ J \in Nat
      /\ journal'[J + 1] = Change(noted)
      /\ \A n \in 1..J : journal'[n] = journal[n]
  BY Extended DEF WriteInv, WriteShape
<1>2. /\ E \in Nat /\ Changes \in SUBSET (1..J) /\ Known \in SUBSET (1..E)
      /\ Cardinality(Changes) \in Nat /\ Cardinality(Known) \in Nat
  BY JournalFacts DEF WriteInv
<1>3. /\ Cardinality(Changes) + 1 = Cardinality(Known) /\ E \in Known
      /\ effects[E].change = write.change
  BY DEF WriteInv, OwesOne, LastEffect
<1>4. /\ Change(noted).kind = "change" /\ Change(noted).change = write.change
      /\ Change(noted).version = noted
  BY DEF Change
<1>5. Changes' = Changes \cup {J + 1}
  <2> HIDE DEF J
  <2> QED
    BY <1>1, <1>4 DEF Changes
<1>6. Known' = Known
  BY DEF EffectsStay, Known
<1>7. /\ Cardinality(Changes') = Cardinality(Changes) + 1
      /\ Place(J + 1, Changes') = Cardinality(Changes) + 1
      /\ \A n \in Changes : /\ Place(n, Changes') = Place(n, Changes)
                            /\ Place(n, Changes) \in Nat
                            /\ Place(n, Changes) <= Cardinality(Changes)
  <2> HIDE DEF J
  <2> QED
    BY <1>1, <1>2, <1>5, PlaceOfLast
<1>8. \A k \in Known : k # E => Place(k, Known) < Cardinality(Known)
  <2> HIDE DEF E
  <2> QED
    BY <1>2, <1>3, PlaceBeforeLast
<1>9. ASSUME NEW c \in Changes', NEW k \in Known', Place(c, Changes') = Place(k, Known')
      PROVE  TellsOf(c, k)'
  <2>1. CASE c = J + 1
    <3>1. Place(k, Known) = Cardinality(Known)
      BY <1>3, <1>6, <1>7, <1>9, <2>1
    <3>2. k = E
      <4> HIDE DEF E
      <4> QED
        BY <1>2, <1>6, <1>8, <1>9, <3>1
    <3>3. journal'[c] = Change(noted) /\ effects'[k] = effects[E]
      BY <1>1, <2>1, <3>2 DEF EffectsStay
    <3> QED
      BY <1>3, <1>4, <3>3 DEF TellsOf, LastEffect
  <2>2. CASE c \in Changes
    <3>1. TellsOf(c, k)
      BY <1>6, <1>7, <1>9, <2>2 DEF WriteInv, TellsInOrder
    <3>2. journal'[c] = journal[c]
      BY <1>1, <1>2, <2>2
    <3> QED
      BY <3>1, <3>2 DEF TellsOf, EffectsStay
  <2> QED
    BY <1>5, <2>1, <2>2
<1>10. Cardinality(Changes') = Cardinality(Known')
  BY <1>3, <1>6, <1>7
<1>11. TellsInOrder'
  BY <1>9 DEF TellsInOrder, Place
<1> QED
  BY <1>1, <1>6, <1>10, <1>11

(* A write takes effect; its caller hears of it or not.                    *)
LEMMA EffectMade ==
    ASSUME WriteInv, write.pc \notin Awaiting, NEW fate, Apply(fate), JournalStays,
           foreign' = foreign
    PROVE  /\ Changes' = Changes
           /\ IF fate \in {"answered", "reported"}
              THEN /\ Cardinality(Changes') + 1 = Cardinality(Known')
                   /\ Len(effects') \in Known'
              ELSE Cardinality(Changes') = Cardinality(Known')
           /\ LastEffect'.change = write.change
           /\ write.change # "deleted" => object' = LastEffect'.version
           /\ TellsInOrder' /\ IsSequence(effects')
           /\ \A n \in DOMAIN effects' :
                effects'[n] = [change |-> effects'[n].change,
                               version |-> effects'[n].version, fate |-> effects'[n].fate]
<1> DEFINE E == Len(effects)
           new == [change |-> write.change, version |-> Now, fate |-> fate]
<1>1. effects' = Append(effects, new)
  BY DEF Apply
<1>2. new.change = write.change /\ new.version = Now /\ new.fate = fate
        /\ new = [change |-> new.change, version |-> new.version, fate |-> new.fate]
  OBVIOUS
<1> HIDE DEF new
<1>3. /\ IsSequence(effects') /\ DOMAIN effects' = 1..(E + 1) /\ E \in Nat
      /\ DOMAIN effects = 1..E /\ Len(effects') = E + 1
      /\ effects'[E + 1] = new /\ \A n \in 1..E : effects'[n] = effects[n]
  BY <1>1, Extended DEF WriteInv, WriteShape
<1>4. /\ Known \in SUBSET (1..E) /\ Cardinality(Changes) \in Nat
      /\ Cardinality(Changes) = Cardinality(Known)
      /\ Changes \in SUBSET (1..Len(journal)) /\ Len(journal) \in Nat
  BY JournalFacts DEF WriteInv, OwesOne
<1> HIDE DEF E
<1>5. Changes' = Changes
  BY DEF JournalStays, Changes
<1>6. Known' = IF fate \in {"answered", "reported"} THEN Known \cup {E + 1} ELSE Known
  BY <1>2, <1>3 DEF Known
<1>7. /\ Cardinality(Known \cup {E + 1}) = Cardinality(Known) + 1
      /\ Place(E + 1, Known \cup {E + 1}) = Cardinality(Known) + 1
      /\ \A n \in Known : Place(n, Known \cup {E + 1}) = Place(n, Known)
  BY <1>3, <1>4, PlaceOfLast
<1>8. \A c \in Changes : Place(c, Changes) \in Nat /\ Place(c, Changes) <= Cardinality(Changes)
  BY <1>4, PlaceOfLast
<1>9. ASSUME NEW c \in Changes', NEW k \in Known', Place(c, Changes') = Place(k, Known')
      PROVE  TellsOf(c, k)'
  <2>1. k # E + 1
    <3> SUFFICES ASSUME k = E + 1 PROVE FALSE
      OBVIOUS
    <3>1. E + 1 \notin Known
      BY <1>3, <1>4
    <3>2. Known' = Known \cup {E + 1}
      BY <1>6, <1>9, <3>1
    <3>3. Place(c, Changes) = Cardinality(Changes) + 1
      BY <1>4, <1>5, <1>7, <1>9, <3>2
    <3> QED
      BY <1>4, <1>5, <1>8, <1>9, <3>3
  <2>2. k \in Known /\ Place(k, Known') = Place(k, Known)
    BY <1>6, <1>7, <1>9, <2>1
  <2>3. TellsOf(c, k)
    BY <1>5, <1>9, <2>2 DEF WriteInv, TellsInOrder
  <2>4. effects'[k] = effects[k]
    BY <1>3, <1>4, <2>2
  <2> QED
    BY <2>3, <2>4 DEF TellsOf, JournalStays
<1>10. TellsInOrder'
  BY <1>9 DEF TellsInOrder, Place
<1>11. LastEffect' = new
  BY <1>3 DEF LastEffect
<1>12. write.change # "deleted" => object' = new.version
  BY <1>2 DEF Apply
<1>13. \A n \in DOMAIN effects' :
         effects'[n] = [change |-> effects'[n].change,
                        version |-> effects'[n].version, fate |-> effects'[n].fate]
  <2>1. \A n \in 1..E : effects[n] = [change |-> effects[n].change,
                        version |-> effects[n].version, fate |-> effects[n].fate]
    BY <1>3 DEF WriteInv, WriteShape
  <2>2. ASSUME NEW n \in 1..(E + 1)
        PROVE  effects'[n] = [change |-> effects'[n].change,
                        version |-> effects'[n].version, fate |-> effects'[n].fate]
    <3>1. CASE n = E + 1
      BY <1>2, <1>3, <3>1
    <3>2. CASE n \in 1..E
      BY <1>3, <2>1, <3>2
    <3> QED
      BY <1>3, <3>1, <3>2
  <2> QED
    BY <1>3, <2>2
<1>14. CASE fate \in {"answered", "reported"}
  <2>1. Cardinality(Changes') + 1 = Cardinality(Known') /\ Len(effects') \in Known'
    BY <1>3, <1>4, <1>5, <1>6, <1>7, <1>14
  <2> QED
    BY <1>2, <1>3, <1>5, <1>10, <1>11, <1>12, <1>13, <1>14, <2>1
<1>15. CASE fate \notin {"answered", "reported"}
  BY <1>2, <1>3, <1>4, <1>5, <1>6, <1>10, <1>11, <1>12, <1>13, <1>15
<1> QED
  BY <1>14, <1>15

(* An answer that was not recorded is no answer.                           *)
LEMMA AnswerForgotten ==
    ASSUME WriteInv, write.pc \in Awaiting, NEW fate, Forgets(fate),
           fate \notin {"answered", "reported"}, JournalStays, foreign' = foreign
    PROVE  /\ Cardinality(Changes') = Cardinality(Known')
           /\ TellsInOrder' /\ IsSequence(effects')
           /\ \A n \in DOMAIN effects' :
                effects'[n] = [change |-> effects'[n].change,
                               version |-> effects'[n].version, fate |-> effects'[n].fate]
<1> DEFINE E == Len(effects)
           old == effects[E]
           new == [change |-> old.change, version |-> old.version, fate |-> fate]
<1>1. /\ E \in Nat /\ DOMAIN effects = 1..E /\ Known \in SUBSET (1..E)
      /\ Cardinality(Changes) \in Nat /\ Cardinality(Known) \in Nat
      /\ Changes \in SUBSET (1..Len(journal)) /\ Len(journal) \in Nat
  BY JournalFacts DEF WriteInv
<1>2. Cardinality(Changes) + 1 = Cardinality(Known) /\ E \in Known
  BY DEF WriteInv, OwesOne
<1>3. \A n \in 1..E : effects[n] = [change |-> effects[n].change,
                        version |-> effects[n].version, fate |-> effects[n].fate]
  BY <1>1 DEF WriteInv, WriteShape
<1>4. old = [change |-> old.change, version |-> old.version, fate |-> old.fate]
  BY <1>1, <1>2, <1>3
<1>5. [old EXCEPT !.fate = fate] = new
  <2> HIDE DEF old
  <2>1. [[change |-> old.change, version |-> old.version, fate |-> old.fate]
           EXCEPT !.fate = fate] = new
    OBVIOUS
  <2> HIDE DEF new
  <2> QED
    BY <1>4, <2>1
<1>6. effects' = [effects EXCEPT ![E] = new]
  <2>1. effects' = [effects EXCEPT ![E] = [old EXCEPT !.fate = fate]]
    BY DEF Forgets
  <2> HIDE DEF old, new, E
  <2> QED
    BY <1>5, <2>1
<1>7. new = [change |-> new.change, version |-> new.version, fate |-> new.fate]
        /\ new.fate = fate /\ new.change = old.change /\ new.version = old.version
  OBVIOUS
<1>8. PICK S : effects \in Seq(S)
  BY DEF WriteInv, WriteShape, IsSequence
<1> HIDE DEF new, old, E
<1>9. effects' \in [1..E -> S \cup {new}]
  <2>1. effects \in [1..E -> S]
    BY <1>8 DEF E
  <2> QED
    BY <1>6, <2>1
<1>10. effects' \in Seq(S \cup {new}) /\ DOMAIN effects' = 1..E
  BY <1>1, <1>9
<1>11. IsSequence(effects')
  BY <1>10 DEF IsSequence
<1>12. effects'[E] = new /\ \A n \in 1..E : n # E => effects'[n] = effects[n]
  BY <1>1, <1>2, <1>6
<1>13. Known' = Known \ {E}
  BY <1>1, <1>7, <1>10, <1>12 DEF Known
<1>14. Changes' = Changes
  BY DEF JournalStays, Changes
<1>17. /\ Cardinality(Known \ {E}) \in Nat
       /\ Cardinality(Known) = Cardinality(Known \ {E}) + 1
       /\ \A n \in Known \ {E} : Place(n, Known) = Place(n, Known \ {E})
  BY <1>1, <1>2, PlaceBeforeLast
<1>18. Cardinality(Changes') = Cardinality(Known')
  BY <1>1, <1>2, <1>13, <1>14, <1>17
<1>19. ASSUME NEW c \in Changes', NEW k \in Known', Place(c, Changes') = Place(k, Known')
       PROVE  TellsOf(c, k)'
  <2>1. k \in Known /\ k # E /\ Place(k, Known') = Place(k, Known)
    BY <1>13, <1>17, <1>19
  <2>2. TellsOf(c, k)
    BY <1>14, <1>19, <2>1 DEF WriteInv, TellsInOrder
  <2>3. effects'[k] = effects[k]
    BY <1>1, <1>12, <2>1
  <2> QED
    BY <2>2, <2>3 DEF TellsOf, JournalStays
<1>20. TellsInOrder'
  BY <1>19 DEF TellsInOrder, Place
<1>21. \A n \in DOMAIN effects' :
         effects'[n] = [change |-> effects'[n].change,
                        version |-> effects'[n].version, fate |-> effects'[n].fate]
  BY <1>3, <1>7, <1>10, <1>12
<1> QED
  BY <1>11, <1>18, <1>20, <1>21

-----------------------------------------------------------------------------
LEMMA WriteMoves ==
    ASSUME write # NoWrite, WriteShape, NEW p
    PROVE  /\ [write EXCEPT !.pc = p] = [pc |-> p, change |-> write.change, for |-> write.for]
           /\ [write EXCEPT !.pc = p].pc = p
           /\ [write EXCEPT !.pc = p].change = write.change
           /\ [write EXCEPT !.pc = p].for = write.for
<1> DEFINE old == [pc |-> write.pc, change |-> write.change, for |-> write.for]
           new == [pc |-> p, change |-> write.change, for |-> write.for]
<1>1. write = old
  BY DEF WriteShape
<1>2. [old EXCEPT !.pc = p] = new
  OBVIOUS
<1>3. new.pc = p /\ new.change = write.change /\ new.for = write.for
  OBVIOUS
<1>4. [write EXCEPT !.pc = p] = new
  <2> HIDE DEF new
  <2>1. [write EXCEPT !.pc = p] = [old EXCEPT !.pc = p]
    <3> HIDE DEF old
    <3> QED
      BY <1>1
  <2> QED
    BY <1>2, <2>1
<1> HIDE DEF new
<1>5. new = [pc |-> p, change |-> write.change, for |-> write.for]
  BY DEF new
<1> QED
  BY <1>3, <1>4, <1>5

LEMMA IdleOwesNothing == NoWrite.pc \notin Awaiting /\ NoWrite.pc = "idle"
BY DEF NoWrite, Awaiting

LEMMA Busy ==
    ASSUME write.pc \in Awaiting \cup {"request", "verify", "log"}
    PROVE  write # NoWrite
BY DEF NoWrite, Awaiting

(* A step that leaves the call where it needs nothing recorded.            *)
LEMMA NothingOwed ==
    ASSUME WriteInv, write'.pc \notin Awaiting, TellsInOrder',
           Cardinality(Changes') = Cardinality(Known'),
           IsSequence(journal'), IsSequence(effects'), foreign' \in Nat,
           \A n \in DOMAIN effects' :
             effects'[n] = [change |-> effects'[n].change,
                            version |-> effects'[n].version, fate |-> effects'[n].fate],
           write' # NoWrite =>
             /\ write' = [pc |-> write'.pc, change |-> write'.change, for |-> write'.for]
             /\ write'.pc \in {"request", "verify", "log"}
    PROVE  WriteInv'
<1>1. WriteShape'
  BY DEF WriteShape, NoWrite
<1>2. OwesOne'
  BY DEF OwesOne
<1> QED
  BY <1>1, <1>2 DEF WriteInv

LEMMA CallStep ==
    ASSUME WriteInv, NEW change, NEW for, NEW permitted, Call(change, for, permitted)
    PROVE  WriteInv'
<1> DEFINE asked == [pc |-> "request", change |-> change, for |-> for]
<1>1. /\ write = NoWrite /\ JournalStays /\ EffectsStay /\ foreign' = foreign
      /\ write' = asked \/ write' = NoWrite
  BY DEF Call, JournalStays, EffectsStay
<1>2. /\ asked = [pc |-> asked.pc, change |-> asked.change, for |-> asked.for]
      /\ asked.pc = "request"
  OBVIOUS
<1> HIDE DEF asked
<1>3. Cardinality(Changes) = Cardinality(Known)
  BY <1>1, IdleOwesNothing DEF WriteInv, OwesOne
<1>4. foreign \in Nat /\ foreign >= foreign
  BY DEF WriteInv, WriteShape
<1>5. Changes' = Changes /\ Known' = Known /\ TellsInOrder'
  BY <1>1, <1>4, NothingRecorded
<1>6. write'.pc \notin Awaiting
  BY <1>1, <1>2, IdleOwesNothing DEF Awaiting
<1>7. write' # NoWrite =>
        /\ write' = [pc |-> write'.pc, change |-> write'.change, for |-> write'.for]
        /\ write'.pc \in {"request", "verify", "log"}
  BY <1>1, <1>2
<1> QED
  BY <1>1, <1>3, <1>4, <1>5, <1>6, <1>7, NothingOwed
     DEF WriteInv, WriteShape, JournalStays, EffectsStay

LEMMA CallsStep ==
    ASSUME WriteInv, CallCommercetools \/ CallFiles \/ upsert
    PROVE  WriteInv'
BY CallStep DEF CallCommercetools, CallFiles, upload, transferFrom, copy, delete, upsert

(* The request goes out and something becomes of it.                       *)
LEMMA AppliedStep ==
    ASSUME WriteInv, WriteAnswered \/ WriteReported \/ WriteUnanswered
    PROVE  WriteInv'
<1> DEFINE fate == IF WriteAnswered THEN "answered"
                   ELSE IF WriteReported THEN "reported" ELSE "lost"
           next == IF WriteAnswered
                   THEN IF write.change = "copied" THEN "head" ELSE "record"
                   ELSE IF WriteReported THEN "diagnose" ELSE "log"
<1>1. /\ Apply(fate) /\ JournalStays /\ foreign' = foreign
      /\ write' = [write EXCEPT !.pc = next]
  BY DEF WriteAnswered, WriteReported, WriteUnanswered, JournalStays
<1>2. /\ next \in Awaiting \cup {"log"}
      /\ next \in Awaiting <=> fate \in {"answered", "reported"}
      /\ next = "head" => write.change = "copied"
  BY DEF Awaiting
<1> HIDE DEF fate, next
<1>3. write.pc = "request"
  BY <1>1 DEF Apply
<1>4. write.pc \notin Awaiting /\ write # NoWrite
  BY <1>3, Busy DEF Awaiting
<1>5. /\ Changes' = Changes
      /\ IF fate \in {"answered", "reported"}
         THEN Cardinality(Changes') + 1 = Cardinality(Known') /\ Len(effects') \in Known'
         ELSE Cardinality(Changes') = Cardinality(Known')
      /\ LastEffect'.change = write.change
      /\ write.change # "deleted" => object' = LastEffect'.version
      /\ TellsInOrder' /\ IsSequence(effects')
      /\ \A n \in DOMAIN effects' :
           effects'[n] = [change |-> effects'[n].change,
                          version |-> effects'[n].version, fate |-> effects'[n].fate]
  BY <1>1, <1>4, EffectMade
<1>6. /\ write' = [pc |-> next, change |-> write.change, for |-> write.for]
      /\ write'.pc = next /\ write'.change = write.change /\ write'.for = write.for
  BY <1>1, <1>4, WriteMoves DEF WriteInv
<1>7. write' = [pc |-> write'.pc, change |-> write'.change, for |-> write'.for]
  BY <1>6
<1>8. WriteShape'
  BY <1>1, <1>2, <1>5, <1>6, <1>7 DEF WriteInv, WriteShape, JournalStays, NoWrite
<1>9. OwesOne'
  BY <1>2, <1>5, <1>6 DEF OwesOne
<1> QED
  BY <1>5, <1>8, <1>9 DEF WriteInv

LEMMA FailedStep ==
    ASSUME WriteInv, WriteFails \/ Verify
    PROVE  WriteInv'
<1>1. /\ write.pc \in {"request", "verify"} /\ JournalStays /\ EffectsStay
      /\ foreign' = foreign
      /\ write' = [write EXCEPT !.pc = "log"] \/ write' = NoWrite
  BY DEF WriteFails, Verify, JournalStays, EffectsStay
<1>2. write.pc \notin Awaiting /\ write # NoWrite
  BY <1>1, Busy DEF Awaiting
<1>3. foreign \in Nat /\ foreign >= foreign
  BY DEF WriteInv, WriteShape
<1>4. Changes' = Changes /\ Known' = Known /\ TellsInOrder'
  BY <1>1, <1>3, NothingRecorded
<1>5. Cardinality(Changes) = Cardinality(Known)
  BY <1>2 DEF WriteInv, OwesOne
<1>6. CASE write' = NoWrite
  BY <1>1, <1>3, <1>4, <1>5, <1>6, NothingOwed, IdleOwesNothing
     DEF WriteInv, WriteShape, JournalStays, EffectsStay
<1>7. CASE write' = [write EXCEPT !.pc = "log"]
  <2>1. /\ write' = [pc |-> "log", change |-> write.change, for |-> write.for]
        /\ write'.pc = "log" /\ write'.change = write.change /\ write'.for = write.for
    BY <1>2, <1>7, WriteMoves DEF WriteInv
  <2>2. write'.pc \notin Awaiting
    BY <2>1 DEF Awaiting
  <2>3. write' = [pc |-> write'.pc, change |-> write'.change, for |-> write'.for]
    BY <2>1
  <2> QED
    BY <1>1, <1>3, <1>4, <1>5, <2>1, <2>2, <2>3, NothingOwed
       DEF WriteInv, WriteShape, JournalStays, EffectsStay
<1> QED
  BY <1>1, <1>6, <1>7

LEMMA AnotherStep ==
    ASSUME WriteInv, WriteOfAnother
    PROVE  WriteInv'
<1>1. /\ JournalStays /\ EffectsStay /\ foreign' = foreign + 1 /\ write' = write
  BY DEF WriteOfAnother, JournalStays, EffectsStay
<1>2. foreign \in Nat /\ foreign' \in Nat /\ foreign' >= foreign /\ foreign' > 0
  BY <1>1 DEF WriteInv, WriteShape
<1>3. Changes' = Changes /\ Known' = Known /\ TellsInOrder'
  BY <1>1, <1>2, NothingRecorded
<1>4. WriteShape'
  BY <1>1, <1>2 DEF WriteInv, WriteShape, JournalStays, EffectsStay
<1>5. OwesOne'
  BY <1>1, <1>2, <1>3 DEF WriteInv, OwesOne, LastEffect, EffectsStay
<1> QED
  BY <1>3, <1>4, <1>5 DEF WriteInv

(* The entry of a write, by its answer, its copy or its failure.           *)
LEMMA RecordedStep ==
    ASSUME WriteInv, write.pc \in Awaiting, NEW noted,
           journal' = Append(journal, Change(noted)), EffectsStay, foreign' = foreign,
           \/ noted \in {Unknown, LastEffect.version}
           \/ LastEffect.change = "copied" /\ foreign > 0,
           \/ write' = NoWrite
           \/ \E p \in {"verify", "log"} : write' = [write EXCEPT !.pc = p]
    PROVE  WriteInv'
<1>1. /\ Cardinality(Changes') = Cardinality(Known') /\ Known' = Known
      /\ TellsInOrder' /\ IsSequence(journal')
  BY ChangeRecorded
<1>2. write # NoWrite
  BY Busy
<1>3. foreign' \in Nat
  BY DEF WriteInv, WriteShape
<1>4. CASE write' = NoWrite
  BY <1>1, <1>3, <1>4, NothingOwed, IdleOwesNothing
     DEF WriteInv, WriteShape, EffectsStay
<1>5. ASSUME NEW p \in {"verify", "log"}, write' = [write EXCEPT !.pc = p]
      PROVE  WriteInv'
  <2>1. /\ write' = [pc |-> p, change |-> write.change, for |-> write.for]
        /\ write'.pc = p /\ write'.change = write.change /\ write'.for = write.for
    BY <1>2, <1>5, WriteMoves DEF WriteInv
  <2>2. write'.pc \notin Awaiting /\ write'.pc \in {"verify", "log"}
    BY <2>1 DEF Awaiting
  <2>3. write' = [pc |-> write'.pc, change |-> write'.change, for |-> write'.for]
    BY <2>1
  <2> QED
    BY <1>1, <1>3, <2>2, <2>3, NothingOwed DEF WriteInv, WriteShape, EffectsStay
<1> QED
  BY <1>4, <1>5

LEMMA RecordingStep ==
    ASSUME WriteInv, RecordChange \/ RecordCopy \/ diagnose
    PROVE  WriteInv'
<1>1. CASE RecordChange
  BY <1>1, RecordedStep DEF RecordChange, Awaiting, EffectsStay
<1>2. CASE RecordCopy
  <2>1. write.pc = "head" /\ write.pc \in Awaiting
    BY <1>2 DEF RecordCopy, Awaiting
  <2>2. /\ object = LastEffect.version \/ foreign > 0
        /\ LastEffect.change = "copied"
    BY <2>1 DEF WriteInv, OwesOne
  <2>3. PICK noted \in {object, Unknown} : journal' = Append(journal, Change(noted))
    BY <1>2 DEF RecordCopy
  <2>4. EffectsStay /\ foreign' = foreign /\ write' = NoWrite
    BY <1>2 DEF RecordCopy, EffectsStay
  <2> QED
    BY <2>1, <2>2, <2>3, <2>4, RecordedStep
<1>3. CASE diagnose
  <2>1. write.pc \in Awaiting
    BY <1>3 DEF diagnose, Awaiting
  <2>2. PICK noted \in {LastEffect.version, Unknown} :
              journal' = Append(journal, Change(noted))
    BY <1>3 DEF diagnose
  <2>3. /\ EffectsStay /\ foreign' = foreign
        /\ write' = [write EXCEPT !.pc = "log"]
    BY <1>3 DEF diagnose, EffectsStay
  <2> QED
    BY <2>1, <2>2, <2>3, RecordedStep
<1> QED
  BY <1>1, <1>2, <1>3

LEMMA LogStep ==
    ASSUME WriteInv, logDiagnostic
    PROVE  WriteInv'
<1>1. /\ write.pc = "log" /\ journal' = Append(journal, Diagnostic) /\ EffectsStay
      /\ foreign' = foreign /\ write' = NoWrite
  BY DEF logDiagnostic, EffectsStay
<1>2. Changes' = Changes /\ Known' = Known /\ TellsInOrder' /\ IsSequence(journal')
  BY <1>1, DiagnosticRecorded
<1>3. Cardinality(Changes) = Cardinality(Known)
  BY <1>1 DEF WriteInv, OwesOne, Awaiting
<1> QED
  BY <1>1, <1>2, <1>3, NothingOwed, IdleOwesNothing DEF WriteInv, WriteShape, EffectsStay

LEMMA ForgottenStep ==
    ASSUME WriteInv, write.pc \in Awaiting, NEW fate, Forgets(fate),
           fate \notin {"answered", "reported"}, JournalStays, foreign' = foreign,
           write' = NoWrite
    PROVE  WriteInv'
BY AnswerForgotten, NothingOwed, IdleOwesNothing DEF WriteInv, WriteShape, JournalStays

LEMMA InterruptStep ==
    ASSUME WriteInv, Interrupt
    PROVE  WriteInv'
<1>1. write' = NoWrite /\ foreign' = foreign /\ foreign \in Nat
  BY DEF Interrupt, WriteInv, WriteShape
<1>2. CASE Apply("interrupted") /\ JournalStays
  <2>1. write.pc \notin Awaiting
    BY <1>2 DEF Apply, Awaiting
  <2> QED
    BY <1>1, <1>2, <2>1, EffectMade, NothingOwed, IdleOwesNothing
       DEF WriteInv, WriteShape, JournalStays
<1>3. CASE write.pc \in {"request", "verify", "log"} /\ JournalStays /\ EffectsStay
  <2>1. write.pc \notin Awaiting
    BY <1>3 DEF Awaiting
  <2>2. Cardinality(Changes) = Cardinality(Known)
    BY <2>1 DEF WriteInv, OwesOne
  <2>3. foreign >= foreign
    BY <1>1
  <2>4. Changes' = Changes /\ Known' = Known /\ TellsInOrder'
    BY <1>1, <1>3, <2>3, NothingRecorded
  <2> QED
    BY <1>1, <1>3, <2>2, <2>4, NothingOwed, IdleOwesNothing
       DEF WriteInv, WriteShape, JournalStays, EffectsStay
<1>4. CASE write.pc \in {"record", "diagnose"} /\ Forgets("interrupted") /\ JournalStays
  BY <1>1, <1>4, ForgottenStep DEF Awaiting
<1>5. CASE write.pc = "head" /\ journal' = Append(journal, Change(Unknown)) /\ EffectsStay
  BY <1>1, <1>5, RecordedStep DEF Awaiting
<1> QED
  BY <1>2, <1>3, <1>4, <1>5 DEF Interrupt, JournalStays, EffectsStay

LEMMA WriteStep == WriteInv /\ [WriteNext]_writeVars => WriteInv'
<1> SUFFICES ASSUME WriteInv, [WriteNext]_writeVars
             PROVE  WriteInv'
  OBVIOUS
<1>1. CASE RecordRefused
  BY <1>1, ForgottenStep DEF RecordRefused, Awaiting, JournalStays
<1>2. CASE UNCHANGED writeVars
  <2>1. foreign \in Nat /\ foreign' >= foreign /\ JournalStays /\ EffectsStay
          /\ foreign' = foreign /\ write' = write /\ object' = object
    BY <1>2 DEF WriteInv, WriteShape, writeVars, JournalStays, EffectsStay
  <2>2. Changes' = Changes /\ Known' = Known /\ TellsInOrder'
    BY <2>1, NothingRecorded
  <2> QED
    BY <2>1, <2>2 DEF WriteInv, WriteShape, OwesOne, LastEffect, JournalStays, EffectsStay
<1> QED
  BY <1>1, <1>2, CallsStep, AppliedStep, FailedStep, AnotherStep, RecordingStep, LogStep,
     InterruptStep DEF WriteNext

(***************************************************************************)
(* What a rollback has to go by: the changes in the journal are, in order  *)
(* and each once, the writes the destination answered for or reported.     *)
(***************************************************************************)
THEOREM JournalsTellTheWrites == WriteSpec => []JournalTellsWrites
<1>1. WriteInit => WriteInv
  <2> SUFFICES ASSUME WriteInit PROVE WriteInv
    OBVIOUS
  <2>1. journal = <<>> /\ effects = <<>> /\ write = NoWrite /\ foreign = 0
    BY DEF WriteInit
  <2>2. Changes = {} /\ Known = {}
    BY <2>1 DEF Changes, Known
  <2>3. IsSequence(<<>>)
    <3>1. <<>> \in Seq({})
      OBVIOUS
    <3> QED
      BY <3>1 DEF IsSequence
  <2>4. WriteShape
    BY <2>1, <2>3 DEF WriteShape
  <2>5. OwesOne
    BY <2>1, <2>2, IdleOwesNothing DEF OwesOne
  <2>6. TellsInOrder
    BY <2>2 DEF TellsInOrder
  <2> QED
    BY <2>4, <2>5, <2>6 DEF WriteInv
<1>2. WriteInv => JournalTellsWrites
  <2> SUFFICES ASSUME WriteInv PROVE JournalTellsWrites
    OBVIOUS
  <2>1. Cardinality(Changes) \in Nat /\ Cardinality(Known) \in Nat
    BY JournalFacts DEF WriteInv
  <2>2. \/ Cardinality(Changes) + 1 = Cardinality(Known)
        \/ Cardinality(Changes) = Cardinality(Known)
    BY DEF WriteInv, OwesOne
  <2>3. Cardinality(Changes) <= Cardinality(Known)
    BY <2>1, <2>2
  <2>4. write = NoWrite => Cardinality(Changes) = Cardinality(Known)
    BY IdleOwesNothing DEF WriteInv, OwesOne
  <2> QED
    BY <2>3, <2>4 DEF WriteInv, TellsInOrder, TellsOf, JournalTellsWrites
<1> QED
  BY <1>1, <1>2, WriteStep, PTL DEF WriteSpec

-----------------------------------------------------------------------------
(***************************************************************************)
(* Product Draft imports.  Whatever is unfinished at the provider and was  *)
(* not abandoned keeps its product from being sent again: its id is held   *)
(* by the product's journal, or is among what the call that sent it still  *)
(* has to settle (Kept).  Around it stand the shapes of what a call knows  *)
(* at each phase.                                                          *)
(***************************************************************************)

Operation ==
  [product : Product, state : {"processing", "imported", "failed"}]

\* The ids name exactly one operation of the product.
OwnAmong(ops, p, ids) ==
  \E w \in ids : /\ ops[w].product = p
                 /\ \A i \in ids : ops[i].product = p => i = w

\* A candidate set that can be resumed: of one product alone, one id.
Candidates(ops, p, ids, group) ==
  /\ ids \subseteq DOMAIN ops
  /\ p \in group
  /\ OwnAmong(ops, p, ids)
  /\ group = {p} => \E i \in ids : ids = {i}

IsAwaited(value) == value.state \in {"processing", "pollFailed"}

\* What a journal or an outcome says of the product's operation is so.
Sound(ops, p, value) ==
  /\ value.state \in {"processing", "imported", "failed"} =>
       \E id \in DOMAIN ops : value.ids = {id} /\ ops[id].product = p
  /\ value.state = "pollFailed" => Candidates(ops, p, value.ids, value.group)

\* A value that keeps the product from being sent while x may run.
Holds(value, x) ==
  \/ IsAwaited(value) /\ x \in value.ids
  \/ value.state = "submissionFailed" /\ value.acceptance = "unknown"

\* What may still run at the provider and was not abandoned.
Unfinished ==
  {x \in DOMAIN operations : isPendingState(operations[x].state)}
    \ (forgotten \cup mistaken)

ImportShape ==
  /\ operations \in Seq(Operation)
  /\ journals = [p \in Product |-> journals[p]]
  /\ batch = [phase |-> batch.phase, items |-> batch.items,
              chunks |-> batch.chunks, poll |-> batch.poll,
              outcomes |-> batch.outcomes, created |-> batch.created]
  /\ batch.items \subseteq Product
  /\ batch.created \subseteq DOMAIN operations
  /\ batch.chunks \in Seq(SUBSET Product)
  /\ batch.poll = [ids |-> batch.poll.ids, keys |-> batch.poll.keys,
                   idsOf |-> batch.poll.idsOf, keysOf |-> batch.poll.keysOf,
                   seen |-> batch.poll.seen]

\* A call knows nothing before it resumes, and has no chunks to send and
\* nothing to poll once it is past that.
PhaseShape ==
  /\ batch.phase \in {"idle", "create", "resume"} =>
       /\ batch.chunks = <<>> /\ batch.poll = NoPoll
       /\ batch.outcomes = NoFunction /\ batch.created = {}
  /\ batch.phase \in {"poll", "settle"} => batch.chunks = <<>>
  /\ batch.phase = "settle" => batch.poll.keys = {}

JournalsSound == \A p \in Product : Sound(operations, p, journals[p])

OutcomesSound ==
  /\ DOMAIN batch.outcomes \subseteq Product
  /\ \A p \in DOMAIN batch.outcomes : Sound(operations, p, batch.outcomes[p])

\* What a poll has seen of an operation that still runs is that it runs.
PollShape ==
  /\ batch.poll.ids \subseteq DOMAIN operations
  /\ batch.poll.keys \subseteq Product
  /\ DOMAIN batch.poll.idsOf = batch.poll.keys
  /\ DOMAIN batch.poll.keysOf = batch.poll.ids
  /\ DOMAIN batch.poll.seen \subseteq batch.poll.ids
  /\ \A id \in DOMAIN batch.poll.seen :
       /\ batch.poll.seen[id] \in {"processing", "imported", "failed"}
       /\ isPendingState(operations[id].state) => batch.poll.seen[id] = "processing"

\* The two correlations of a poll, of products with ids and of ids with
\* products, agree, and each product has one operation among its ids.
PollSound ==
  /\ \A p \in batch.poll.keys :
       /\ batch.poll.idsOf[p] \subseteq batch.poll.ids
       /\ OwnAmong(operations, p, batch.poll.idsOf[p])
       /\ \A e \in batch.poll.idsOf[p] : p \in batch.poll.keysOf[e]
  /\ \A e \in batch.poll.ids, p \in Product : batch.poll.keysOf[e] = {p} =>
       p \in batch.poll.keys /\ batch.poll.idsOf[p] = {e}

\* An awaiting poll has its ids from the journals; a poll of what was
\* submitted has every id with its product.
PollPhase ==
  /\ batch.phase = "await" => \A p \in batch.poll.keys :
       IsAwaited(journals[p]) /\ batch.poll.idsOf[p] = journals[p].ids
  /\ batch.phase # "await" => \A i \in batch.poll.ids :
       /\ operations[i].product \in batch.poll.keys
       /\ i \in batch.poll.idsOf[operations[i].product]

\* What is still to be sent is in one chunk, and nothing else is under way
\* for it in this call.
ChunksFresh ==
  /\ \A k \in DOMAIN batch.chunks : \A p \in batch.chunks[k] :
       /\ resumeFromExtensionValue(journals[p]) = "submit"
       /\ p \notin batch.poll.keys
       /\ p \notin DOMAIN batch.outcomes
       /\ \A x \in batch.created : operations[x].product # p
  /\ \A k, l \in DOMAIN batch.chunks : k # l =>
       batch.chunks[k] \cap batch.chunks[l] = {}

\* The call or the journals js keep the unfinished operation x of p.
KeptIn(call, js, p, x) ==
  /\ x \in call.created \/ Holds(js[p], x)
  /\ p \in DOMAIN call.outcomes =>
       Holds(call.outcomes[p], x) \/ x \in GivenUp(js[p], call.outcomes[p])
  /\ p \in call.poll.keys => x \in call.poll.idsOf[p]
  /\ x \in call.created /\ p \notin DOMAIN call.outcomes => p \in call.poll.keys

Kept(x) == KeptIn(batch, journals, operations[x].product, x)

AllKept == \A x \in Unfinished : Kept(x)

NoRivals == RivalsOnlyOf(forgotten \cup mistaken)

ImportInv ==
  /\ ImportShape /\ PhaseShape
  /\ JournalsSound /\ OutcomesSound
  /\ PollShape /\ PollSound /\ PollPhase
  /\ ChunksFresh /\ AllKept /\ NoRivals

-----------------------------------------------------------------------------
(* A chunk of products is sent in the order of their numbers.              *)
LEMMA ChunksAreRanked ==
    \A chunk \in SUBSET Product : chunk \in SUBSET Nat /\ IsFiniteSet(chunk)
BY ProductAssumption, FS_Subset

(* Sent products: one new operation each, the old ones stay.               *)

Enlarged(chunk) ==
  /\ operations' \in Seq(Operation)
  /\ DOMAIN operations' = DOMAIN operations \cup NewIds(chunk)
  /\ NewIds(chunk) \cap DOMAIN operations = {}
  /\ \A id \in DOMAIN operations : operations'[id] = operations[id]
  /\ \A p \in chunk : \E id \in NewIds(chunk) : operations'[id].product = p
  /\ \A id \in NewIds(chunk) : operations'[id].product \in chunk
  /\ \A id, other \in NewIds(chunk) :
       operations'[id].product = operations'[other].product => id = other
  /\ \A id \in DOMAIN operations, other \in NewIds(chunk) : id < other

LEMMA Created ==
    ASSUME operations \in Seq(Operation), NEW chunk \in SUBSET Product, Creates(chunk)
    PROVE  Enlarged(chunk)
<1> DEFINE n == Cardinality(chunk)
           l == Len(operations)
           At(i) == CHOOSE q \in chunk : Cardinality({r \in chunk : r < q}) = i - 1
<1>1. PICK first \in [chunk -> {"processing", "failed"}] :
        operations' = operations \o
          [i \in 1..n |-> [product |-> At(i), state |-> first[At(i)]]]
  BY Zenon DEF Creates
<1>2. n \in Nat /\ l \in Nat /\ DOMAIN operations = 1..l
  BY BeforeIsRank, ChunksAreRanked
<1>3. \A i \in 1..n : At(i) \in chunk /\ Cardinality(Before(At(i), chunk)) = i - 1
  BY RanksAreCovered, ChunksAreRanked DEF Before
<1> HIDE DEF At
<1> DEFINE new == [i \in 1..n |-> [product |-> At(i), state |-> first[At(i)]]]
<1>4. new \in Seq(Operation) /\ Len(new) = n
  <2>1. \A i \in 1..n : new[i] \in Operation
    BY <1>3 DEF Operation
  <2>2. new \in [1..n -> Operation]
    BY <2>1
  <2> QED
    BY <1>2, <2>2
<1>5. \A i \in 1..n : new[i].product = At(i)
  OBVIOUS
<1>6. operations' = operations \o new
  BY <1>1
<1> HIDE DEF new, n, l
<1>7. /\ operations' \in Seq(Operation) /\ Len(operations') = l + n
      /\ DOMAIN operations' = 1..(l + n)
      /\ \A i \in 1..l : operations'[i] = operations[i]
      /\ \A i \in 1..n : operations'[l + i] = new[i]
  <2>1. operations' \in Seq(Operation) /\ Len(operations') = l + n
    <3>1. operations \in Seq(Operation) /\ Len(operations) = l
      BY DEF l
    <3> QED
      BY <1>4, <1>6, <3>1
  <2>2. \A i \in 1..(Len(operations) + Len(new)) : operations'[i] =
          IF i <= Len(operations) THEN operations[i] ELSE new[i - Len(operations)]
    BY <1>4, <1>6
  <2>3. \A i \in 1..l : i \in 1..(l + n) /\ i <= l
    BY <1>2
  <2>4. \A i \in 1..n : l + i \in 1..(l + n) /\ ~(l + i <= l) /\ l + i - l = i
    BY <1>2
  <2>5. Len(operations) = l
    BY DEF l
  <2>6. \A i \in 1..l : operations'[i] = operations[i]
    BY <1>4, <2>2, <2>3, <2>5
  <2>7. \A i \in 1..n : operations'[l + i] = new[i]
    BY <1>4, <2>2, <2>4, <2>5
  <2> QED
    BY <2>1, <2>6, <2>7
<1>8. NewIds(chunk) = (l + 1)..(l + n)
  BY DEF NewIds, n, l
<1>9. \A id \in NewIds(chunk) : id - l \in 1..n /\ operations'[id].product = At(id - l)
  <2> SUFFICES ASSUME NEW id \in NewIds(chunk)
               PROVE  id - l \in 1..n /\ operations'[id].product = At(id - l)
    OBVIOUS
  <2>1. id - l \in 1..n /\ l + (id - l) = id
    BY <1>2, <1>8
  <2>2. operations'[id] = new[id - l]
    BY <1>7, <2>1
  <2> QED
    BY <1>5, <2>1, <2>2
<1>10. ASSUME NEW p \in chunk
       PROVE  \E id \in NewIds(chunk) : operations'[id].product = p
  <2> DEFINE i == Cardinality(Before(p, chunk)) + 1
  <2>1. i \in 1..n /\ i - 1 = Cardinality(Before(p, chunk))
    <3>1. /\ Cardinality(Before(p, chunk)) \in Nat
          /\ Cardinality(Before(p, chunk)) < Cardinality(chunk)
      BY BeforeIsRank, ChunksAreRanked
    <3> QED
      BY <1>2, <3>1 DEF n
  <2>2. At(i) \in chunk /\ Cardinality(Before(At(i), chunk)) = i - 1
    BY <1>3, <2>1
  <2>3. At(i) = p
    BY <2>1, <2>2, RankDistinguishes, ChunksAreRanked
  <2> HIDE DEF i
  <2>4. l + i \in NewIds(chunk)
    BY <1>2, <1>8, <2>1
  <2>5. (l + i) - l = i
    BY <1>2, <2>1
  <2>6. operations'[l + i].product = p
    BY <1>9, <2>3, <2>4, <2>5
  <2> QED
    BY <2>4, <2>6
<1>11. ASSUME NEW id \in NewIds(chunk), NEW other \in NewIds(chunk),
              operations'[id].product = operations'[other].product
       PROVE  id = other
  <2>1. At(id - l) = At(other - l) /\ id - l \in 1..n /\ other - l \in 1..n
    BY <1>9, <1>11
  <2>2. (id - l) - 1 = (other - l) - 1
    BY <1>3, <2>1
  <2> QED
    BY <1>2, <1>8, <2>2
<1>12. /\ DOMAIN operations' = DOMAIN operations \cup NewIds(chunk)
       /\ NewIds(chunk) \cap DOMAIN operations = {}
       /\ \A id \in DOMAIN operations, other \in NewIds(chunk) : id < other
  BY <1>2, <1>7, <1>8
<1>13. \A id \in NewIds(chunk) : operations'[id].product \in chunk
  BY <1>3, <1>9
<1>14. \A id \in DOMAIN operations : operations'[id] = operations[id]
  BY <1>2, <1>7
<1> QED
  BY <1>7, <1>10, <1>11, <1>12, <1>13, <1>14 DEF Enlarged

-----------------------------------------------------------------------------
(* What is said of operations stays true when others join them and when    *)
(* they end.                                                               *)
Continued(ops, more) ==
  /\ DOMAIN ops \subseteq DOMAIN more
  /\ \A id \in DOMAIN ops : more[id].product = ops[id].product

LEMMA SoundContinued ==
    ASSUME NEW ops, NEW more, Continued(ops, more)
    PROVE  /\ \A p, ids : ids \subseteq DOMAIN ops /\ OwnAmong(ops, p, ids) =>
                OwnAmong(more, p, ids)
           /\ \A p, value : Sound(ops, p, value) => Sound(more, p, value)
<1>1. ASSUME NEW p, NEW ids, ids \subseteq DOMAIN ops, OwnAmong(ops, p, ids)
      PROVE  OwnAmong(more, p, ids)
  BY <1>1 DEF OwnAmong, Continued
<1>2. ASSUME NEW p, NEW value, Sound(ops, p, value)
      PROVE  Sound(more, p, value)
  <2>1. value.state \in {"processing", "imported", "failed"} =>
          \E id \in DOMAIN more : value.ids = {id} /\ more[id].product = p
    BY <1>2 DEF Sound, Continued
  <2>2. value.state = "pollFailed" => Candidates(more, p, value.ids, value.group)
    BY <1>1, <1>2 DEF Sound, Candidates, Continued
  <2> QED
    BY <2>1, <2>2 DEF Sound
<1> QED
  BY <1>1, <1>2

LEMMA EmptyFacts ==
    /\ DOMAIN NoFunction = {}
    /\ NoPoll.ids = {} /\ NoPoll.keys = {} /\ NoPoll.seen = NoFunction
    /\ NoPoll.idsOf = NoFunction /\ NoPoll.keysOf = NoFunction
    /\ NoPoll = [ids |-> NoPoll.ids, keys |-> NoPoll.keys, idsOf |-> NoPoll.idsOf,
                 keysOf |-> NoPoll.keysOf, seen |-> NoPoll.seen]
BY DEF NoFunction, NoPoll

(* A call that has done nothing yet, or is no more.                        *)
Untouched(turn, items) ==
  [phase |-> turn, items |-> items, chunks |-> <<>>, poll |-> NoPoll,
   outcomes |-> NoFunction, created |-> {}]

LEMMA EmptyBatchStep ==
    ASSUME ImportInv, NEW turn \in {"idle", "create", "resume"},
           NEW items \in SUBSET Product,
           batch' = Untouched(turn, items),
           UNCHANGED <<operations, journals, mistaken>>,
           batch.created \subseteq forgotten', forgotten \subseteq forgotten'
    PROVE  ImportInv'
<1>1. /\ batch' = [phase |-> turn, items |-> items, chunks |-> <<>>, poll |-> NoPoll,
                   outcomes |-> NoFunction, created |-> {}]
      /\ batch'.phase = turn /\ batch'.items = items /\ batch'.chunks = <<>>
      /\ batch'.poll = NoPoll /\ batch'.outcomes = NoFunction /\ batch'.created = {}
  BY DEF Untouched
<1>2. ImportShape'
  <2>1. <<>> \in Seq(SUBSET Product)
    OBVIOUS
  <2> QED
    BY <1>1, <2>1, EmptyFacts DEF ImportInv, ImportShape
<1>3. PhaseShape'
  BY <1>1 DEF PhaseShape
<1>4. JournalsSound'
  BY DEF ImportInv, JournalsSound, Sound, Candidates, OwnAmong
<1>5. OutcomesSound'
  BY <1>1, EmptyFacts DEF OutcomesSound
<1>6. PollShape'
  BY <1>1, EmptyFacts DEF PollShape
<1>7. PollSound' /\ PollPhase'
  BY <1>1, EmptyFacts DEF PollSound, PollPhase
<1>8. ChunksFresh'
  BY <1>1 DEF ChunksFresh
<1>9. AllKept'
  <2> SUFFICES ASSUME NEW x \in Unfinished' PROVE Kept(x)'
    BY DEF AllKept
  <2>1. x \in Unfinished /\ x \notin batch.created
    BY DEF Unfinished
  <2>2. Holds(journals[operations[x].product], x)
    BY <2>1 DEF ImportInv, AllKept, Kept, KeptIn
  <2> QED
    BY <1>1, <2>2, EmptyFacts DEF Kept, KeptIn, Holds, IsAwaited
<1>10. NoRivals'
  BY DEF ImportInv, NoRivals, RivalsOnlyOf
<1> QED
  BY <1>2, <1>3, <1>4, <1>5, <1>6, <1>7, <1>8, <1>9, <1>10 DEF ImportInv

LEMMA BreakStep ==
    ASSUME ImportInv, BreaksOff
    PROVE  ImportInv'
<1>1. NoBatch = Untouched("idle", {})
  BY DEF NoBatch, Untouched
<1> QED
  BY <1>1, EmptyBatchStep DEF BreaksOff

LEMMA UntouchedStep ==
    ASSUME ImportInv, UNCHANGED <<operations, journals, batch, forgotten, mistaken>>
    PROVE  ImportInv'
<1>1. ImportShape' /\ PhaseShape'
  BY DEF ImportInv, ImportShape, PhaseShape
<1>2. JournalsSound' /\ OutcomesSound'
  BY DEF ImportInv, JournalsSound, OutcomesSound, Sound, Candidates, OwnAmong
<1>3. PollShape' /\ PollSound' /\ PollPhase'
  BY DEF ImportInv, PollShape, PollSound, PollPhase, OwnAmong
<1>4. ChunksFresh'
  BY DEF ImportInv, ChunksFresh
<1>5. AllKept' /\ NoRivals'
  BY DEF ImportInv, AllKept, Kept, KeptIn, Holds, IsAwaited, GivenUp, Unfinished, NoRivals,
         RivalsOnlyOf
<1> QED
  BY <1>1, <1>2, <1>3, <1>4, <1>5 DEF ImportInv

LEMMA ContainerStep ==
    ASSUME ImportInv, ensure \/ create \/ SomeoneCreates
    PROVE  ImportInv'
<1>1. CASE ensure
  <2>1. batch.created = {}
    BY <1>1 DEF ensure, ImportInv, PhaseShape
  <2>2. PICK items \in (SUBSET Product) \ {{}} :
          batch' = CASE container = "absent" ->
                          [NoBatch EXCEPT !.phase = "create", !.items = items]
                     [] container = "fits" ->
                          [NoBatch EXCEPT !.phase = "resume", !.items = items]
                     [] OTHER -> NoBatch
    BY <1>1 DEF ensure
  <2>3. NoBatch = Untouched("idle", {})
    BY DEF NoBatch, Untouched
  <2>4. ASSUME NEW turn, batch' = [NoBatch EXCEPT !.phase = turn, !.items = items]
        PROVE  batch' = Untouched(turn, items)
    BY <2>4 DEF NoBatch, Untouched
  <2>5. \E turn \in {"idle", "create", "resume"}, is \in SUBSET Product :
          batch' = Untouched(turn, is)
    <3>1. CASE container = "absent"
      BY <2>2, <2>4, <3>1
    <3>2. CASE container = "fits"
      BY <2>2, <2>4, <3>2
    <3>3. CASE container \notin {"absent", "fits"}
      BY <2>2, <2>3, <3>3
    <3> QED
      BY <3>1, <3>2, <3>3
  <2> QED
    BY <1>1, <2>1, <2>5, EmptyBatchStep DEF ensure
<1>2. CASE create
  <2>1. batch.created = {}
    BY <1>2 DEF create, ImportInv, PhaseShape
  <2>2. batch.phase = "create" /\ batch.items \in SUBSET Product
        /\ UNCHANGED <<operations, journals, mistaken, forgotten>>
    BY <1>2 DEF create, ImportInv, ImportShape
  <2>3. CASE batch' = [batch EXCEPT !.phase = "resume"]
    <3>1. batch = Untouched("create", batch.items)
      BY <2>2 DEF ImportInv, ImportShape, PhaseShape, Untouched
    <3> DEFINE items == batch.items
    <3> HIDE DEF items
    <3>2. batch = Untouched("create", items)
      BY <3>1 DEF items
    <3>3. batch' = Untouched("resume", items)
      BY <2>3, <3>2 DEF Untouched
    <3>4. items \in SUBSET Product
      BY <2>2 DEF items
    <3> QED
      BY <2>1, <2>2, <3>3, <3>4, EmptyBatchStep
  <2>4. CASE batch' = NoBatch
    <3>1. batch' = Untouched("idle", {})
      BY <2>4 DEF NoBatch, Untouched
    <3> QED
      BY <2>1, <2>2, <3>1, EmptyBatchStep
  <2> QED
    BY <1>2, <2>3, <2>4 DEF create
<1>3. CASE SomeoneCreates
  BY <1>3, UntouchedStep DEF SomeoneCreates
<1> QED
  BY <1>1, <1>2, <1>3

-----------------------------------------------------------------------------
LEMMA ChunksOf ==
    ASSUME NEW fresh \in SUBSET Product, NEW size \in 1..ChunkLimit
    PROVE  /\ chunkResources(fresh, size) \in Seq(SUBSET Product)
           /\ \A k \in DOMAIN chunkResources(fresh, size) :
                chunkResources(fresh, size)[k] \subseteq fresh
           /\ \A k, l \in DOMAIN chunkResources(fresh, size) : k # l =>
                chunkResources(fresh, size)[k] \cap chunkResources(fresh, size)[l] = {}
<1> DEFINE count == (Cardinality(fresh) + size - 1) \div size
           Rank(p) == Cardinality({q \in fresh : q < p})
           Chunk(k) == {p \in fresh : Rank(p) \div size = k - 1}
<1>1. count \in Nat
  <2>1. Cardinality(fresh) \in Nat /\ size \in Nat /\ size > 0
    BY BeforeIsRank, ChunksAreRanked, ChunkLimitAssumption
  <2> QED
    BY <2>1
<1>2. chunkResources(fresh, size) = [k \in 1..count |-> Chunk(k)]
  BY DEF chunkResources
<1> HIDE DEF count
<1>3. \A k \in 1..count : Chunk(k) \in SUBSET fresh
  OBVIOUS
<1>4. \A k, l \in 1..count : k # l => Chunk(k) \cap Chunk(l) = {}
  OBVIOUS
<1> HIDE DEF Chunk
<1>5. \A k \in 1..count : Chunk(k) \in SUBSET Product
  BY <1>3
<1> QED
  BY <1>1, <1>2, <1>3, <1>4, <1>5

LEMMA AwaitedCandidates ==
    ASSUME NEW p \in Product, Sound(operations, p, journals[p]),
           resumeFromExtensionValue(journals[p]) = "await"
    PROVE  /\ IsAwaited(journals[p])
           /\ Candidates(operations, p, journals[p].ids, CandidateGroup(p))
<1>1. IsAwaited(journals[p])
  BY DEF resumeFromExtensionValue, IsAwaited
<1>2. CASE journals[p].state = "pollFailed"
  BY <1>1, <1>2 DEF Sound, CandidateGroup
<1>3. CASE journals[p].state = "processing"
  <2>1. PICK id \in DOMAIN operations : journals[p].ids = {id} /\ operations[id].product = p
    BY <1>3 DEF Sound
  <2> QED
    BY <1>1, <1>3, <2>1 DEF Candidates, OwnAmong, CandidateGroup
<1> QED
  BY <1>1, <1>2, <1>3 DEF IsAwaited

LEMMA ResumeStep ==
    ASSUME ImportInv, resumeFromJournal
    PROVE  ImportInv'
<1> DEFINE Resuming(kind) ==
      {p \in batch.items : resumeFromExtensionValue(journals[p]) = kind}
<1>1. /\ batch.phase = "resume" /\ batch.created = {}
      /\ UNCHANGED <<operations, journals, forgotten, mistaken>>
  BY DEF resumeFromJournal, ImportInv, PhaseShape
<1>2. PICK size \in 1..ChunkLimit : batch' = [batch EXCEPT
             !.phase = IF Resuming("await") = {} THEN "submit" ELSE "await",
             !.poll = validateAwaitInput(Resuming("await")),
             !.chunks = chunkResources(Resuming("submit"), size),
             !.outcomes = [p \in Resuming("blocked") |-> journals[p]]]
  BY Zenon DEF resumeFromJournal
<1> DEFINE awaited == Resuming("await")
           fresh == Resuming("submit")
           blocked == Resuming("blocked")
           chunks == chunkResources(fresh, size)
           poll == validateAwaitInput(awaited)
           turn == IF awaited = {} THEN "submit" ELSE "await"
           outcomes == [p \in blocked |-> journals[p]]
<1>3. /\ awaited \subseteq Product /\ fresh \subseteq Product /\ blocked \subseteq Product
      /\ \A p \in awaited : resumeFromExtensionValue(journals[p]) = "await"
      /\ \A p \in fresh : resumeFromExtensionValue(journals[p]) = "submit"
      /\ \A p \in blocked : resumeFromExtensionValue(journals[p]) = "blocked"
  BY DEF ImportInv, ImportShape
<1>4. batch' = [batch EXCEPT !.phase = turn, !.poll = poll, !.chunks = chunks,
                             !.outcomes = outcomes]
  BY <1>2
<1> HIDE DEF turn, poll, chunks, outcomes, awaited, fresh, blocked
<1>5. /\ batch' = [phase |-> turn, items |-> batch.items, chunks |-> chunks,
                   poll |-> poll, outcomes |-> outcomes, created |-> batch.created]
      /\ batch'.phase = turn /\ batch'.items = batch.items /\ batch'.chunks = chunks
      /\ batch'.poll = poll /\ batch'.outcomes = outcomes /\ batch'.created = {}
  BY <1>1, <1>4 DEF ImportInv, ImportShape
<1>6. \A p \in awaited : /\ IsAwaited(journals[p])
                        /\ Candidates(operations, p, journals[p].ids, CandidateGroup(p))
  BY <1>3, AwaitedCandidates DEF ImportInv, JournalsSound
<1>7. /\ poll = [ids |-> poll.ids, keys |-> poll.keys, idsOf |-> poll.idsOf,
                 keysOf |-> poll.keysOf, seen |-> poll.seen]
      /\ poll.ids = UNION {journals[p].ids : p \in awaited} /\ poll.keys = awaited
      /\ poll.idsOf = [p \in awaited |-> journals[p].ids]
      /\ poll.keysOf = [id \in poll.ids |-> UNION {CandidateGroup(p) :
                          p \in {q \in awaited : id \in journals[q].ids}}]
      /\ poll.seen = NoFunction
  BY DEF poll, validateAwaitInput
<1>8. turn \in {"submit", "await"} /\ (turn # "await" => awaited = {})
  BY DEF turn
<1>9. /\ chunks \in Seq(SUBSET Product)
      /\ \A k \in DOMAIN chunks : chunks[k] \subseteq fresh
      /\ \A k, l \in DOMAIN chunks : k # l => chunks[k] \cap chunks[l] = {}
  BY <1>3, ChunksOf DEF chunks
<1>10. DOMAIN outcomes = blocked /\ \A p \in blocked : outcomes[p] = journals[p]
  BY DEF outcomes
<1>11. ImportShape'
  BY <1>1, <1>5, <1>7, <1>9 DEF ImportInv, ImportShape
<1>12. PhaseShape'
  BY <1>5, <1>8 DEF PhaseShape
<1>13. JournalsSound'
  BY <1>1 DEF ImportInv, JournalsSound, Sound, Candidates, OwnAmong
<1>14. OutcomesSound'
  BY <1>1, <1>3, <1>5, <1>10
     DEF ImportInv, JournalsSound, OutcomesSound, Sound, Candidates, OwnAmong
<1>15. PollShape'
  <2>1. poll.ids \subseteq DOMAIN operations
    BY <1>6, <1>7 DEF Candidates
  <2> QED
    BY <1>1, <1>3, <1>5, <1>7, <2>1, EmptyFacts DEF PollShape
<1>16. PollSound'
  <2>1. ASSUME NEW p \in awaited
        PROVE  /\ poll.idsOf[p] \subseteq poll.ids
               /\ OwnAmong(operations, p, poll.idsOf[p])
               /\ \A e \in poll.idsOf[p] : p \in poll.keysOf[e]
    <3>1. poll.idsOf[p] = journals[p].ids /\ journals[p].ids \subseteq poll.ids
      BY <1>7
    <3>2. OwnAmong(operations, p, journals[p].ids) /\ p \in CandidateGroup(p)
      BY <1>6 DEF Candidates
    <3>3. \A e \in journals[p].ids : p \in poll.keysOf[e]
      BY <1>7, <3>1, <3>2
    <3> QED
      BY <3>1, <3>2, <3>3
  <2>2. ASSUME NEW e \in poll.ids, NEW p \in Product, poll.keysOf[e] = {p}
        PROVE  p \in awaited /\ poll.idsOf[p] = {e}
    <3>1. PICK q \in awaited : e \in journals[q].ids
      BY <1>7
    <3>2. CandidateGroup(q) \subseteq poll.keysOf[e]
      BY <1>7, <3>1
    <3>3. q \in CandidateGroup(q)
      BY <1>6 DEF Candidates
    <3>4. q = p /\ CandidateGroup(q) = {p}
      BY <2>2, <3>2, <3>3
    <3>5. \E i \in journals[p].ids : journals[p].ids = {i}
      BY <1>6, <3>4 DEF Candidates
    <3> QED
      BY <1>7, <3>1, <3>4, <3>5
  <2>3. batch'.poll = poll /\ poll.keys = awaited /\ operations' = operations
    BY <1>1, <1>5, <1>7
  <2>4. \A p \in batch'.poll.keys :
          /\ batch'.poll.idsOf[p] \subseteq batch'.poll.ids
          /\ \E w \in batch'.poll.idsOf[p] :
               /\ operations'[w].product = p
               /\ \A i \in batch'.poll.idsOf[p] : operations'[i].product = p => i = w
          /\ \A e \in batch'.poll.idsOf[p] : p \in batch'.poll.keysOf[e]
    BY <2>1, <2>3 DEF OwnAmong
  <2>5. \A e \in batch'.poll.ids, p \in Product : batch'.poll.keysOf[e] = {p} =>
          p \in batch'.poll.keys /\ batch'.poll.idsOf[p] = {e}
    BY <2>2, <2>3
  <2> QED
    BY <2>4, <2>5, Zenon DEF PollSound, OwnAmong
<1>17. PollPhase'
  <2>1. \A p \in awaited : IsAwaited(journals[p]) /\ poll.idsOf[p] = journals[p].ids
    BY <1>6, <1>7
  <2>2. turn # "await" => poll.ids = {}
    BY <1>7, <1>8
  <2> QED
    BY <1>1, <1>5, <1>7, <2>1, <2>2 DEF PollPhase, IsAwaited
<1>18. ChunksFresh'
  <2>1. \A p \in fresh : p \notin awaited /\ p \notin blocked
    BY <1>3
  <2>2. \A k \in DOMAIN chunks : \A p \in chunks[k] : p \in fresh
    BY <1>9
  <2> QED
    BY <1>1, <1>3, <1>5, <1>7, <1>9, <1>10, <2>1, <2>2
       DEF ChunksFresh, resumeFromExtensionValue
<1>19. AllKept'
  <2> SUFFICES ASSUME NEW x \in Unfinished' PROVE Kept(x)'
    BY DEF AllKept
  <2> DEFINE p == operations[x].product
  <2>1. x \in Unfinished /\ operations'[x].product = p
    BY <1>1 DEF Unfinished
  <2>2. Holds(journals[p], x)
    BY <1>1, <2>1 DEF ImportInv, AllKept, Kept, KeptIn
  <2> HIDE DEF p
  <2>3. p \in awaited => x \in poll.idsOf[p]
    BY <1>6, <1>7, <2>2 DEF Holds, IsAwaited
  <2>4. p \in blocked => Holds(outcomes[p], x)
    BY <1>10, <2>2
  <2> QED
    BY <1>1, <1>5, <1>7, <1>10, <2>1, <2>2, <2>3, <2>4 DEF Kept, KeptIn, Holds, IsAwaited
<1>20. NoRivals'
  BY <1>1 DEF ImportInv, NoRivals, RivalsOnlyOf
<1> QED
  BY <1>11, <1>12, <1>13, <1>14, <1>15, <1>16, <1>17, <1>18, <1>19, <1>20 DEF ImportInv

-----------------------------------------------------------------------------
(* Sending a chunk.                                                        *)

Grown(chunk, news) ==
  /\ operations' \in Seq(Operation)
  /\ DOMAIN operations' = DOMAIN operations \cup news
  /\ news \cap DOMAIN operations = {}
  /\ \A id \in DOMAIN operations : operations'[id] = operations[id]
  /\ \A id \in news : operations'[id].product \in chunk
  /\ \A id, other \in news :
       operations'[id].product = operations'[other].product => id = other
  /\ \A id \in DOMAIN operations, other \in news : id < other

Sends(chunk) ==
  /\ batch.phase = "submit" /\ batch.chunks # <<>> /\ chunk = Head(batch.chunks)
  /\ UNCHANGED <<journals, forgotten, mistaken>>
  /\ batch' = [phase |-> batch'.phase, items |-> batch'.items,
               chunks |-> batch'.chunks, poll |-> batch'.poll,
               outcomes |-> batch'.outcomes, created |-> batch'.created]
  /\ batch'.phase = "submit" /\ batch'.items = batch.items
  /\ batch'.chunks = Tail(batch.chunks)

LEMMA NextChunk ==
    ASSUME ImportInv, batch.chunks # <<>>
    PROVE  LET chunk == Head(batch.chunks)
               rest == Tail(batch.chunks)
           IN  /\ chunk \in SUBSET Product /\ rest \in Seq(SUBSET Product)
               /\ \A p \in chunk : /\ p \notin batch.poll.keys
                                   /\ p \notin DOMAIN batch.outcomes
               /\ \A x \in Unfinished : operations[x].product \notin chunk
               /\ \A k \in DOMAIN rest : rest[k] \cap chunk = {}
               /\ \A k \in DOMAIN rest : \A p \in rest[k] :
                    /\ resumeFromExtensionValue(journals[p]) = "submit"
                    /\ p \notin batch.poll.keys /\ p \notin DOMAIN batch.outcomes
                    /\ \A x \in batch.created : operations[x].product # p
               /\ \A k, l \in DOMAIN rest : k # l => rest[k] \cap rest[l] = {}
<1> DEFINE chunks == batch.chunks
           chunk == Head(chunks)
           rest == Tail(chunks)
<1>1. chunks \in Seq(SUBSET Product) /\ chunks # <<>>
  BY DEF ImportInv, ImportShape
<1>2. /\ chunk \in SUBSET Product /\ rest \in Seq(SUBSET Product)
      /\ 1 \in DOMAIN chunks /\ chunk = chunks[1]
      /\ \A k \in DOMAIN rest : /\ k + 1 \in DOMAIN chunks /\ rest[k] = chunks[k + 1]
                                /\ k + 1 # 1 /\ k \in Nat
  BY <1>1
<1>3. /\ \A k \in DOMAIN chunks : \A p \in chunks[k] :
            /\ resumeFromExtensionValue(journals[p]) = "submit"
            /\ p \notin batch.poll.keys /\ p \notin DOMAIN batch.outcomes
            /\ \A x \in batch.created : operations[x].product # p
      /\ \A k, l \in DOMAIN chunks : k # l => chunks[k] \cap chunks[l] = {}
  BY DEF ImportInv, ChunksFresh
<1> HIDE DEF chunks, chunk, rest
<1>4. \A k, l \in DOMAIN rest : k # l => k + 1 # l + 1
  BY <1>2
<1>5. \A k, l \in DOMAIN rest : k # l => rest[k] \cap rest[l] = {}
  BY <1>2, <1>3, <1>4
<1>6. \A k \in DOMAIN rest : rest[k] \cap chunk = {}
  BY <1>2, <1>3
<1>7. ASSUME NEW x \in Unfinished, operations[x].product \in chunk
      PROVE  FALSE
  <2> DEFINE p == operations[x].product
  <2>1. resumeFromExtensionValue(journals[p]) = "submit" /\ x \notin batch.created
    BY <1>2, <1>3, <1>7
  <2>2. Holds(journals[p], x)
    BY <2>1 DEF ImportInv, AllKept, Kept, KeptIn
  <2>3. Sound(operations, p, journals[p])
    BY <1>2, <1>7 DEF ImportInv, JournalsSound
  <2> HIDE DEF p
  <2>4. CASE IsAwaited(journals[p]) /\ x \in journals[p].ids
    BY <2>1, <2>4 DEF resumeFromExtensionValue, IsAwaited
  <2>5. CASE journals[p].state = "submissionFailed" /\ journals[p].acceptance = "unknown"
    BY <2>1, <2>5 DEF resumeFromExtensionValue
  <2> QED
    BY <2>2, <2>4, <2>5 DEF Holds
<1>8. \A p \in chunk : p \notin batch.poll.keys /\ p \notin DOMAIN batch.outcomes
  BY <1>2, <1>3
<1>9. \A k \in DOMAIN rest : \A p \in rest[k] :
         /\ resumeFromExtensionValue(journals[p]) = "submit"
         /\ p \notin batch.poll.keys /\ p \notin DOMAIN batch.outcomes
         /\ \A x \in batch.created : operations[x].product # p
  BY <1>2, <1>3
<1> QED
  BY <1>2, <1>5, <1>6, <1>7, <1>8, <1>9 DEF chunk, rest, chunks

(* What every answer leaves as it is.                                      *)
LEMMA SentFacts ==
    ASSUME ImportInv, NEW chunk, NEW news, Sends(chunk), Grown(chunk, news)
    PROVE  /\ Continued(operations, operations')
           /\ JournalsSound' /\ NoRivals'
           /\ \A x \in Unfinished' :
                \/ /\ x \in Unfinished /\ operations'[x].product = operations[x].product
                   /\ operations[x].product \notin chunk
                \/ x \in news /\ operations'[x].product \in chunk
<1>1. Continued(operations, operations')
  BY DEF Grown, Continued
<1>2. JournalsSound'
  BY <1>1, SoundContinued DEF Sends, ImportInv, JournalsSound
<1>3. \A x \in Unfinished : operations[x].product \notin chunk
  BY NextChunk DEF Sends
<1>4. ASSUME NEW x \in Unfinished'
      PROVE  \/ /\ x \in Unfinished /\ operations'[x].product = operations[x].product
                /\ operations[x].product \notin chunk
             \/ x \in news /\ operations'[x].product \in chunk
  BY <1>3 DEF Unfinished, Grown, Sends
<1>5. NoRivals'
  <2> SUFFICES ASSUME NEW id \in DOMAIN operations', NEW later \in DOMAIN operations',
                      id < later, operations'[id].product = operations'[later].product,
                      isPendingState(operations'[id].state),
                      isPendingState(operations'[later].state)
               PROVE  id \in forgotten' \cup mistaken'
    BY Zenon DEF NoRivals, RivalsOnlyOf
  <2>0. id \in Nat /\ later \in Nat
    BY DEF Grown
  <2>1. CASE id \in DOMAIN operations /\ later \in DOMAIN operations
    BY <2>1 DEF ImportInv, NoRivals, RivalsOnlyOf, Grown, Sends
  <2>2. CASE id \in DOMAIN operations /\ later \in news
    <3>1. operations[id].product \in chunk /\ isPendingState(operations[id].state)
      BY <2>2 DEF Grown
    <3>2. id \notin Unfinished
      BY <1>3, <3>1
    <3> QED
      BY <2>2, <3>1, <3>2 DEF Unfinished, Sends
  <2>3. CASE id \in news /\ later \in DOMAIN operations
    <3>1. later < id
      BY <2>3 DEF Grown
    <3> QED
      BY <2>0, <3>1
  <2>4. CASE id \in news /\ later \in news
    <3>1. id = later
      BY <2>4 DEF Grown
    <3> QED
      BY <2>0, <3>1
  <2> QED
    BY <2>1, <2>2, <2>3, <2>4 DEF Grown
<1> QED
  BY <1>1, <1>2, <1>4, <1>5

LEMMA NotSentStep ==
    ASSUME ImportInv, NEW chunk, NEW news, Sends(chunk), Grown(chunk, news),
           NEW acceptance, acceptance = "unknown" \/ news = {},
           batch'.outcomes = Override(batch.outcomes,
                               [p \in chunk |-> SubmissionFailed(acceptance)]),
           batch'.poll = batch.poll, batch'.created = batch.created \cup news
    PROVE  ImportInv'
<1>1. /\ chunk \in SUBSET Product /\ batch'.chunks \in Seq(SUBSET Product)
      /\ \A p \in chunk : p \notin batch.poll.keys /\ p \notin DOMAIN batch.outcomes
      /\ \A k \in DOMAIN batch'.chunks : batch'.chunks[k] \cap chunk = {}
      /\ \A k \in DOMAIN batch'.chunks : \A p \in batch'.chunks[k] :
            /\ resumeFromExtensionValue(journals[p]) = "submit"
            /\ p \notin batch.poll.keys /\ p \notin DOMAIN batch.outcomes
            /\ \A x \in batch.created : operations[x].product # p
      /\ \A k, l \in DOMAIN batch'.chunks : k # l =>
            batch'.chunks[k] \cap batch'.chunks[l] = {}
  BY NextChunk DEF Sends
<1>2. /\ Continued(operations, operations') /\ JournalsSound' /\ NoRivals'
      /\ \A x \in Unfinished' :
           \/ /\ x \in Unfinished /\ operations'[x].product = operations[x].product
              /\ operations[x].product \notin chunk
           \/ x \in news /\ operations'[x].product \in chunk
  BY SentFacts
<1>3. /\ DOMAIN batch'.outcomes = DOMAIN batch.outcomes \cup chunk
      /\ \A p \in chunk : batch'.outcomes[p] = SubmissionFailed(acceptance)
      /\ \A p \in DOMAIN batch.outcomes : batch'.outcomes[p] = batch.outcomes[p]
  BY <1>1 DEF Override
<1>4. ImportShape'
  BY <1>1 DEF ImportInv, ImportShape, Sends, Grown
<1>5. PhaseShape'
  BY DEF PhaseShape, Sends
<1>6. OutcomesSound'
  <2>1. ASSUME NEW p \in chunk
        PROVE  Sound(operations', p, batch'.outcomes[p])
    BY <1>3 DEF SubmissionFailed, Sound
  <2>2. ASSUME NEW p \in DOMAIN batch.outcomes
        PROVE  Sound(operations', p, batch'.outcomes[p])
    BY <1>2, <1>3, SoundContinued DEF ImportInv, OutcomesSound
  <2>3. DOMAIN batch'.outcomes \subseteq Product
    BY <1>1, <1>3 DEF ImportInv, OutcomesSound
  <2> QED
    BY <1>3, <2>1, <2>2, <2>3 DEF OutcomesSound
<1>7. PollShape'
  BY DEF ImportInv, PollShape, Grown
<1>8. PollSound'
  BY <1>2, SoundContinued DEF ImportInv, PollSound, PollShape
<1>9. PollPhase'
  BY DEF ImportInv, PollPhase, PollShape, Sends, Grown
<1>10. ChunksFresh'
  <2>1. \A k \in DOMAIN batch'.chunks : \A p \in batch'.chunks[k] :
           /\ p \notin DOMAIN batch'.outcomes
           /\ \A x \in batch'.created : operations'[x].product # p
    BY <1>1, <1>3, ZenonT(40) DEF Grown, ImportInv, ImportShape
  <2> QED
    BY <1>1, <2>1 DEF ChunksFresh, Sends
<1>11. AllKept'
  <2> SUFFICES ASSUME NEW x \in Unfinished' PROVE Kept(x)'
    BY DEF AllKept
  <2> DEFINE p == operations'[x].product
  <2>1. CASE x \in news /\ p \in chunk
    <3>1. Holds(batch'.outcomes[p], x)
      BY <1>3, <2>1 DEF Holds, SubmissionFailed
    <3>2. p \in DOMAIN batch'.outcomes /\ p \notin batch'.poll.keys /\ x \in batch'.created
      BY <1>1, <1>3, <2>1
    <3> QED
      BY <3>1, <3>2 DEF Kept, KeptIn, Holds, IsAwaited
  <2>2. CASE x \in Unfinished /\ p = operations[x].product /\ p \notin chunk
    <3>1. KeptIn(batch, journals, p, x)
      BY <2>2 DEF ImportInv, AllKept, Kept
    <3>2. p \in DOMAIN batch'.outcomes <=> p \in DOMAIN batch.outcomes
      BY <1>3, <2>2
    <3>3. x \in batch'.created <=> x \in batch.created
      BY <2>2 DEF Grown, Unfinished
    <3> HIDE DEF p
    <3>4. KeptIn(batch', journals', p, x)
      BY <1>3, <3>1, <3>2, <3>3 DEF KeptIn, Sends
    <3> QED
      BY <3>4 DEF Kept, p
  <2> QED
    BY <1>2, <2>1, <2>2
<1> QED
  BY <1>2, <1>4, <1>5, <1>6, <1>7, <1>8, <1>9, <1>10, <1>11 DEF ImportInv

LEMMA AcceptedStep ==
    ASSUME ImportInv, NEW chunk, Sends(chunk), Enlarged(chunk), Grown(chunk, NewIds(chunk)),
           DOMAIN batch'.outcomes = DOMAIN batch.outcomes,
           \A p \in DOMAIN batch.outcomes : batch'.outcomes[p] = batch.outcomes[p],
           batch'.created = batch.created \cup NewIds(chunk),
           batch'.poll = [ids |-> batch'.poll.ids, keys |-> batch'.poll.keys,
                          idsOf |-> batch'.poll.idsOf, keysOf |-> batch'.poll.keysOf,
                          seen |-> batch'.poll.seen],
           batch'.poll.ids = batch.poll.ids \cup NewIds(chunk),
           batch'.poll.keys = batch.poll.keys \cup chunk,
           batch'.poll.idsOf = Override(batch.poll.idsOf, [p \in chunk |-> NewIds(chunk)]),
           batch'.poll.keysOf =
             Override(batch.poll.keysOf, [id \in NewIds(chunk) |-> chunk]),
           batch'.poll.seen = batch.poll.seen
    PROVE  ImportInv'
<1> DEFINE news == NewIds(chunk)
<1>1. /\ chunk \in SUBSET Product /\ batch'.chunks \in Seq(SUBSET Product)
      /\ \A p \in chunk : p \notin batch.poll.keys /\ p \notin DOMAIN batch.outcomes
      /\ \A k \in DOMAIN batch'.chunks : batch'.chunks[k] \cap chunk = {}
      /\ \A k \in DOMAIN batch'.chunks : \A p \in batch'.chunks[k] :
            /\ resumeFromExtensionValue(journals[p]) = "submit"
            /\ p \notin batch.poll.keys /\ p \notin DOMAIN batch.outcomes
            /\ \A x \in batch.created : operations[x].product # p
      /\ \A k, l \in DOMAIN batch'.chunks : k # l =>
            batch'.chunks[k] \cap batch'.chunks[l] = {}
  BY NextChunk DEF Sends
<1> HIDE DEF news
<1>2. /\ Continued(operations, operations') /\ JournalsSound' /\ NoRivals'
      /\ \A x \in Unfinished' :
           \/ /\ x \in Unfinished /\ operations'[x].product = operations[x].product
              /\ operations[x].product \notin chunk
           \/ x \in news /\ operations'[x].product \in chunk
  BY SentFacts DEF news
<1>3. /\ DOMAIN batch.poll.idsOf = batch.poll.keys /\ DOMAIN batch.poll.keysOf = batch.poll.ids
      /\ batch.poll.ids \subseteq DOMAIN operations /\ batch.poll.keys \subseteq Product
  BY DEF ImportInv, PollShape
<1>4. Grown(chunk, news) /\ \A p \in chunk : \E id \in news : operations'[id].product = p
  BY DEF Enlarged, news
<1>5. /\ batch'.poll.ids = batch.poll.ids \cup news
      /\ DOMAIN batch'.poll.idsOf = batch'.poll.keys
      /\ \A p \in chunk : batch'.poll.idsOf[p] = news
      /\ \A p \in batch.poll.keys : batch'.poll.idsOf[p] = batch.poll.idsOf[p]
  BY <1>1, <1>3 DEF Override, news
<1>6. /\ DOMAIN batch'.poll.keysOf = batch'.poll.ids
      /\ \A id \in news : batch'.poll.keysOf[id] = chunk
      /\ \A id \in batch.poll.ids : batch'.poll.keysOf[id] = batch.poll.keysOf[id]
  BY <1>3, <1>4, <1>5 DEF Override, news, Grown
<1>7. ImportShape'
  BY <1>1, <1>4 DEF ImportInv, ImportShape, Sends, Grown, news
<1>8. PhaseShape'
  BY DEF PhaseShape, Sends
<1>9. OutcomesSound'
  BY <1>2, SoundContinued DEF ImportInv, OutcomesSound
<1>10. PollShape'
  <2>1. batch'.poll.ids \subseteq DOMAIN operations'
    BY <1>3, <1>4, <1>5 DEF Grown
  <2>2. batch'.poll.keys \subseteq Product
    BY <1>1, <1>3
  <2>3. \A id \in DOMAIN batch.poll.seen : id \in batch.poll.ids /\ operations'[id] = operations[id]
    BY <1>4 DEF ImportInv, PollShape, Grown
  <2> QED
    BY <1>5, <1>6, <2>1, <2>2, <2>3 DEF ImportInv, PollShape
<1>11. PollSound'
  <2>1. ASSUME NEW p \in batch.poll.keys
        PROVE  /\ batch'.poll.idsOf[p] \subseteq batch'.poll.ids
               /\ OwnAmong(operations', p, batch'.poll.idsOf[p])
               /\ \A e \in batch'.poll.idsOf[p] : p \in batch'.poll.keysOf[e]
    <3>1. /\ batch.poll.idsOf[p] \subseteq batch.poll.ids
          /\ OwnAmong(operations, p, batch.poll.idsOf[p])
          /\ \A e \in batch.poll.idsOf[p] : p \in batch.poll.keysOf[e]
      BY DEF ImportInv, PollSound
    <3>2. OwnAmong(operations', p, batch.poll.idsOf[p])
      BY <1>2, <1>3, <3>1, SoundContinued
    <3> QED
      BY <1>5, <1>6, <3>1, <3>2
  <2>2. ASSUME NEW p \in chunk
        PROVE  /\ batch'.poll.idsOf[p] \subseteq batch'.poll.ids
               /\ OwnAmong(operations', p, batch'.poll.idsOf[p])
               /\ \A e \in batch'.poll.idsOf[p] : p \in batch'.poll.keysOf[e]
    <3>1. OwnAmong(operations', p, news)
      BY <1>4 DEF OwnAmong, Grown
    <3> QED
      BY <1>5, <1>6, <3>1
  <2>3. ASSUME NEW e \in batch'.poll.ids, NEW p \in Product, batch'.poll.keysOf[e] = {p}
        PROVE  p \in batch'.poll.keys /\ batch'.poll.idsOf[p] = {e}
    <3>1. CASE e \in batch.poll.ids
      <4>1. p \in batch.poll.keys /\ batch.poll.idsOf[p] = {e}
        BY <1>6, <2>3, <3>1 DEF ImportInv, PollSound
      <4> QED
        BY <1>5, <4>1
    <3>2. CASE e \in news
      <4>1. chunk = {p}
        BY <1>6, <2>3, <3>2
      <4>2. \A id \in news : operations'[id].product = p
        BY <1>4, <4>1 DEF Grown
      <4>3. news = {e}
        BY <1>4, <3>2, <4>2 DEF Grown
      <4> QED
        BY <1>5, <4>1, <4>3
    <3> QED
      BY <1>5, <3>1, <3>2
  <2> QED
    BY <2>1, <2>2, <2>3 DEF PollSound
<1>12. PollPhase'
  <2>1. \A i \in batch.poll.ids : /\ operations[i].product \in batch.poll.keys
                                /\ i \in batch.poll.idsOf[operations[i].product]
    BY DEF ImportInv, PollPhase, Sends
  <2>2. \A i \in batch.poll.ids : operations'[i].product = operations[i].product
    BY <1>2, <1>3 DEF Continued
  <2>3. \A i \in news : operations'[i].product \in chunk
    BY <1>4 DEF Grown
  <2>4. \A i \in batch'.poll.ids : /\ operations'[i].product \in batch'.poll.keys
                                 /\ i \in batch'.poll.idsOf[operations'[i].product]
    BY <1>5, <2>1, <2>2, <2>3
  <2> QED
    BY <2>4 DEF PollPhase, Sends
<1>13. ChunksFresh'
  <2>1. \A k \in DOMAIN batch'.chunks : \A p \in batch'.chunks[k] :
           /\ p \notin batch'.poll.keys
           /\ \A x \in batch'.created : operations'[x].product # p
    <3> SUFFICES ASSUME NEW k \in DOMAIN batch'.chunks, NEW p \in batch'.chunks[k]
                 PROVE  /\ p \notin batch'.poll.keys
                        /\ \A x \in batch'.created : operations'[x].product # p
      OBVIOUS
    <3>1. p \notin chunk /\ p \notin batch.poll.keys
          /\ \A x \in batch.created : operations[x].product # p
      BY <1>1
    <3>2. \A x \in batch.created : operations'[x] = operations[x]
      BY <1>4 DEF Grown, ImportInv, ImportShape
    <3>3. \A x \in news : operations'[x].product # p
      BY <1>4, <3>1 DEF Grown
    <3>4. batch'.created = batch.created \cup news
      BY DEF news
    <3> QED
      BY <3>1, <3>2, <3>3, <3>4
  <2> QED
    BY <1>1, <2>1 DEF ChunksFresh, Sends
<1>14. AllKept'
  <2> SUFFICES ASSUME NEW x \in Unfinished' PROVE Kept(x)'
    BY DEF AllKept
  <2> DEFINE p == operations'[x].product
  <2>1. CASE x \in news /\ p \in chunk
    <3>1. /\ p \notin DOMAIN batch'.outcomes /\ p \in batch'.poll.keys
          /\ x \in batch'.created /\ x \in batch'.poll.idsOf[p]
      BY <1>1, <1>5, <2>1 DEF news
    <3> QED
      BY <3>1 DEF Kept, KeptIn
  <2>2. CASE x \in Unfinished /\ p = operations[x].product /\ p \notin chunk
    <3>1. KeptIn(batch, journals, p, x)
      BY <2>2 DEF ImportInv, AllKept, Kept
    <3>2. p \in batch'.poll.keys <=> p \in batch.poll.keys
      BY <2>2
    <3>3. x \in batch'.created <=> x \in batch.created
      BY <1>4, <2>2 DEF Grown, Unfinished, news
    <3> HIDE DEF p
    <3>4. KeptIn(batch', journals', p, x)
      BY <1>5, <3>1, <3>2, <3>3 DEF KeptIn, Sends
    <3> QED
      BY <3>4 DEF Kept, p
  <2> QED
    BY <1>2, <2>1, <2>2
<1> QED
  BY <1>2, <1>7, <1>8, <1>9, <1>10, <1>11, <1>12, <1>13, <1>14 DEF ImportInv

LEMMA SubmitStep ==
    ASSUME ImportInv, submitAndAwait
    PROVE  ImportInv'
<1> DEFINE chunk == Head(batch.chunks)
<1>1. /\ batch.phase = "submit" /\ batch.chunks # <<>>
      /\ UNCHANGED <<journals, forgotten, mistaken>>
      /\ \/ submitAccepted(chunk)
         \/ submitUnanswered(chunk)
         \/ Unsent(chunk, "not-accepted") /\ UNCHANGED operations
  BY DEF submitAndAwait
<1>2. chunk \in SUBSET Product
  BY <1>1, NextChunk
<1>3. operations \in Seq(Operation)
  BY DEF ImportInv, ImportShape
<1> HIDE DEF chunk
<1>4. Creates(chunk) => Enlarged(chunk)
  BY <1>2, <1>3, Created
<1>5. Enlarged(chunk) => Grown(chunk, NewIds(chunk))
  BY DEF Enlarged, Grown
<1>6. operations' = operations => Grown(chunk, {})
  BY <1>3 DEF Grown
<1>7. ASSUME NEW outcomes, NEW poll, Sent(chunk, outcomes, poll)
      PROVE  /\ Sends(chunk) /\ batch'.outcomes = Override(batch.outcomes, outcomes)
             /\ batch'.poll = poll /\ batch'.created = batch.created \cup NewIds(chunk)
  BY <1>1, <1>7 DEF Sent, Sends, ImportInv, ImportShape, chunk
<1>8. ASSUME NEW acceptance, Unsent(chunk, acceptance)
      PROVE  /\ Sends(chunk)
             /\ batch'.outcomes = Override(batch.outcomes,
                                    [p \in chunk |-> SubmissionFailed(acceptance)])
             /\ batch'.poll = batch.poll /\ batch'.created = batch.created \cup {}
  BY <1>1, <1>8 DEF Unsent, Sends, ImportInv, ImportShape, chunk
<1>9. CASE submitAccepted(chunk)
  <2> DEFINE ids == NewIds(chunk)
             poll == [batch.poll EXCEPT
                       !.ids = @ \cup ids, !.keys = @ \cup chunk,
                       !.idsOf = Override(@, [p \in chunk |-> ids]),
                       !.keysOf = Override(@, [id \in ids |-> chunk])]
  <2>1. Creates(chunk) /\ Sent(chunk, NoFunction, poll)
    BY <1>9 DEF submitAccepted
  <2> DEFINE asked == batch.poll.ids \cup ids
             askedKeys == batch.poll.keys \cup chunk
             idsOf == Override(batch.poll.idsOf, [p \in chunk |-> ids])
             keysOf == Override(batch.poll.keysOf, [id \in ids |-> chunk])
  <2>2. poll = [batch.poll EXCEPT !.ids = asked, !.keys = askedKeys, !.idsOf = idsOf,
                                  !.keysOf = keysOf]
    OBVIOUS
  <2> HIDE DEF poll, asked, askedKeys, idsOf, keysOf
  <2>3. batch.poll = [ids |-> batch.poll.ids, keys |-> batch.poll.keys,
                      idsOf |-> batch.poll.idsOf, keysOf |-> batch.poll.keysOf,
                      seen |-> batch.poll.seen]
    BY DEF ImportInv, ImportShape
  <2>4. /\ poll = [ids |-> poll.ids, keys |-> poll.keys, idsOf |-> poll.idsOf,
                   keysOf |-> poll.keysOf, seen |-> poll.seen]
        /\ poll.ids = asked /\ poll.keys = askedKeys /\ poll.idsOf = idsOf
        /\ poll.keysOf = keysOf /\ poll.seen = batch.poll.seen
    BY <2>2, <2>3
  <2>5. /\ Sends(chunk) /\ batch'.outcomes = Override(batch.outcomes, NoFunction)
        /\ batch'.poll = poll /\ batch'.created = batch.created \cup ids
    BY <1>7, <2>1
  <2>6. /\ DOMAIN batch'.outcomes = DOMAIN batch.outcomes
        /\ \A p \in DOMAIN batch.outcomes : batch'.outcomes[p] = batch.outcomes[p]
    BY <2>5, EmptyFacts DEF Override
  <2> QED
    BY <1>4, <1>5, <2>1, <2>4, <2>5, <2>6, AcceptedStep DEF asked, askedKeys, idsOf, keysOf
<1>10. CASE Creates(chunk)
            /\ Sent(chunk, [p \in chunk |-> SubmissionFailed("unknown")], batch.poll)
  BY <1>4, <1>5, <1>7, <1>10, NotSentStep
<1>11. ASSUME NEW acceptance, Unsent(chunk, acceptance), UNCHANGED operations
       PROVE  ImportInv'
  BY <1>6, <1>8, <1>11, NotSentStep
<1> QED
  BY <1>1, <1>9, <1>10, <1>11 DEF submitUnanswered

-----------------------------------------------------------------------------
(* Polling.                                                                *)

LEMMA PollSubmittedStep ==
    ASSUME ImportInv, PollSubmitted
    PROVE  ImportInv'
<1> DEFINE turn == IF batch.poll.ids = {} THEN "settle" ELSE "poll"
<1>1. /\ batch.phase = "submit" /\ batch.chunks = <<>>
      /\ batch' = [batch EXCEPT !.phase = turn]
      /\ UNCHANGED <<operations, journals, forgotten, mistaken>>
  BY DEF PollSubmitted
<1>2. turn \in {"settle", "poll"} /\ (turn = "settle" => batch.poll.ids = {})
  OBVIOUS
<1> HIDE DEF turn
<1>3. /\ batch' = [phase |-> turn, items |-> batch.items, chunks |-> batch.chunks,
                   poll |-> batch.poll, outcomes |-> batch.outcomes,
                   created |-> batch.created]
      /\ batch'.phase = turn /\ batch'.items = batch.items
      /\ batch'.chunks = batch.chunks /\ batch'.poll = batch.poll
      /\ batch'.outcomes = batch.outcomes /\ batch'.created = batch.created
  BY <1>1 DEF ImportInv, ImportShape
<1>4. batch.poll.ids = {} => batch.poll.keys = {}
  BY DEF ImportInv, PollSound, OwnAmong
<1>5. ImportShape'
  BY <1>1, <1>3 DEF ImportInv, ImportShape
<1>6. PhaseShape'
  BY <1>1, <1>2, <1>3, <1>4 DEF PhaseShape
<1>7. JournalsSound' /\ OutcomesSound'
  BY <1>1, <1>3 DEF ImportInv, JournalsSound, OutcomesSound
<1>8. PollShape' /\ PollSound'
  BY <1>1, <1>3 DEF ImportInv, PollShape, PollSound
<1>9. PollPhase'
  BY <1>1, <1>2, <1>3 DEF ImportInv, PollPhase
<1>10. ChunksFresh'
  BY <1>1, <1>3 DEF ImportInv, ChunksFresh
<1>11. AllKept' /\ NoRivals'
  BY <1>1, <1>3 DEF ImportInv, AllKept, Kept, KeptIn, Unfinished, NoRivals, RivalsOnlyOf
<1> QED
  BY <1>5, <1>6, <1>7, <1>8, <1>9, <1>10, <1>11 DEF ImportInv

LEMMA EndStep ==
    ASSUME ImportInv, NEW id \in DOMAIN operations, OperationEnds(id)
    PROVE  ImportInv'
<1>1. /\ UNCHANGED <<journals, batch, forgotten, mistaken>>
      /\ \E state \in {"imported", "failed"} :
           operations' = [operations EXCEPT ![id].state = state]
  BY DEF OperationEnds
<1>2. operations \in Seq(Operation) /\ operations[id] \in Operation
  BY DEF ImportInv, ImportShape
<1>3. PICK state \in {"imported", "failed"} :
        operations' = [operations EXCEPT ![id].state = state]
  BY <1>1
<1>4. /\ operations' \in Seq(Operation) /\ DOMAIN operations' = DOMAIN operations
      /\ operations'[id] = [operations[id] EXCEPT !.state = state]
      /\ \A x \in DOMAIN operations : x # id => operations'[x] = operations[x]
  <2>1. [operations[id] EXCEPT !.state = state] \in Operation
    BY <1>2 DEF Operation
  <2> QED
    BY <1>2, <1>3, <2>1
<1>5. /\ operations'[id].product = operations[id].product
      /\ ~isPendingState(operations'[id].state)
  BY <1>2, <1>4 DEF Operation, isPendingState
<1>6. /\ Continued(operations, operations')
      /\ \A x \in DOMAIN operations : isPendingState(operations'[x].state) =>
           isPendingState(operations[x].state)
  BY <1>4, <1>5 DEF Continued
<1>7. ImportShape' /\ PhaseShape'
  BY <1>1, <1>4 DEF ImportInv, ImportShape, PhaseShape
<1>8. JournalsSound' /\ OutcomesSound'
  BY <1>1, <1>6, SoundContinued DEF ImportInv, JournalsSound, OutcomesSound
<1>9. PollShape'
  BY <1>1, <1>4, <1>6 DEF ImportInv, PollShape
<1>10. PollSound'
  BY <1>1, <1>6, SoundContinued DEF ImportInv, PollSound, PollShape
<1>11. PollPhase'
  BY <1>1, <1>6 DEF ImportInv, PollPhase, PollShape, Continued
<1>12. ChunksFresh'
  <2>1. \A x \in batch.created : operations'[x].product = operations[x].product
    BY <1>6 DEF ImportInv, ImportShape, Continued
  <2> QED
    BY <1>1, <2>1 DEF ImportInv, ChunksFresh
<1>13. AllKept'
  BY <1>1, <1>4, <1>6 DEF ImportInv, AllKept, Kept, Unfinished, Continued
<1>14. NoRivals'
  BY <1>1, <1>4, <1>6 DEF ImportInv, NoRivals, RivalsOnlyOf, Continued
<1> QED
  BY <1>7, <1>8, <1>9, <1>10, <1>11, <1>12, <1>13, <1>14 DEF ImportInv

LEMMA PollRoundStep ==
    ASSUME ImportInv, PollRound
    PROVE  ImportInv'
<1>1. batch.phase \in {"await", "poll"}
  BY DEF PollRound
<1>2. PICK failing \in SUBSET PollPending(batch.poll) :
        LET answers == [id \in PollPending(batch.poll) \ failing |->
                          operations[id].state]
            heard == Override(batch.poll.seen, answers)
        IN  IF PollContradicts(heard) THEN BreaksOff
            ELSE /\ batch' = [batch EXCEPT !.poll.seen = heard]
                 /\ UNCHANGED <<container, operations, journals, forgotten,
                                mistaken, batches>>
  BY DEF PollRound
<1> DEFINE asked == PollPending(batch.poll) \ failing
           answers == [id \in asked |-> operations[id].state]
           heard == Override(batch.poll.seen, answers)
<1>3. asked \subseteq batch.poll.ids
  BY DEF PollPending
<1>4. /\ DOMAIN heard = DOMAIN batch.poll.seen \cup asked
      /\ \A id \in asked : heard[id] = operations[id].state
      /\ \A id \in DOMAIN batch.poll.seen : id \notin asked => heard[id] = batch.poll.seen[id]
  BY DEF Override
<1> HIDE DEF heard, asked
<1>5. CASE batch' = [batch EXCEPT !.poll.seen = heard]
           /\ UNCHANGED <<operations, journals, forgotten, mistaken>>
  <2> DEFINE poll == [batch.poll EXCEPT !.seen = heard]
  <2>1. /\ poll = [ids |-> poll.ids, keys |-> poll.keys, idsOf |-> poll.idsOf,
                   keysOf |-> poll.keysOf, seen |-> poll.seen]
        /\ poll.ids = batch.poll.ids /\ poll.keys = batch.poll.keys
        /\ poll.idsOf = batch.poll.idsOf /\ poll.keysOf = batch.poll.keysOf
        /\ poll.seen = heard
    BY DEF ImportInv, ImportShape
  <2>2. batch' = [batch EXCEPT !.poll = poll]
    BY <1>5
  <2> HIDE DEF poll
  <2>3. /\ batch' = [phase |-> batch.phase, items |-> batch.items, chunks |-> batch.chunks,
                     poll |-> poll, outcomes |-> batch.outcomes, created |-> batch.created]
        /\ batch'.phase = batch.phase /\ batch'.items = batch.items
        /\ batch'.chunks = batch.chunks /\ batch'.poll = poll
        /\ batch'.outcomes = batch.outcomes /\ batch'.created = batch.created
    BY <2>2 DEF ImportInv, ImportShape
  <2>4. ImportShape'
    BY <1>5, <2>1, <2>3 DEF ImportInv, ImportShape
  <2>5. PhaseShape'
    BY <1>1, <2>1, <2>3 DEF ImportInv, PhaseShape
  <2>6. JournalsSound' /\ OutcomesSound'
    BY <1>5, <2>3 DEF ImportInv, JournalsSound, OutcomesSound
  <2>7. PollShape'
    <3>1. \A id \in DOMAIN heard :
            /\ heard[id] \in {"processing", "imported", "failed"}
            /\ isPendingState(operations[id].state) => heard[id] = "processing"
      <4>1. \A id \in batch.poll.ids :
              operations[id].state \in {"processing", "imported", "failed"}
        <5>1. operations \in Seq(Operation) /\ batch.poll.ids \subseteq DOMAIN operations
          BY DEF ImportInv, ImportShape, PollShape
        <5>2. \A id \in DOMAIN operations : operations[id] \in Operation
          BY <5>1
        <5> QED
          BY <5>1, <5>2 DEF Operation
      <4> QED
        BY <1>3, <1>4, <4>1 DEF ImportInv, PollShape, isPendingState
    <3> QED
      BY <1>3, <1>4, <1>5, <2>1, <2>3, <3>1 DEF ImportInv, PollShape
  <2>8. PollSound' /\ PollPhase'
    BY <1>5, <2>1, <2>3 DEF ImportInv, PollSound, PollPhase
  <2>9. ChunksFresh'
    BY <1>5, <2>1, <2>3 DEF ImportInv, ChunksFresh
  <2>10. AllKept' /\ NoRivals'
    BY <1>5, <2>1, <2>3
       DEF ImportInv, AllKept, Kept, KeptIn, Unfinished, NoRivals, RivalsOnlyOf
  <2> QED
    BY <2>4, <2>5, <2>6, <2>7, <2>8, <2>9, <2>10 DEF ImportInv
<1> QED
  BY <1>2, <1>5, BreakStep DEF heard, asked

LEMMA PollEndsStep ==
    ASSUME ImportInv, PollEnds
    PROVE  ImportInv'
<1> DEFINE askedKeys == batch.poll.keys
           late == [p \in askedKeys |-> AtDeadline(p)]
           outcomes == Override(batch.outcomes, Override(late, OutcomesSeen))
           turn == IF batch.phase = "await" THEN "submit" ELSE "settle"
           SeenOf(p) == {i \in DOMAIN batch.poll.seen : operations[i].product = p}
<1>1. /\ batch.phase \in {"await", "poll"}
      /\ batch' = [batch EXCEPT !.outcomes = outcomes, !.poll = NoPoll, !.phase = turn]
      /\ UNCHANGED <<operations, journals, forgotten, mistaken>>
  BY DEF PollEnds
<1>2. turn \in {"submit", "settle"} /\ (turn = "settle" => batch.phase = "poll")
  BY <1>1
<1>3. askedKeys \subseteq Product
  BY DEF ImportInv, PollShape
<1>4. ASSUME NEW p \in askedKeys, SeenOf(p) # {}
      PROVE  \E i \in SeenOf(p) : outcomes[p] = Reported(batch.poll.seen[i], i)
  <2>1. p \in DOMAIN OutcomesSeen
    BY <1>4 DEF OutcomesSeen
  <2>2. outcomes[p] = OutcomesSeen[p]
    BY <2>1 DEF Override
  <2> DEFINE id == CHOOSE i \in DOMAIN batch.poll.seen : operations[i].product = p
  <2>3. OutcomesSeen[p] = Reported(batch.poll.seen[id], id)
    BY <2>1 DEF OutcomesSeen
  <2>4. id \in SeenOf(p)
    BY <1>4
  <2> QED
    BY <2>2, <2>3, <2>4
<1>5. ASSUME NEW p \in askedKeys, SeenOf(p) = {}
      PROVE  outcomes[p] = AtDeadline(p)
  <2>1. p \notin DOMAIN OutcomesSeen
    BY <1>5 DEF OutcomesSeen
  <2>2. p \in DOMAIN late /\ late[p] = AtDeadline(p)
    BY <1>5
  <2> HIDE DEF late
  <2> QED
    BY <2>1, <2>2 DEF Override
<1>6. /\ DOMAIN outcomes = DOMAIN batch.outcomes \cup askedKeys
      /\ \A p \in DOMAIN batch.outcomes : p \notin askedKeys => outcomes[p] = batch.outcomes[p]
  BY DEF Override, OutcomesSeen
<1> HIDE DEF askedKeys, late, outcomes, turn
<1>7. /\ batch' = [phase |-> turn, items |-> batch.items, chunks |-> batch.chunks,
                   poll |-> NoPoll, outcomes |-> outcomes, created |-> batch.created]
      /\ batch'.phase = turn /\ batch'.items = batch.items
      /\ batch'.chunks = batch.chunks /\ batch'.poll = NoPoll
      /\ batch'.outcomes = outcomes /\ batch'.created = batch.created
  BY <1>1 DEF ImportInv, ImportShape
<1>8. ASSUME NEW p \in askedKeys
      PROVE  /\ Sound(operations, p, outcomes[p])
             /\ \A x \in batch.poll.idsOf[p] :
                  (/\ isPendingState(operations[x].state) /\ operations[x].product = p) =>
                     \/ Holds(outcomes[p], x)
                     \/ x \in GivenUp(journals[p], outcomes[p])
  <2>1. /\ batch.poll.idsOf[p] \subseteq batch.poll.ids
        /\ OwnAmong(operations, p, batch.poll.idsOf[p])
        /\ \A e \in batch.poll.idsOf[p] : p \in batch.poll.keysOf[e]
    BY <1>8 DEF ImportInv, PollSound, askedKeys
  <2>2. PICK w \in batch.poll.idsOf[p] :
          /\ operations[w].product = p
          /\ \A i \in batch.poll.idsOf[p] : operations[i].product = p => i = w
    BY <2>1 DEF OwnAmong
  <2>3. CASE SeenOf(p) # {}
    <3>1. PICK i \in SeenOf(p) : outcomes[p] = Reported(batch.poll.seen[i], i)
      BY <1>4, <2>3
    <3>2. /\ i \in DOMAIN operations /\ operations[i].product = p /\ i \in batch.poll.ids
          /\ batch.poll.seen[i] \in {"processing", "imported", "failed"}
          /\ isPendingState(operations[i].state) => batch.poll.seen[i] = "processing"
      BY DEF ImportInv, PollShape
    <3>3. outcomes[p].state = batch.poll.seen[i] /\ outcomes[p].ids = {i}
      BY <3>1 DEF Reported
    <3>4. Sound(operations, p, outcomes[p])
      BY <3>2, <3>3 DEF Sound
    <3>5. ASSUME NEW x \in batch.poll.idsOf[p], isPendingState(operations[x].state),
                 operations[x].product = p
          PROVE  Holds(outcomes[p], x) \/ x \in GivenUp(journals[p], outcomes[p])
      <4>1. CASE i = x
        BY <3>2, <3>3, <3>5, <4>1 DEF Holds, IsAwaited
      <4>2. CASE i # x
        <5>1. i \notin batch.poll.idsOf[p]
          BY <2>2, <3>2, <3>5, <4>2
        <5>2. batch.phase = "await"
          BY <3>2, <5>1 DEF ImportInv, PollPhase
        <5>3. IsAwaited(journals[p]) /\ batch.poll.idsOf[p] = journals[p].ids
          BY <1>8, <5>2 DEF ImportInv, PollPhase, askedKeys
        <5> QED
          BY <3>3, <3>5, <5>1, <5>3 DEF GivenUp, IsAwaited
      <4> QED
        BY <4>1, <4>2
    <3> QED
      BY <3>4, <3>5
  <2>4. CASE SeenOf(p) = {}
    <3> DEFINE missing == PollPending(batch.poll) \ DOMAIN batch.poll.seen
               exact == {id \in missing : batch.poll.keysOf[id] = {p}}
               ids == IF exact # {} THEN {CHOOSE id \in exact : TRUE}
                      ELSE batch.poll.idsOf[p] \cap missing
               group == UNION {batch.poll.keysOf[id] : id \in ids}
    <3>1. outcomes[p] = PollFailed(ids, group)
      BY <1>5, <2>4 DEF AtDeadline
    <3>2. w \in missing /\ missing \subseteq batch.poll.ids
      BY <2>1, <2>2, <2>4 DEF PollPending
    <3>3. /\ ids \subseteq batch.poll.idsOf[p] /\ w \in ids
          /\ (exact = {} \/ \E i \in ids : ids = {i})
      <4>1. CASE exact # {}
        <5>1. PICK e \in exact : ids = {e}
          BY <4>1
        <5>2. batch.poll.idsOf[p] = {e}
          BY <1>3, <1>8, <3>2, <5>1 DEF ImportInv, PollSound
        <5> QED
          BY <2>2, <5>1, <5>2
      <4>2. CASE exact = {}
        BY <2>2, <3>2, <4>2
      <4> QED
        BY <4>1, <4>2
    <3>4. p \in group
      BY <2>1, <3>3
    <3>5. group = {p} => \E i \in ids : ids = {i}
      <4> SUFFICES ASSUME group = {p}, exact = {} PROVE FALSE
        BY <3>3
      <4>1. ids = batch.poll.idsOf[p] \cap missing
        OBVIOUS
      <4>2. batch.poll.keysOf[w] \subseteq {p} /\ p \in batch.poll.keysOf[w]
        BY <2>1, <3>3
      <4>3. w \in exact
        BY <3>2, <4>2
      <4> QED
        BY <4>3
    <3>6. ids \subseteq DOMAIN operations
      BY <2>1, <3>3 DEF ImportInv, PollShape
    <3> HIDE DEF missing, exact, ids, group
    <3>7. OwnAmong(operations, p, ids)
      BY <2>2, <3>3 DEF OwnAmong
    <3>8. outcomes[p].state = "pollFailed" /\ outcomes[p].ids = ids /\ outcomes[p].group = group
      BY <3>1 DEF PollFailed
    <3>9. Sound(operations, p, outcomes[p])
      BY <3>4, <3>5, <3>6, <3>7, <3>8 DEF Sound, Candidates
    <3>10. \A x \in batch.poll.idsOf[p] : operations[x].product = p => x \in ids
      BY <2>2, <3>3
    <3> QED
      BY <3>8, <3>9, <3>10 DEF Holds, IsAwaited
  <2> QED
    BY <2>3, <2>4
<1> HIDE DEF SeenOf
<1>9. ImportShape'
  BY <1>1, <1>7, EmptyFacts DEF ImportInv, ImportShape
<1>10. PhaseShape'
  BY <1>2, <1>7, EmptyFacts DEF ImportInv, PhaseShape
<1>11. JournalsSound'
  BY <1>1 DEF ImportInv, JournalsSound
<1>12. OutcomesSound'
  BY <1>1, <1>3, <1>6, <1>7, <1>8 DEF ImportInv, OutcomesSound
<1>13. PollShape' /\ PollSound' /\ PollPhase'
  BY <1>7, EmptyFacts DEF PollShape, PollSound, PollPhase
<1>14. ChunksFresh'
  BY <1>1, <1>6, <1>7, EmptyFacts DEF ImportInv, ChunksFresh, askedKeys
<1>15. AllKept'
  <2> SUFFICES ASSUME NEW x \in Unfinished' PROVE Kept(x)'
    BY DEF AllKept
  <2> DEFINE p == operations[x].product
  <2>1. /\ x \in Unfinished /\ isPendingState(operations[x].state)
        /\ operations'[x].product = p
    BY <1>1 DEF Unfinished
  <2>2. KeptIn(batch, journals, p, x)
    BY <2>1 DEF ImportInv, AllKept, Kept
  <2>3. p \in askedKeys => Holds(outcomes[p], x) \/ x \in GivenUp(journals[p], outcomes[p])
    BY <1>8, <2>1, <2>2 DEF KeptIn, askedKeys
  <2> HIDE DEF p
  <2>4. KeptIn(batch', journals, p, x)
    BY <1>6, <1>7, <2>2, <2>3, EmptyFacts DEF KeptIn, askedKeys
  <2> QED
    BY <1>1, <2>1, <2>4 DEF Kept
<1>16. NoRivals'
  BY <1>1 DEF ImportInv, NoRivals, RivalsOnlyOf
<1> QED
  BY <1>9, <1>10, <1>11, <1>12, <1>13, <1>14, <1>15, <1>16 DEF ImportInv

-----------------------------------------------------------------------------
(* Settling.                                                               *)

LEMMA RecordStep ==
    ASSUME ImportInv, NEW p \in Product, recordOperationOutcome(p)
    PROVE  ImportInv'
<1> DEFINE rest == DOMAIN batch.outcomes \ {p}
           outcomes == [q \in rest |-> batch.outcomes[q]]
           created == {id \in batch.created : operations[id].product # p}
           given == GivenUp(journals[p], batch.outcomes[p])
<1>1. /\ batch.phase = "settle" /\ p \in DOMAIN batch.outcomes
      /\ journals' = [journals EXCEPT ![p] = batch.outcomes[p]]
      /\ mistaken' = mistaken \cup given
      /\ UNCHANGED <<operations, forgotten>>
      /\ batch' = IF rest = {} THEN NoBatch
                  ELSE [batch EXCEPT !.outcomes = outcomes, !.created = created]
  BY DEF recordOperationOutcome
<1>2. /\ batch.chunks = <<>> /\ batch.poll.keys = {}
  BY <1>1 DEF ImportInv, PhaseShape
<1>3. /\ journals' = [q \in Product |-> journals'[q]]
      /\ journals'[p] = batch.outcomes[p]
      /\ \A q \in Product : q # p => journals'[q] = journals[q]
  BY <1>1 DEF ImportInv, ImportShape
<1>4. /\ DOMAIN outcomes = rest /\ rest = DOMAIN batch.outcomes \ {p}
      /\ \A q \in rest : outcomes[q] = batch.outcomes[q]
  OBVIOUS
<1>5. /\ created \subseteq batch.created
      /\ \A x \in batch.created : operations[x].product # p => x \in created
      /\ \A x \in created : operations[x].product # p
  OBVIOUS
<1> HIDE DEF rest, outcomes, created
<1>6. JournalsSound'
  BY <1>1, <1>3 DEF ImportInv, JournalsSound, OutcomesSound
<1>7. NoRivals'
  BY <1>1 DEF ImportInv, NoRivals, RivalsOnlyOf
<1>8. ASSUME NEW x \in Unfinished'
      PROVE  /\ x \in Unfinished /\ KeptIn(batch, journals, operations[x].product, x)
             /\ operations[x].product = p => Holds(journals'[p], x)
             /\ operations[x].product \in Product
  <2>1. x \in Unfinished /\ x \notin given
    BY <1>1 DEF Unfinished
  <2>2. KeptIn(batch, journals, operations[x].product, x)
    BY <2>1 DEF ImportInv, AllKept, Kept
  <2>3. operations[x].product = p => Holds(batch.outcomes[p], x)
    BY <1>1, <2>1, <2>2 DEF KeptIn
  <2>4. operations[x].product \in Product
    <3>1. operations \in Seq(Operation) /\ x \in DOMAIN operations
      BY <2>1 DEF ImportInv, ImportShape, Unfinished
    <3>2. operations[x] \in Operation
      BY <3>1
    <3> QED
      BY <3>2 DEF Operation
  <2> QED
    BY <1>3, <2>1, <2>2, <2>3, <2>4
<1>9. CASE rest = {}
  <2>1. batch' = Untouched("idle", {})
    BY <1>1, <1>9 DEF NoBatch, Untouched
  <2>2. /\ batch' = [phase |-> batch'.phase, items |-> batch'.items,
                     chunks |-> batch'.chunks, poll |-> batch'.poll,
                     outcomes |-> batch'.outcomes, created |-> batch'.created]
        /\ batch'.phase = "idle" /\ batch'.items = {} /\ batch'.chunks = <<>>
        /\ batch'.poll = NoPoll /\ batch'.outcomes = NoFunction /\ batch'.created = {}
    BY <2>1 DEF Untouched
  <2>3. ImportShape'
    <3>1. <<>> \in Seq(SUBSET Product)
      OBVIOUS
    <3> QED
      BY <1>1, <1>3, <2>2, <3>1, EmptyFacts DEF ImportInv, ImportShape
  <2>4. PhaseShape'
    BY <2>2 DEF PhaseShape
  <2>5. OutcomesSound'
    BY <2>2, EmptyFacts DEF OutcomesSound
  <2>6. PollShape' /\ PollSound' /\ PollPhase'
    BY <2>2, EmptyFacts DEF PollShape, PollSound, PollPhase
  <2>7. ChunksFresh'
    BY <2>2 DEF ChunksFresh
  <2>8. AllKept'
    <3> SUFFICES ASSUME NEW x \in Unfinished' PROVE Kept(x)'
      BY DEF AllKept
    <3> DEFINE q == operations[x].product
    <3>1. /\ KeptIn(batch, journals, q, x) /\ (q = p => Holds(journals'[p], x))
          /\ q \in Product
      BY <1>8
    <3> HIDE DEF q
    <3>2. q # p => Holds(journals'[q], x)
      BY <1>2, <1>3, <1>4, <1>9, <3>1 DEF KeptIn
    <3>3. KeptIn(batch', journals', q, x)
      BY <2>2, <3>1, <3>2, EmptyFacts DEF KeptIn
    <3> QED
      BY <1>1, <3>3 DEF Kept, q
  <2> QED
    BY <1>6, <1>7, <2>3, <2>4, <2>5, <2>6, <2>7, <2>8 DEF ImportInv
<1>10. CASE rest # {}
  <2>1. batch' = [batch EXCEPT !.outcomes = outcomes, !.created = created]
    BY <1>1, <1>10
  <2>2. /\ batch' = [phase |-> batch.phase, items |-> batch.items,
                     chunks |-> batch.chunks, poll |-> batch.poll,
                     outcomes |-> outcomes, created |-> created]
        /\ batch'.phase = "settle" /\ batch'.items = batch.items /\ batch'.chunks = <<>>
        /\ batch'.poll = batch.poll /\ batch'.outcomes = outcomes
        /\ batch'.created = created
    BY <1>1, <1>2, <2>1 DEF ImportInv, ImportShape
  <2>3. ImportShape'
    <3>1. <<>> \in Seq(SUBSET Product)
      OBVIOUS
    <3> QED
      BY <1>1, <1>3, <1>5, <2>2, <3>1 DEF ImportInv, ImportShape
  <2>4. PhaseShape'
    BY <1>2, <2>2 DEF PhaseShape
  <2>5. OutcomesSound'
    BY <1>1, <1>4, <2>2 DEF ImportInv, OutcomesSound
  <2>6. PollShape' /\ PollSound'
    BY <1>1, <2>2 DEF ImportInv, PollShape, PollSound
  <2>7. PollPhase'
    BY <1>1, <2>2 DEF ImportInv, PollPhase
  <2>8. ChunksFresh'
    BY <2>2 DEF ChunksFresh
  <2>9. AllKept'
    <3> SUFFICES ASSUME NEW x \in Unfinished' PROVE Kept(x)'
      BY DEF AllKept
    <3> DEFINE q == operations[x].product
    <3>1. /\ KeptIn(batch, journals, q, x) /\ (q = p => Holds(journals'[p], x))
          /\ q \in Product /\ (x \in created <=> x \in batch.created /\ q # p)
      BY <1>5, <1>8
    <3> HIDE DEF q
    <3>2. KeptIn(batch', journals', q, x)
      BY <1>2, <1>3, <1>4, <2>2, <3>1 DEF KeptIn
    <3> QED
      BY <1>1, <3>2 DEF Kept, q
  <2> QED
    BY <1>6, <1>7, <2>3, <2>4, <2>5, <2>6, <2>7, <2>8, <2>9 DEF ImportInv
<1> QED
  BY <1>9, <1>10

LEMMA ImportStep == ImportInv /\ [ImportNext]_importVars => ImportInv'
<1> SUFFICES ASSUME ImportInv, [ImportNext]_importVars
             PROVE  ImportInv'
  OBVIOUS
<1>1. CASE UNCHANGED importVars
  BY <1>1, UntouchedStep DEF importVars
<1>2. CASE SubmissionUncorrelated \/ Crash
  BY <1>2, BreakStep DEF SubmissionUncorrelated, Crash
<1> QED
  BY <1>1, <1>2, ContainerStep, ResumeStep, SubmitStep, PollSubmittedStep, PollRoundStep,
     PollEndsStep, RecordStep, EndStep DEF ImportNext

(***************************************************************************)
(* Two operations of one product are under way together only where the     *)
(* older one was abandoned, for every number of products, operations and   *)
(* calls: every unfinished operation that was not abandoned is held by its *)
(* product's journal, or is among what the call that sent it still has to  *)
(* settle, and either keeps the product from being sent again.             *)
(***************************************************************************)
THEOREM UnabandonedHaveNoRival == ImportSpec => []NoRivalImports
<1>1. ImportInit => ImportInv
  <2> SUFFICES ASSUME ImportInit PROVE ImportInv
    OBVIOUS
  <2>1. /\ operations = <<>> /\ journals = [p \in Product |-> NoJournal]
        /\ batch = Untouched("idle", {})
    BY DEF ImportInit, NoBatch, Untouched
  <2>2. /\ batch = [phase |-> batch.phase, items |-> batch.items, chunks |-> batch.chunks,
                    poll |-> batch.poll, outcomes |-> batch.outcomes,
                    created |-> batch.created]
        /\ batch.phase = "idle" /\ batch.items = {} /\ batch.chunks = <<>>
        /\ batch.poll = NoPoll /\ batch.outcomes = NoFunction /\ batch.created = {}
    BY <2>1 DEF Untouched
  <2>3. /\ <<>> \in Seq(SUBSET Product) /\ operations \in Seq(Operation)
        /\ DOMAIN operations = {}
    BY <2>1
  <2>4. ImportShape
    BY <2>1, <2>2, <2>3, EmptyFacts DEF ImportShape
  <2>5. PhaseShape /\ OutcomesSound /\ ChunksFresh
    BY <2>2, EmptyFacts DEF PhaseShape, OutcomesSound, ChunksFresh
  <2>6. JournalsSound
    BY <2>1 DEF JournalsSound, Sound, NoJournal
  <2>7. PollShape /\ PollSound /\ PollPhase
    BY <2>2, EmptyFacts DEF PollShape, PollSound, PollPhase
  <2>8. AllKept /\ NoRivals
    BY <2>3 DEF AllKept, Unfinished, NoRivals, RivalsOnlyOf
  <2> QED
    BY <2>4, <2>5, <2>6, <2>7, <2>8 DEF ImportInv
<1>2. ImportInv => NoRivalImports
  BY DEF ImportInv, NoRivals, JournalsSound, Sound, NoRivalImports
<1> QED
  BY <1>1, <1>2, ImportStep, PTL DEF ImportSpec

=============================================================================
