---------------------------- MODULE BreadthFirst ----------------------------
(***************************************************************************)
(* Why a breadth-first search of the product finds shortest paths, apart   *)
(* from any operator: what holds of the visited pairs, with their previous *)
(* pointers, and of the queue, and how taking a pair from the queue and    *)
(* putting one in keep it.                                                 *)
(***************************************************************************)
EXTENDS ProductGraph, SequenceTheorems, FiniteSetTheorems, WellFoundedInduction, TLAPS

-----------------------------------------------------------------------------
(* Induction and iteration over the naturals, with sets and functions in   *)
(* place of operators.                                                     *)

\* A set of numbers that is not empty has a least one.
LEMMA LeastNumber ==
    ASSUME NEW T \in SUBSET Nat, T # {}
    PROVE  \E m \in T : \A k \in T : m <= k
<1> DEFINE R == {ss \in Nat \X Nat : ss[1] < ss[2]}
<1>1. IsWellFoundedOn(R, Nat)
    BY NatLessThanWellFounded DEF OpToRel
<1>2. PICK m \in T : \A k \in T : <<k, m>> \notin R
    <2> HIDE DEF R
    <2> QED BY <1>1, WFMin
<1>3. ASSUME NEW k \in T PROVE ~(k < m)
    <2>1. <<k, m>> \in Nat \X Nat /\ <<k, m>>[1] = k /\ <<k, m>>[2] = m
        OBVIOUS
    <2> QED BY <1>2, <2>1
<1> QED BY <1>3

\* Induction, with a set for the predicate.
LEMMA Induction ==
    ASSUME NEW S, 0 \in S, \A n \in Nat : n \in S => n + 1 \in S
    PROVE  Nat \subseteq S
<1> SUFFICES ASSUME Nat \ S # {} PROVE FALSE
    OBVIOUS
<1>1. PICK m \in Nat \ S : \A k \in Nat \ S : m <= k
    BY LeastNumber
<1>2. m # 0 /\ m - 1 \in Nat
    BY <1>1
<1>3. m - 1 \in S
    BY <1>1, <1>2
<1> QED BY <1>1, <1>2, <1>3

\* The function that iterates G from a exists.
LEMMA Iteration ==
    ASSUME NEW S, NEW a \in S, NEW G \in [S -> S]
    PROVE  \E f \in [Nat -> S] : f = [k \in Nat |-> IF k = 0 THEN a ELSE G[f[k - 1]]]
<1> DEFINE Upto(n, g) == /\ g \in [0 .. n -> S] /\ g[0] = a
                         /\ \A k \in 1 .. n : g[k] = G[g[k - 1]]
           Some == {n \in Nat : \E g : Upto(n, g)}
           Agree(k) == \A n, m \in Nat : \A g, h :
                           k <= n /\ k <= m /\ Upto(n, g) /\ Upto(m, h) => g[k] = h[k]
           Same == {k \in Nat : Agree(k)}
<1>1. Nat \subseteq Some
    <2>1. 0 \in Some
        <3>1. Upto(0, [k \in 0 .. 0 |-> a])
            OBVIOUS
        <3> QED BY <3>1
    <2>2. ASSUME NEW n \in Nat, n \in Some PROVE n + 1 \in Some
        <3>1. PICK g : Upto(n, g)
            BY <2>2
        <3> DEFINE h == [k \in 0 .. n + 1 |-> IF k = n + 1 THEN G[g[n]] ELSE g[k]]
        <3>2. Upto(n + 1, h)
            <4>1. h \in [0 .. n + 1 -> S] /\ h[0] = a
                BY <3>1
            <4>2. ASSUME NEW k \in 1 .. n + 1 PROVE h[k] = G[h[k - 1]]
                BY <3>1
            <4> HIDE DEF h
            <4> QED BY <4>1, <4>2
        <3> QED BY <3>2
    <2> HIDE DEF Some
    <2> QED BY <2>1, <2>2, Induction
<1>2. Nat \subseteq Same
    <2>1. 0 \in Same
        <3>1. ASSUME NEW n \in Nat, NEW m \in Nat, NEW g, NEW h, Upto(n, g), Upto(m, h)
              PROVE  g[0] = h[0]
            BY <3>1
        <3>2. Agree(0)
            <4> HIDE DEF Upto, Some
            <4> QED BY <3>1
        <3> HIDE DEF Agree
        <3> QED BY <3>2
    <2>2. ASSUME NEW k \in Nat, k \in Same PROVE k + 1 \in Same
        <3>1. Agree(k) /\ k + 1 \in Nat
            BY <2>2
        <3>2. ASSUME NEW n \in Nat, NEW m \in Nat, NEW g, NEW h, k + 1 <= n, k + 1 <= m,
                     Upto(n, g), Upto(m, h)
              PROVE  g[k + 1] = h[k + 1]
            <4>1. k <= n /\ k <= m
                BY <3>2
            <4>2. g[k] = h[k]
                <5> HIDE DEF Upto
                <5> QED BY <3>1, <3>2, <4>1
            <4>3. g[k + 1] = G[g[k]] /\ h[k + 1] = G[h[k]]
                BY <3>2
            <4> QED BY <4>2, <4>3
        <3>3. Agree(k + 1)
            <4> HIDE DEF Upto, Some
            <4> QED BY <3>2
        <3> HIDE DEF Agree
        <3> QED BY <3>1, <3>3
    <2> HIDE DEF Same
    <2> QED BY <2>1, <2>2, Induction
<1> DEFINE pick(n) == CHOOSE g : Upto(n, g)
           f == [k \in Nat |-> pick(k)[k]]
<1>3. \A n \in Nat : Upto(n, pick(n))
    BY <1>1
<1>4. f[0] = a
    BY <1>3
<1>5. ASSUME NEW k \in Nat, k # 0 PROVE f[k] = G[f[k - 1]]
    <2>1. Upto(k, pick(k)) /\ Upto(k - 1, pick(k - 1)) /\ k - 1 \in Nat
        <3>1. k - 1 \in Nat
            BY <1>5
        <3> HIDE DEF Upto, pick
        <3> QED BY <1>3, <3>1
    <2> HIDE DEF pick
    <2>2. pick(k)[k] = G[pick(k)[k - 1]]
        BY <1>5, <2>1
    <2>3. k - 1 \in Same
        BY <1>2, <2>1
    <2>4. pick(k)[k - 1] = pick(k - 1)[k - 1]
        <3>1. k - 1 <= k /\ k - 1 <= k - 1
            BY <2>1
        <3> HIDE DEF Upto
        <3> QED BY <2>1, <2>3, <3>1
    <2> QED BY <2>1, <2>2, <2>4
<1>6. f \in [Nat -> S]
    <2>1. ASSUME NEW k \in Nat PROVE pick(k)[k] \in S
        <3>1. Upto(k, pick(k))
            BY <1>3
        <3> HIDE DEF pick
        <3> QED BY <3>1
    <2> HIDE DEF pick
    <2> QED BY <2>1
<1>7. f = [k \in Nat |-> IF k = 0 THEN a ELSE G[f[k - 1]]]
    <2> HIDE DEF f
    <2> QED BY <1>4, <1>5, <1>6
<1> QED BY <1>6, <1>7

\* Where a function takes a, step by step.
Iterates(f, S, a, G) == f[0] = a /\ \A k \in Nat : f[k] \in S /\ f[k + 1] = G[f[k]]

LEMMA IteratesExists == ASSUME NEW S, NEW a \in S, NEW G \in [S -> S] PROVE \E f : Iterates(f, S, a, G)
<1>1. PICK f \in [Nat -> S] : f = [k \in Nat |-> IF k = 0 THEN a ELSE G[f[k - 1]]]
  <2>1. \E f \in [Nat -> S] : f = [k \in Nat |-> IF k = 0 THEN a ELSE G[f[k - 1]]]
      BY Iteration, Z3
  <2> QED BY <2>1
<1>2. \A k \in Nat : f[k] = IF k = 0 THEN a ELSE G[f[k - 1]]
    BY <1>1
<1>3. ASSUME NEW k \in Nat PROVE f[k] \in S /\ f[k + 1] = G[f[k]]
  <2>1. k + 1 \in Nat /\ k + 1 # 0 /\ k + 1 - 1 = k
      OBVIOUS
  <2> QED BY <1>1, <1>2, <2>1
<1> QED BY <1>2, <1>3 DEF Iterates

-----------------------------------------------------------------------------
(* Walks of the product.                                                   *)

\* The walks of k + 1 steps are those of k steps with one step more.
LEMMA WalkEndsStep ==
    ASSUME NEW n \in Nodes
    PROVE  /\ WalkEnds(n)[0] = {Origin(n)}
           /\ \A k \in Nat : WalkEnds(n)[k] \in SUBSET Product
           /\ \A k \in Nat : WalkEnds(n)[k + 1] = UNION {Successors[p] : p \in WalkEnds(n)[k]}
<1> DEFINE G == [E \in SUBSET Product |-> UNION {Successors[p] : p \in E}]
           e == WalkEnds(n)
<1>1. Origin(n) \in Product /\ G \in [SUBSET Product -> SUBSET Product]
    BY AutomatonAssumption DEF Origin, Product, Successors
<1>2. PICK f \in [Nat -> SUBSET Product] :
          f = [k \in Nat |-> IF k = 0 THEN {Origin(n)} ELSE G[f[k - 1]]]
    <2> DEFINE S == SUBSET Product
               a == {Origin(n)}
    <2>1. a \in S /\ G \in [S -> S]
        BY <1>1
    <2> HIDE DEF G, S, a
    <2>2. \E f \in [Nat -> S] : f = [k \in Nat |-> IF k = 0 THEN a ELSE G[f[k - 1]]]
        BY <2>1, Iteration
    <2> QED BY <2>2 DEF S, a
<1>3. f = [k \in Nat |-> IF k = 0 THEN {Origin(n)} ELSE UNION {Successors[p] : p \in f[k - 1]}]
    <2>1. \A k \in Nat : k # 0 => G[f[k - 1]] = UNION {Successors[p] : p \in f[k - 1]}
        OBVIOUS
    <2> HIDE DEF G
    <2> QED BY <1>2, <2>1
<1>4. e = [k \in Nat |-> IF k = 0 THEN {Origin(n)} ELSE UNION {Successors[p] : p \in e[k - 1]}]
    BY <1>3 DEF WalkEnds
<1> HIDE DEF e
<1>5. \A k \in Nat : e[k + 1] = UNION {Successors[p] : p \in e[k]}
    BY <1>4
<1>6. e[0] = {Origin(n)}
    BY <1>4
<1>7. \A k \in Nat : e[k] \in SUBSET Product
    <2> DEFINE S == {k \in Nat : e[k] \in SUBSET Product}
    <2>1. 0 \in S
        BY <1>1, <1>6
    <2>2. ASSUME NEW k \in Nat, k \in S PROVE k + 1 \in S
        <3>1. \A p \in e[k] : Successors[p] \subseteq Product
            BY <2>2 DEF Successors
        <3> QED BY <1>5, <3>1
    <2>3. Nat \subseteq S
        <3> HIDE DEF S
        <3> QED BY <2>1, <2>2, Induction
    <2> QED BY <2>3
<1> QED BY <1>5, <1>6, <1>7 DEF e

-----------------------------------------------------------------------------
(* Depths: how many previous pointers lead from a pair to the origin.      *)

IsDepth(d, previous) ==
    d = [p \in DOMAIN previous |-> IF previous[p] = <<>> THEN 0 ELSE 1 + d[previous[p]]]

\* The pointers stay inside and every pair has exactly one depth.
Grounded(previous) ==
    /\ \A p \in DOMAIN previous : previous[p] = <<>> \/ previous[p] \in DOMAIN previous
    /\ \E d \in [DOMAIN previous -> Nat] : IsDepth(d, previous)
    /\ \A d, e : IsDepth(d, previous) /\ IsDepth(e, previous) => d = e

LEMMA GroundedDepth ==
    ASSUME NEW previous, Grounded(previous)
    PROVE  /\ Depth(previous) \in [DOMAIN previous -> Nat]
           /\ IsDepth(Depth(previous), previous)
           /\ \A d : IsDepth(d, previous) => d = Depth(previous)
<1>1. PICK d \in [DOMAIN previous -> Nat] : IsDepth(d, previous)
    BY DEF Grounded
<1>2. Depth(previous) = CHOOSE e : IsDepth(e, previous)
    BY DEF Depth, IsDepth
<1>3. IsDepth(Depth(previous), previous)
    BY <1>1, <1>2
<1> QED BY <1>1, <1>3 DEF Grounded

\* A search begins with its origin, at depth 0.
LEMMA DepthOrigin ==
    ASSUME NEW o
    PROVE  Grounded([p \in {o} |-> <<>>]) /\ Depth([p \in {o} |-> <<>>])[o] = 0
<1> DEFINE previous == [p \in {o} |-> <<>>]
           d == [p \in {o} |-> 0]
<1>1. \A e : IsDepth(e, previous) <=> e = d
    BY DEF IsDepth
<1>2. d \in [DOMAIN previous -> Nat] /\ previous[o] = <<>> /\ DOMAIN previous = {o}
    OBVIOUS
<1>3. Grounded(previous)
    <2> HIDE DEF d, previous
    <2> QED BY <1>1, <1>2 DEF Grounded
<1>4. Depth(previous) = d
    BY <1>1, <1>3, GroundedDepth
<1> QED BY <1>3, <1>4

\* The pair p was found from f.
Extended(previous, p, f) == [x \in DOMAIN previous \cup {p} |-> IF x = p THEN f ELSE previous[x]]

\* A new pair is one deeper than the one it was found from, and the others stay
\* where they were.
LEMMA DepthExtend ==
    ASSUME NEW previous, Grounded(previous), NEW p, p \notin DOMAIN previous,
           NEW f \in DOMAIN previous, f # <<>>, NEW new, new = Extended(previous, p, f)
    PROVE  /\ Grounded(new)
           /\ Depth(new)[p] = Depth(previous)[f] + 1
           /\ \A x \in DOMAIN previous : Depth(new)[x] = Depth(previous)[x]
<1> DEFINE d == Depth(previous)
           e == [x \in DOMAIN new |-> IF x = p THEN 1 + d[f] ELSE d[x]]
<1>1. /\ d \in [DOMAIN previous -> Nat] /\ IsDepth(d, previous)
      /\ \A g : IsDepth(g, previous) => g = d
    BY GroundedDepth
<1> HIDE DEF d
<1>2. /\ DOMAIN new = DOMAIN previous \cup {p} /\ new[p] = f
      /\ \A x \in DOMAIN previous : x # p /\ new[x] = previous[x]
      /\ \A x \in DOMAIN previous : previous[x] = <<>> \/ previous[x] \in DOMAIN previous
    BY DEF Grounded, Extended
<1>3. e \in [DOMAIN new -> Nat]
    BY <1>1, <1>2
<1>4. IsDepth(e, new)
    <2>1. ASSUME NEW x \in DOMAIN new
          PROVE  e[x] = IF new[x] = <<>> THEN 0 ELSE 1 + e[new[x]]
        <3>1. CASE x = p
            BY <1>2, <3>1
        <3>2. CASE x # p
            BY <1>1, <1>2, <3>2 DEF IsDepth
        <3> QED BY <3>1, <3>2
    <2> QED BY <2>1 DEF IsDepth
<1>5. ASSUME NEW g, IsDepth(g, new) PROVE g = e
    <2> DEFINE h == [x \in DOMAIN previous |-> g[x]]
    <2>1. g = [x \in DOMAIN new |-> IF new[x] = <<>> THEN 0 ELSE 1 + g[new[x]]]
        BY <1>5 DEF IsDepth
    <2>2. IsDepth(h, previous)
        BY <1>2, <2>1 DEF IsDepth
    <2>3. h = d
        BY <1>1, <2>2
    <2>4. \A x \in DOMAIN previous : g[x] = d[x]
        BY <2>3
    <2>5. g[p] = 1 + d[f]
        BY <1>2, <2>1, <2>4
    <2>6. g = [x \in DOMAIN new |-> g[x]]
        BY <2>1
    <2>7. \A x \in DOMAIN new : g[x] = IF x = p THEN 1 + d[f] ELSE d[x]
        BY <1>2, <2>4, <2>5
    <2> QED BY <2>6, <2>7
<1>6. Grounded(new)
    <2>1. \A x \in DOMAIN new : new[x] = <<>> \/ new[x] \in DOMAIN new
        BY <1>2
    <2> HIDE DEF e
    <2> QED BY <1>3, <1>4, <1>5, <2>1 DEF Grounded
<1>7. Depth(new) = e
    <2> HIDE DEF e
    <2> QED BY <1>5, <1>6, GroundedDepth
<1>8. \A x \in DOMAIN new : e[x] = IF x = p THEN 1 + d[f] ELSE d[x]
    OBVIOUS
<1>9. d[f] \in Nat
    BY <1>1
<1> HIDE DEF e
<1>10. Depth(new)[p] = d[f] + 1 /\ \A x \in DOMAIN previous : Depth(new)[x] = d[x]
    BY <1>2, <1>7, <1>8, <1>9
<1> QED BY <1>6, <1>10 DEF d

-----------------------------------------------------------------------------
(* The layers of a breadth-first search.                                   *)

\* Every visited pair is at the end of a walk as long as its depth, and the
\* depths are less than the number of visited pairs.
WalksOfDepth(previous, n) ==
    /\ DOMAIN previous \subseteq Product
    /\ \A p \in DOMAIN previous :
           /\ p \in WalkEnds(n)[Depth(previous)[p]]
           /\ Depth(previous)[p] < Cardinality(DOMAIN previous)

\* The queue is sorted by depth, and no visited pair is more than one deeper
\* than its front.
SortedQueue(previous, open) ==
    /\ open \in Seq(DOMAIN previous)
    /\ \A i, j \in DOMAIN open : i < j => Depth(previous)[open[i]] <= Depth(previous)[open[j]]
    /\ open # <<>> =>
           \A p \in DOMAIN previous : Depth(previous)[p] <= Depth(previous)[open[1]] + 1

\* A pair that left the queue has its successors at most one deeper.
ExpandedPairs(previous, open) ==
    \A p \in DOMAIN previous : \A q \in Product :
        (\A i \in DOMAIN open : open[i] # p) /\ Step(p, q) =>
            q \in DOMAIN previous /\ Depth(previous)[q] <= Depth(previous)[p] + 1

\* What a walk no longer than the depth of the front reaches was visited, and
\* is no deeper than the walk is long.
VisitedUpTo(previous, k, n) ==
    \A q \in WalkEnds(n)[k] : q \in DOMAIN previous /\ Depth(previous)[q] <= k

Layers(previous, open, n) ==
    /\ Grounded(previous)
    /\ WalksOfDepth(previous, n)
    /\ SortedQueue(previous, open)
    /\ ExpandedPairs(previous, open)
    /\ open # <<>> =>
           \A k \in Nat : k <= Depth(previous)[open[1]] => VisitedUpTo(previous, k, n)

LEMMA LayersOrigin ==
    ASSUME NEW n \in Nodes
    PROVE  Layers([p \in {Origin(n)} |-> <<>>], <<Origin(n)>>, n)
<1> DEFINE o == Origin(n)
           previous == [p \in {o} |-> <<>>]
           open == <<o>>
<1>1. Grounded(previous) /\ Depth(previous)[o] = 0 /\ DOMAIN previous = {o} /\ o \in Product
    BY DepthOrigin, AutomatonAssumption DEF Origin, Product
<1>2. WalkEnds(n)[0] = {o}
    BY WalkEndsStep
<1>3. Cardinality({o}) = 1
    BY FS_Singleton
<1>4. open \in Seq({o}) /\ DOMAIN open = {1} /\ open[1] = o /\ open # <<>>
    OBVIOUS
<1> HIDE DEF previous, o, open
<1>5. WalksOfDepth(previous, n)
    BY <1>1, <1>2, <1>3 DEF WalksOfDepth
<1>6. SortedQueue(previous, open)
    BY <1>1, <1>4 DEF SortedQueue
<1>7. ExpandedPairs(previous, open)
    BY <1>1, <1>4 DEF ExpandedPairs
<1>8. \A k \in Nat : k <= Depth(previous)[open[1]] => VisitedUpTo(previous, k, n)
    BY <1>1, <1>2, <1>4 DEF VisitedUpTo
<1>9. Layers(previous, open, n)
    BY <1>1, <1>5, <1>6, <1>7, <1>8 DEF Layers
<1> QED BY <1>9 DEF previous, open, o

\* The front leaves the queue once all its successors were visited.
LEMMA LayersPop ==
    ASSUME NEW n \in Nodes, NEW previous, NEW open, Layers(previous, open, n), open # <<>>,
           \A q \in Product : Step(open[1], q) => q \in DOMAIN previous
    PROVE  Layers(previous, Tail(open), n)
<1> DEFINE d == Depth(previous)
           rest == Tail(open)
<1>1. d \in [DOMAIN previous -> Nat] /\ open \in Seq(DOMAIN previous)
    BY GroundedDepth DEF Layers, SortedQueue
<1>2. /\ open[1] \in DOMAIN previous /\ rest \in Seq(DOMAIN previous)
      /\ 1 \in DOMAIN open
      /\ \A i \in DOMAIN rest : i + 1 \in DOMAIN open /\ rest[i] = open[i + 1] /\ i \in Nat
      /\ \A i \in DOMAIN open : i = 1 \/ (i - 1 \in DOMAIN rest /\ rest[i - 1] = open[i])
      /\ rest # <<>> => 1 \in DOMAIN rest
    BY <1>1
<1> HIDE DEF rest
<1>3. /\ \A i, j \in DOMAIN open : i < j => d[open[i]] <= d[open[j]]
      /\ \A p \in DOMAIN previous : d[p] <= d[open[1]] + 1
    BY DEF Layers, SortedQueue
<1>4. rest # <<>> =>
          rest[1] \in DOMAIN previous /\ rest[1] = open[2] /\ 2 \in DOMAIN open
          /\ d[open[1]] <= d[rest[1]] /\ d[rest[1]] <= d[open[1]] + 1
    <2> SUFFICES ASSUME rest # <<>>
                 PROVE  rest[1] \in DOMAIN previous /\ rest[1] = open[2] /\ 2 \in DOMAIN open
                        /\ d[open[1]] <= d[rest[1]] /\ d[rest[1]] <= d[open[1]] + 1
        OBVIOUS
    <2>1. 1 \in DOMAIN rest /\ rest[1] \in DOMAIN previous
        BY <1>2
    <2>2. 1 + 1 \in DOMAIN open /\ rest[1] = open[1 + 1]
        BY <1>2, <2>1
    <2>3. 2 \in DOMAIN open /\ rest[1] = open[2]
        BY <2>2
    <2> QED BY <1>2, <1>3, <2>1, <2>3
<1>5. SortedQueue(previous, rest)
    <2>1. ASSUME NEW i \in DOMAIN rest, NEW j \in DOMAIN rest, i < j
          PROVE  d[rest[i]] <= d[rest[j]]
        <3>1. i + 1 \in DOMAIN open /\ j + 1 \in DOMAIN open /\ i + 1 < j + 1
            BY <1>2, <2>1
        <3> QED BY <1>2, <1>3, <3>1
    <2>2. ASSUME rest # <<>>, NEW p \in DOMAIN previous PROVE d[p] <= d[rest[1]] + 1
        <3>1. d[p] <= d[open[1]] + 1 /\ d[open[1]] <= d[rest[1]]
            BY <1>3, <1>4, <2>2
        <3>2. d[p] \in Nat /\ d[open[1]] \in Nat /\ d[rest[1]] \in Nat
            BY <1>1, <1>2, <1>4, <2>2
        <3> QED BY <3>1, <3>2
    <2> QED BY <1>2, <2>1, <2>2 DEF SortedQueue
<1>6. ExpandedPairs(previous, rest)
    <2> SUFFICES ASSUME NEW p \in DOMAIN previous, NEW q \in Product,
                        \A i \in DOMAIN rest : rest[i] # p, Step(p, q)
                 PROVE  q \in DOMAIN previous /\ d[q] <= d[p] + 1
        BY DEF ExpandedPairs
    <2>1. CASE p = open[1]
        BY <1>3, <2>1
    <2>2. CASE p # open[1]
        <3>1. \A i \in DOMAIN open : open[i] # p
            BY <1>2, <2>2
        <3> QED BY <3>1 DEF Layers, ExpandedPairs
    <2> QED BY <2>1, <2>2
<1>7. ASSUME rest # <<>>, NEW k \in Nat, k <= d[rest[1]] PROVE VisitedUpTo(previous, k, n)
    <2>0. d[open[1]] \in Nat /\ d[rest[1]] \in Nat
        BY <1>1, <1>2, <1>4, <1>7
    <2>1. CASE k <= d[open[1]]
        BY <2>1 DEF Layers
    <2>2. CASE k > d[open[1]]
        <3>1. k = d[open[1]] + 1 /\ k = d[rest[1]] /\ k - 1 \in Nat /\ k - 1 = d[open[1]]
            BY <1>4, <1>7, <2>0, <2>2
        <3>2. ASSUME NEW q \in WalkEnds(n)[k] PROVE q \in DOMAIN previous /\ d[q] <= k
            <4>1. WalkEnds(n)[(k - 1) + 1] = UNION {Successors[p] : p \in WalkEnds(n)[k - 1]}
                  /\ WalkEnds(n)[k - 1] \in SUBSET Product
                BY <3>1, WalkEndsStep
            <4>2. PICK p \in WalkEnds(n)[k - 1] : q \in Successors[p]
                BY <3>1, <3>2, <4>1
            <4>3. p \in Product /\ q \in Product /\ Step(p, q)
                BY <4>1, <4>2 DEF Successors
            <4>4. p \in DOMAIN previous /\ d[p] <= k - 1
                BY <3>1 DEF Layers, VisitedUpTo
            <4>5. ASSUME NEW i \in DOMAIN rest PROVE rest[i] # p
                <5>1. rest[i] \in DOMAIN previous /\ d[rest[1]] <= d[rest[i]]
                    <6>1. i = 1 \/ 1 < i
                        BY <1>2
                    <6>2. rest[i] \in DOMAIN previous /\ 1 \in DOMAIN rest
                        BY <1>2, <1>7
                    <6>3. d[rest[i]] \in Nat
                        BY <1>1, <6>2
                    <6> QED BY <1>5, <6>1, <6>2, <6>3, <2>0 DEF SortedQueue
                <5>2. d[p] \in Nat /\ d[rest[i]] \in Nat
                    BY <1>1, <4>4, <5>1
                <5> QED BY <2>0, <3>1, <4>4, <5>1, <5>2
            <4>6. q \in DOMAIN previous /\ d[q] <= d[p] + 1
                BY <1>6, <4>3, <4>4, <4>5 DEF ExpandedPairs
            <4>7. d[q] \in Nat /\ d[p] \in Nat
                BY <1>1, <4>4, <4>6
            <4> QED BY <4>4, <4>6, <4>7
        <3> QED BY <3>2 DEF VisitedUpTo
    <2> QED BY <2>0, <2>1, <2>2
<1> QED BY <1>5, <1>6, <1>7 DEF Layers, rest

LEMMA ProductFinite == IsFiniteSet(Product)
BY FiniteAssumption, FS_Product DEF Product

\* A step from a reachable pair ends in a reachable pair.
LEMMA ReachableStep ==
    ASSUME NEW n \in Nodes, NEW p \in Reachable[n], NEW q \in Product, Step(p, q)
    PROVE  q \in Reachable[n]
<1>1. Reachable[n] = {x \in Product : \A S \in ClosedSets : Origin(n) \in S => x \in S}
    BY DEF Reachable
<1>2. p \in Product /\ q \in Successors[p]
    BY <1>1 DEF Successors
<1>3. ASSUME NEW S \in ClosedSets, Origin(n) \in S PROVE q \in S
  <2>1. p \in S
      BY <1>1, <1>3
  <2>2. \A x \in S : Successors[x] \subseteq S
      BY <1>3 DEF ClosedSets
  <2> QED
      BY <1>2, <2>1, <2>2
<1> QED
    BY <1>1, <1>3

LEMMA ReachableOrigin == ASSUME NEW n \in Nodes PROVE Origin(n) \in Reachable[n]
BY AutomatonAssumption DEF Reachable, Product, Origin

\* A set that holds the origin and is closed under steps holds every reachable pair.
LEMMA ReachableLeast ==
    ASSUME NEW n \in Nodes, NEW S \in SUBSET Product, Origin(n) \in S,
           \A p \in S : \A q \in Product : Step(p, q) => q \in S
    PROVE  Reachable[n] \subseteq S
<1>1. S \in ClosedSets
    BY DEF ClosedSets, Successors
<1> QED
    BY <1>1 DEF Reachable

LEMMA PairNotNull == ASSUME NEW p \in Product PROVE p # <<>>
<1>1. PICK a, b : p = <<a, b>>
    BY DEF Product
<1>2. Len(<<a, b>>) = 2 /\ Len(<<>>) = 0
    OBVIOUS
<1> QED BY <1>1, <1>2

\* The top of a stack, and what is below it.
LEMMA StackTop ==
    ASSUME NEW S, NEW s \in Seq(S), s # <<>>
    PROVE  /\ Len(s) \in Nat \ {0} /\ Len(s) \in DOMAIN s /\ DOMAIN s = 1 .. Len(s)
           /\ s[Len(s)] \in S
           /\ SubSeq(s, 1, Len(s) - 1) \in Seq(S)
           /\ Len(SubSeq(s, 1, Len(s) - 1)) = Len(s) - 1
           /\ \A i \in 1 .. Len(s) - 1 : SubSeq(s, 1, Len(s) - 1)[i] = s[i]
<1>1. Len(s) \in Nat \ {0} /\ DOMAIN s = 1 .. Len(s)
    BY EmptySeq
<1>2. Len(s) \in DOMAIN s /\ s[Len(s)] \in S
    BY <1>1
<1>3. /\ SubSeq(s, 1, Len(s) - 1) \in Seq(S)
      /\ Len(SubSeq(s, 1, Len(s) - 1)) = Len(s) - 1
      /\ \A i \in 1 .. Len(s) - 1 : SubSeq(s, 1, Len(s) - 1)[i] = s[i]
    BY <1>1
<1> QED BY <1>1, <1>2, <1>3

\* Another element in one place of a sequence.
LEMMA ExceptFacts ==
    ASSUME NEW s, NEW n \in DOMAIN s, NEW f
    PROVE  /\ DOMAIN [s EXCEPT ![n] = f] = DOMAIN s
           /\ [s EXCEPT ![n] = f][n] = f
           /\ \A i \in DOMAIN s : i # n => [s EXCEPT ![n] = f][i] = s[i]
OBVIOUS

LEMMA OneNotEmpty == ASSUME NEW x PROVE <<x>> # <<>>
<1>1. Len(<<x>>) = 1 /\ Len(<<>>) = 0
    OBVIOUS
<1> QED BY <1>1

LEMMA AppendFacts ==
    ASSUME NEW S, NEW s \in Seq(S), NEW x, s # <<>>
    PROVE  /\ Append(s, x) \in Seq(S \cup {x}) /\ Append(s, x) # <<>>
           /\ 1 \in DOMAIN s /\ Append(s, x)[1] = s[1]
           /\ \A i \in DOMAIN s : i \in DOMAIN Append(s, x) /\ Append(s, x)[i] = s[i] /\ s[i] \in S
           /\ \A i \in DOMAIN Append(s, x) :
                  \/ i \in DOMAIN s /\ Append(s, x)[i] = s[i]
                  \/ i = Len(s) + 1 /\ Append(s, x)[i] = x
           /\ \A i \in DOMAIN s : i \in Nat /\ i < Len(s) + 1 /\ Len(s) \in Nat
           /\ Len(s) + 1 \in DOMAIN Append(s, x) /\ Append(s, x)[Len(s) + 1] = x
<1>1. s \in Seq(S \cup {x})
    OBVIOUS
<1>2. /\ Append(s, x) \in Seq(S \cup {x}) /\ Len(Append(s, x)) = Len(s) + 1
      /\ \A i \in 1 .. Len(s) : Append(s, x)[i] = s[i]
      /\ Append(s, x)[Len(s) + 1] = x
    BY <1>1, AppendProperties
<1>3. Len(s) \in Nat /\ Len(s) > 0 /\ DOMAIN s = 1 .. Len(s)
    OBVIOUS
<1>4. DOMAIN Append(s, x) = 1 .. Len(s) + 1 /\ Append(s, x) # <<>>
    BY <1>2, <1>3
<1> QED BY <1>2, <1>3, <1>4

\* A new successor of the front goes to the end of the queue.
LEMMA LayersPush ==
    ASSUME NEW n \in Nodes, NEW previous, NEW open, Layers(previous, open, n), open # <<>>,
           NEW p \in Product, p \notin DOMAIN previous, Step(open[1], p),
           NEW new, new = Extended(previous, p, open[1])
    PROVE  /\ Layers(new, Append(open, p), n)
           /\ Depth(new)[p] = Depth(previous)[open[1]] + 1
           /\ \A x \in DOMAIN previous : Depth(new)[x] = Depth(previous)[x]
<1> DEFINE d == Depth(previous)
           e == Depth(new)
           longer == Append(open, p)
<1>1. /\ d \in [DOMAIN previous -> Nat] /\ open \in Seq(DOMAIN previous)
      /\ DOMAIN previous \subseteq Product
    BY GroundedDepth DEF Layers, SortedQueue, WalksOfDepth
<1>2. open[1] \in DOMAIN previous /\ open[1] \in Product /\ open[1] # <<>>
    BY <1>1, PairNotNull
<1>3. Grounded(new) /\ e[p] = d[open[1]] + 1 /\ \A x \in DOMAIN previous : e[x] = d[x]
    <2>1. Grounded(previous)
        BY DEF Layers
    <2> QED BY <1>2, <2>1, DepthExtend
<1>4. DOMAIN new = DOMAIN previous \cup {p} /\ d[open[1]] \in Nat
    BY <1>1, <1>2 DEF Extended
<1>5. /\ longer \in Seq(DOMAIN new) /\ longer # <<>> /\ longer[1] = open[1]
      /\ \A i \in DOMAIN open : i \in DOMAIN longer /\ longer[i] = open[i] /\ open[i] \in DOMAIN previous
      /\ \A i \in DOMAIN longer :
             \/ i \in DOMAIN open /\ longer[i] = open[i]
             \/ i = Len(open) + 1 /\ longer[i] = p
      /\ \A i \in DOMAIN open : i \in Nat /\ i < Len(open) + 1 /\ Len(open) \in Nat
      /\ Len(open) + 1 \in DOMAIN longer /\ longer[Len(open) + 1] = p
    BY <1>1, <1>4, AppendFacts
<1> HIDE DEF d, e, longer
<1>6. WalksOfDepth(new, n)
    <2>1. DOMAIN new \subseteq Product
        BY <1>1, <1>4
    <2>2. IsFiniteSet(DOMAIN previous)
        BY <1>1, ProductFinite, FS_Subset
    <2>3. /\ Cardinality(DOMAIN new) = Cardinality(DOMAIN previous) + 1
          /\ Cardinality(DOMAIN previous) \in Nat
        BY <1>4, <2>2, FS_AddElement, FS_CardinalityType
    <2>4. \A x \in DOMAIN previous :
              x \in WalkEnds(n)[d[x]] /\ d[x] < Cardinality(DOMAIN previous) /\ d[x] \in Nat
        BY <1>1 DEF Layers, WalksOfDepth, d
    <2>5. p \in WalkEnds(n)[d[open[1]] + 1]
        <3>1. open[1] \in WalkEnds(n)[d[open[1]]]
            BY <1>2, <2>4
        <3>2. p \in Successors[open[1]]
            BY <1>2 DEF Successors
        <3> QED BY <1>4, <3>1, <3>2, WalkEndsStep
    <2>6. ASSUME NEW x \in DOMAIN new
          PROVE  x \in WalkEnds(n)[e[x]] /\ e[x] < Cardinality(DOMAIN new)
        <3>1. CASE x = p
            BY <1>2, <1>3, <2>3, <2>4, <2>5, <3>1
        <3>2. CASE x # p
            BY <1>3, <1>4, <2>3, <2>4, <3>2
        <3> QED BY <3>1, <3>2
    <2> QED BY <2>1, <2>6 DEF WalksOfDepth, e
<1>7. SortedQueue(new, longer)
    <2>1. /\ \A i, j \in DOMAIN open : i < j => d[open[i]] <= d[open[j]]
          /\ \A x \in DOMAIN previous : d[x] <= d[open[1]] + 1
        BY DEF Layers, SortedQueue, d
    <2>2. ASSUME NEW i \in DOMAIN longer, NEW j \in DOMAIN longer, i < j
          PROVE  e[longer[i]] <= e[longer[j]]
        <3>1. i \in DOMAIN open /\ longer[i] = open[i] /\ open[i] \in DOMAIN previous
            BY <1>5, <2>2
        <3>2. CASE j \in DOMAIN open
            BY <1>3, <1>5, <2>1, <2>2, <3>1, <3>2
        <3>3. CASE j \notin DOMAIN open
            BY <1>3, <1>5, <2>1, <3>1, <3>3
        <3> QED BY <3>2, <3>3
    <2>3. \A x \in DOMAIN new : e[x] <= e[longer[1]] + 1
        BY <1>2, <1>3, <1>4, <1>5, <2>1
    <2> QED BY <1>5, <2>2, <2>3 DEF SortedQueue, e
<1>8. ExpandedPairs(new, longer)
    <2> SUFFICES ASSUME NEW x \in DOMAIN new, NEW q \in Product,
                        \A i \in DOMAIN longer : longer[i] # x, Step(x, q)
                 PROVE  q \in DOMAIN new /\ e[q] <= e[x] + 1
        BY DEF ExpandedPairs, e
    <2>1. x \in DOMAIN previous /\ \A i \in DOMAIN open : open[i] # x
        BY <1>4, <1>5
    <2>2. q \in DOMAIN previous /\ d[q] <= d[x] + 1
        BY <2>1 DEF Layers, ExpandedPairs, d
    <2> QED BY <1>3, <1>4, <2>1, <2>2
<1>9. ASSUME NEW k \in Nat, k <= e[longer[1]] PROVE VisitedUpTo(new, k, n)
    <2>1. k <= d[open[1]]
        BY <1>2, <1>3, <1>5, <1>9
    <2>2. \A q \in WalkEnds(n)[k] : q \in DOMAIN previous /\ d[q] <= k
        BY <2>1 DEF Layers, VisitedUpTo, d
    <2> QED BY <1>3, <1>4, <2>2 DEF VisitedUpTo, e
<1>10. Layers(new, longer, n)
    BY <1>3, <1>6, <1>7, <1>8, <1>9 DEF Layers, e
<1> QED BY <1>3, <1>10 DEF d, e, longer

-----------------------------------------------------------------------------
(* Shortest answers.                                                       *)

\* The distance of an answer is the length of a walk to it when no shorter walk
\* answers with the same node.
LEMMA DistanceOf ==
    ASSUME NEW n \in Nodes, NEW k \in 0 .. Cardinality(Product), NEW p \in WalkEnds(n)[k], IsFinal(p),
           \A j \in 0 .. k - 1 : \A q \in WalkEnds(n)[j] : IsFinal(q) => q[2] # p[2]
    PROVE  AnswerDistance[n][p[2]] = k
<1> DEFINE ends == WalkEnds(n)
           at == [j \in 0 .. Cardinality(Product) |->
                     {x[2] : x \in {y \in ends[j] : y[1] \in FinalStates}}]
           a == p[2]
           First(j) == a \in at[j] /\ \A i \in 0 .. j - 1 : a \notin at[i]
<1>1. AnswerDistance[n] =
          [b \in UNION {at[j] : j \in DOMAIN at} |->
              CHOOSE j \in DOMAIN at : b \in at[j] /\ \A i \in 0 .. j - 1 : b \notin at[i]]
    BY GraphAssumption DEF AnswerDistance, DistancesTo
<1>2. Cardinality(Product) \in Nat /\ k \in Nat /\ k <= Cardinality(Product)
    BY ProductFinite, FS_CardinalityType
<1>3. DOMAIN at = 0 .. Cardinality(Product) /\ k \in DOMAIN at /\ a \in at[k]
    BY DEF IsFinal
<1>4. ASSUME NEW j \in 0 .. k - 1 PROVE j \in DOMAIN at /\ a \notin at[j]
    BY <1>2, <1>4 DEF IsFinal
<1> HIDE DEF at, a
<1>5. First(k)
    BY <1>3, <1>4
<1>6. \A j \in DOMAIN at : First(j) => j = k
    <2> SUFFICES ASSUME NEW j \in DOMAIN at, First(j), j # k PROVE FALSE
        OBVIOUS
    <2>1. j \in Nat
        BY <1>2, <1>3
    <2>2. CASE j < k
        BY <1>4, <2>1, <2>2, <1>2
    <2>3. CASE k < j
        BY <1>3, <2>1, <2>3, <1>2
    <2> QED BY <1>2, <2>1, <2>2, <2>3
<1>7. AnswerDistance[n][a] = CHOOSE j \in DOMAIN at : First(j)
    BY <1>1, <1>3
<1>8. AnswerDistance[n][a] = k
    <2> HIDE DEF First
    <2> QED BY <1>3, <1>5, <1>6, <1>7
<1> QED BY <1>8 DEF a

\* A node that was not reached in a final state before is reached by a shortest
\* walk.
LEMMA AnswerIsShortest ==
    ASSUME NEW n \in Nodes, NEW previous, NEW open, Layers(previous, open, n), open # <<>>,
           NEW p \in Product, p \notin DOMAIN previous, Step(open[1], p), IsFinal(p),
           \A q \in DOMAIN previous : IsFinal(q) => q[2] # p[2]
    PROVE  AnswerDistance[n][p[2]] = Depth(previous)[open[1]] + 1
<1> DEFINE d == Depth(previous)
           k == d[open[1]] + 1
<1>1. /\ d \in [DOMAIN previous -> Nat] /\ open \in Seq(DOMAIN previous)
      /\ DOMAIN previous \subseteq Product
    BY GroundedDepth DEF Layers, SortedQueue, WalksOfDepth
<1>2. open[1] \in DOMAIN previous /\ d[open[1]] \in Nat
    BY <1>1
<1>3. open[1] \in WalkEnds(n)[d[open[1]]] /\ d[open[1]] < Cardinality(DOMAIN previous)
    BY <1>2 DEF Layers, WalksOfDepth
<1>4. p \in WalkEnds(n)[k]
    <2>1. p \in Successors[open[1]]
        BY <1>1, <1>2 DEF Successors
    <2> QED BY <1>2, <1>3, <2>1, WalkEndsStep
<1>5. k \in 0 .. Cardinality(Product)
    <2>1. /\ Cardinality(DOMAIN previous) <= Cardinality(Product)
          /\ Cardinality(DOMAIN previous) \in Nat /\ Cardinality(Product) \in Nat
        BY <1>1, ProductFinite, FS_Subset, FS_CardinalityType
    <2> HIDE DEF d
    <2> QED BY <1>2, <1>3, <2>1
<1>6. ASSUME NEW j \in 0 .. k - 1, NEW q \in WalkEnds(n)[j], IsFinal(q) PROVE q[2] # p[2]
    <2>1. j \in Nat /\ j <= d[open[1]]
        BY <1>2
    <2>2. q \in DOMAIN previous
        BY <2>1 DEF Layers, VisitedUpTo
    <2> QED BY <1>6, <2>2
<1> HIDE DEF k
<1>7. AnswerDistance[n][p[2]] = k
    BY <1>4, <1>5, <1>6, DistanceOf
<1> QED BY <1>7 DEF k

\* While nothing else is visited the origin is at depth 0.
LEMMA OriginDepth ==
    ASSUME NEW n \in Nodes, NEW previous, NEW open, Layers(previous, open, n),
           DOMAIN previous = {Origin(n)}
    PROVE  Depth(previous)[Origin(n)] = 0
<1>1. Depth(previous)[Origin(n)] < Cardinality({Origin(n)})
    BY DEF Layers, WalksOfDepth
<1>2. Depth(previous)[Origin(n)] \in Nat
    BY GroundedDepth DEF Layers
<1>3. Cardinality({Origin(n)}) = 1
    BY FS_Singleton
<1> QED BY <1>1, <1>2, <1>3

\* The start node answers with the walk of no steps.
LEMMA OriginIsShortest ==
    ASSUME NEW n \in Nodes, StartState \in FinalStates
    PROVE  AnswerDistance[n][n] = 0
<1>1. Origin(n) \in WalkEnds(n)[0] /\ IsFinal(Origin(n)) /\ Origin(n)[2] = n
    BY WalkEndsStep DEF IsFinal, Origin
<1>2. 0 \in 0 .. Cardinality(Product)
    BY ProductFinite, FS_CardinalityType
<1> QED BY <1>1, <1>2, DistanceOf
=============================================================================
