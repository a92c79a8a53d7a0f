-------------------------- MODULE PathSearchProofs --------------------------
(***************************************************************************)
(* The path iterators of the operator for all shortest paths; the queue of *)
(* the one that counts them; the operator that knows neither end; and that *)
(* what AnyOperatorsProofs and PathOperatorsProofs prove of a family of    *)
(* operators holds of PathSearch.                                          *)
(***************************************************************************)
EXTENDS PathSearch, TLAPS

-----------------------------------------------------------------------------
(* The operator for all shortest paths: the iterators over the transitions *)
(* that lead to a state.                                                   *)

ShortestP == INSTANCE BreadthFirst WITH
    NodeIds <- ShortestGraph.node_ids, Nodes <- ShortestGraph.nodes,
    Types <- ShortestGraph.types, Edges <- ShortestGraph.edges, States <- ShortestGraph.states,
    StartState <- ShortestGraph.start, FinalStates <- ShortestGraph.final,
    Connections <- ShortestGraph.connections

\* What PathSearch assumes of the graph and the automaton of a family is what the
\* proofs about the family rest on.
LEMMA ShortestGraphAssumption == ShortestP!GraphAssumption
BY GraphAssumption

LEMMA ShortestAutomatonAssumption == ShortestP!AutomatonAssumption
BY AutomatonAssumption DEF Shortest!Transition, ShortestP!Transition

LEMMA ShortestFiniteAssumption == ShortestP!FiniteAssumption
BY FiniteAssumption DEF Shortest!IsFiniteSet, ShortestP!IsFiniteSet

\* A visited state is one step further than the states it was reached from, and only
\* the first one was not reached.
BackOneStep ==
    \A p \in DOMAIN visited :
        /\ visited[p].distance \in Nat
        /\ Len(visited[p].transitions) \in Nat
        /\ DOMAIN visited[p].transitions = 1 .. Len(visited[p].transitions)
        /\ visited[p].transitions = <<>> <=> Len(visited[p].transitions) = 0
        /\ \A k \in DOMAIN visited[p].transitions :
               /\ visited[p].transitions[k].previous \in DOMAIN visited
               /\ visited[visited[p].transitions[k].previous].distance + 1 = visited[p].distance
        /\ visited[p].transitions = <<>> => visited[p].distance = 0

Positions == Shortest!Paths!Positions
Moves == [more : BOOLEAN, current : Positions]
Arguments == Positions \X DOMAIN visited
Previous(p, k) == visited[p].transitions[k].previous
Moved(c, p, k) == [c EXCEPT ![p] = k]

\* The positions after p moved to its k-th transition, those before it to their first.
Begins(g, c, p, k) == g[<<Moved(c, p, k), Previous(p, k)>>].current

\* What PathIter::next does, with g for the calls it makes.
NextBy(g, c, p) ==
    CASE visited[p].transitions = <<>> -> [more |-> FALSE, current |-> c]
      [] visited[p].transitions # <<>> /\ c[p] = 0 -> [more |-> TRUE, current |-> Begins(g, c, p, 1)]
      [] visited[p].transitions # <<>> /\ c[p] # 0 ->
             IF g[<<c, Previous(p, c[p])>>].more THEN g[<<c, Previous(p, c[p])>>]
             ELSE IF c[p] = Len(visited[p].transitions)
             THEN [more |-> FALSE, current |-> Moved(g[<<c, Previous(p, c[p])>>].current, p, 0)]
             ELSE [more |-> TRUE,
                   current |-> Begins(g, g[<<c, Previous(p, c[p])>>].current, p, c[p] + 1)]

Body(g) == [a \in Arguments |-> NextBy(g, a[1], a[2])]

LEMMA PathIterNextIs == Shortest!Paths!PathIterNext = CHOOSE g : g = Body(g)
BY DEF Shortest!Paths!PathIterNext, Body, NextBy, Begins, Moved, Previous, Arguments, Positions,
       Shortest!Paths!Finish

\* A call of next() is one for a state that is one step closer to the start.
LEMMA PreviousFacts ==
    ASSUME BackOneStep, NEW p \in DOMAIN visited, NEW k \in 1 .. Len(visited[p].transitions)
    PROVE  /\ Previous(p, k) \in DOMAIN visited
           /\ visited[Previous(p, k)].distance \in Nat /\ visited[p].distance \in Nat
           /\ visited[Previous(p, k)].distance + 1 = visited[p].distance
<1>1. k \in DOMAIN visited[p].transitions
    BY DEF BackOneStep
<1> QED BY <1>1 DEF BackOneStep, Previous

LEMMA MovedFacts ==
    ASSUME BackOneStep, NEW c \in Positions, NEW p \in DOMAIN visited,
           NEW k \in 0 .. Len(visited[p].transitions)
    PROVE  /\ Moved(c, p, k) \in Positions /\ Moved(c, p, k)[p] = k
           /\ \A x \in DOMAIN visited : x # p => Moved(c, p, k)[x] = c[x]
<1>1. Len(visited[p].transitions) \in Nat
    BY DEF BackOneStep
<1>2. c \in [DOMAIN visited -> Nat] /\ \A x \in DOMAIN visited : c[x] <= Len(visited[x].transitions)
    BY DEF Positions, Shortest!Paths!Positions
<1>3. Moved(c, p, k) \in [DOMAIN visited -> Nat]
    BY <1>1, <1>2 DEF Moved
<1>4. Moved(c, p, k)[p] = k /\ \A x \in DOMAIN visited : x # p => Moved(c, p, k)[x] = c[x]
    BY <1>2 DEF Moved
<1>5. ASSUME NEW x \in DOMAIN visited PROVE Moved(c, p, k)[x] <= Len(visited[x].transitions)
  <2>1. CASE x = p
      BY <1>1, <1>4, <2>1
  <2>2. CASE x # p
      BY <1>2, <1>4, <2>2
  <2> QED BY <2>1, <2>2
<1> QED BY <1>3, <1>4, <1>5 DEF Positions, Shortest!Paths!Positions

LEMMA PositionFacts ==
    ASSUME BackOneStep, NEW c \in Positions, NEW p \in DOMAIN visited
    PROVE  /\ c[p] \in 0 .. Len(visited[p].transitions) /\ Len(visited[p].transitions) \in Nat
           /\ visited[p].transitions = <<>> <=> Len(visited[p].transitions) = 0
           /\ DOMAIN c = DOMAIN visited
BY DEF Positions, Shortest!Paths!Positions, BackOneStep

\* next() takes positions to positions.
LEMMA NextByType ==
    ASSUME BackOneStep, NEW g \in [Arguments -> Moves], NEW c \in Positions, NEW p \in DOMAIN visited
    PROVE  NextBy(g, c, p) \in Moves
<1> DEFINE q == Previous(p, c[p])
           l == Len(visited[p].transitions)
           before == g[<<c, q>>]
<1>1. c[p] \in 0 .. l /\ l \in Nat
    BY PositionFacts
<1>2. ASSUME NEW d \in Positions, NEW k \in 1 .. l PROVE Begins(g, d, p, k) \in Positions
  <2>1. <<Moved(d, p, k), Previous(p, k)>> \in Arguments
    <3>1. k \in 0 .. l
        BY <1>1
    <3> QED BY <3>1, MovedFacts, PreviousFacts DEF Arguments
  <2>2. g[<<Moved(d, p, k), Previous(p, k)>>] \in Moves
      BY <2>1
  <2> QED BY <2>2 DEF Begins, Moves
<1>3. c[p] # 0 => before \in Moves
  <2>1. c[p] # 0 => <<c, q>> \in Arguments
      BY <1>1, PreviousFacts DEF Arguments
  <2> QED BY <2>1
<1>4. \A m \in Moves : m.more \in BOOLEAN /\ m.current \in Positions
    BY DEF Moves
<1>5. \A b \in BOOLEAN, d \in Positions : [more |-> b, current |-> d] \in Moves
    BY DEF Moves
<1>0. /\ l = 0 => NextBy(g, c, p) = [more |-> FALSE, current |-> c]
      /\ l # 0 /\ c[p] = 0 => NextBy(g, c, p) = [more |-> TRUE, current |-> Begins(g, c, p, 1)]
      /\ l # 0 /\ c[p] # 0 /\ before.more => NextBy(g, c, p) = before
      /\ l # 0 /\ c[p] # 0 /\ ~before.more /\ c[p] = l =>
             NextBy(g, c, p) = [more |-> FALSE, current |-> Moved(before.current, p, 0)]
      /\ l # 0 /\ c[p] # 0 /\ ~before.more /\ c[p] # l =>
             NextBy(g, c, p) = [more |-> TRUE, current |-> Begins(g, before.current, p, c[p] + 1)]
  <2>1. visited[p].transitions = <<>> <=> l = 0
      BY PositionFacts
  <2> QED BY <2>1 DEF NextBy
<1> HIDE DEF q, l, before
<1>6. CASE l = 0
    BY <1>5, <1>6, <1>0
<1>7. CASE l # 0 /\ c[p] = 0
  <2>1. 1 \in 1 .. l
      BY <1>1, <1>7
  <2> QED BY <1>2, <1>5, <1>7, <2>1, <1>0
<1>8. CASE l # 0 /\ c[p] # 0 /\ before.more
    BY <1>3, <1>8, <1>0
<1>9. CASE l # 0 /\ c[p] # 0 /\ ~before.more /\ c[p] = l
  <2>1. 0 \in 0 .. l /\ before.current \in Positions
      BY <1>1, <1>3, <1>4, <1>9
  <2>2. Moved(before.current, p, 0) \in Positions
      BY <2>1, MovedFacts
  <2> QED BY <1>5, <1>9, <2>2, <1>0
<1>10. CASE l # 0 /\ c[p] # 0 /\ ~before.more /\ c[p] # l
  <2>1. c[p] + 1 \in 1 .. l /\ before.current \in Positions
      BY <1>1, <1>3, <1>4, <1>10
  <2>2. Begins(g, before.current, p, c[p] + 1) \in Positions
      BY <1>2, <2>1
  <2> QED BY <1>5, <1>10, <2>2, <1>0
<1> QED BY <1>6, <1>7, <1>8, <1>9, <1>10

\* next() of a state depends on next() of the states one step closer only.
LEMMA NextByLocal ==
    ASSUME BackOneStep, NEW g, NEW h \in [Arguments -> Moves],
           NEW c \in Positions, NEW p \in DOMAIN visited,
           \A d \in Positions, q \in DOMAIN visited :
               visited[q].distance + 1 = visited[p].distance => g[<<d, q>>] = h[<<d, q>>]
    PROVE  NextBy(g, c, p) = NextBy(h, c, p)
<1> DEFINE q == Previous(p, c[p])
           l == Len(visited[p].transitions)
           before == h[<<c, q>>]
<1>1. c[p] \in 0 .. l /\ l \in Nat
    BY PositionFacts
<1>2. ASSUME NEW d \in Positions, NEW k \in 1 .. l PROVE Begins(g, d, p, k) = Begins(h, d, p, k)
  <2>1. k \in 0 .. l
      BY <1>1
  <2>2. /\ Moved(d, p, k) \in Positions /\ Previous(p, k) \in DOMAIN visited
        /\ visited[Previous(p, k)].distance + 1 = visited[p].distance
      BY <2>1, MovedFacts, PreviousFacts
  <2> QED BY <2>2 DEF Begins
<1>3. c[p] # 0 =>
          /\ g[<<c, q>>] = before /\ before \in Moves
          /\ before.current \in Positions
  <2>1. c[p] # 0 => q \in DOMAIN visited /\ visited[q].distance + 1 = visited[p].distance
      BY <1>1, PreviousFacts
  <2>2. c[p] # 0 => <<c, q>> \in Arguments
      BY <2>1 DEF Arguments
  <2>3. c[p] # 0 => g[<<c, q>>] = before
      BY <2>1
  <2> QED BY <2>2, <2>3 DEF Moves
<1>0. /\ l = 0 => NextBy(h, c, p) = [more |-> FALSE, current |-> c]
      /\ l # 0 /\ c[p] = 0 => NextBy(h, c, p) = [more |-> TRUE, current |-> Begins(h, c, p, 1)]
      /\ l # 0 /\ c[p] # 0 /\ before.more => NextBy(h, c, p) = before
      /\ l # 0 /\ c[p] # 0 /\ ~before.more /\ c[p] = l =>
             NextBy(h, c, p) = [more |-> FALSE, current |-> Moved(before.current, p, 0)]
      /\ l # 0 /\ c[p] # 0 /\ ~before.more /\ c[p] # l =>
             NextBy(h, c, p) = [more |-> TRUE, current |-> Begins(h, before.current, p, c[p] + 1)]
  <2>1. visited[p].transitions = <<>> <=> l = 0
      BY PositionFacts
  <2> QED BY <2>1 DEF NextBy
<1>9. /\ l = 0 => NextBy(g, c, p) = [more |-> FALSE, current |-> c]
      /\ l # 0 /\ c[p] = 0 => NextBy(g, c, p) = [more |-> TRUE, current |-> Begins(g, c, p, 1)]
      /\ l # 0 /\ c[p] # 0 /\ g[<<c, q>>].more => NextBy(g, c, p) = g[<<c, q>>]
      /\ l # 0 /\ c[p] # 0 /\ ~g[<<c, q>>].more /\ c[p] = l =>
             NextBy(g, c, p) = [more |-> FALSE, current |-> Moved(g[<<c, q>>].current, p, 0)]
      /\ l # 0 /\ c[p] # 0 /\ ~g[<<c, q>>].more /\ c[p] # l =>
             NextBy(g, c, p) = [more |-> TRUE, current |-> Begins(g, g[<<c, q>>].current, p, c[p] + 1)]
  <2>1. visited[p].transitions = <<>> <=> l = 0
      BY PositionFacts
  <2> QED BY <2>1 DEF NextBy
<1> HIDE DEF q, l, before
<1>4. CASE l = 0
    BY <1>4, <1>0, <1>9
<1>5. CASE l # 0 /\ c[p] = 0
  <2>1. 1 \in 1 .. l
      BY <1>1, <1>5
  <2> QED BY <1>2, <1>5, <2>1, <1>0, <1>9
<1>6. CASE l # 0 /\ c[p] # 0 /\ before.more
    BY <1>3, <1>6, <1>0, <1>9
<1>7. CASE l # 0 /\ c[p] # 0 /\ ~before.more /\ c[p] = l
    BY <1>3, <1>7, <1>0, <1>9
<1>8. CASE l # 0 /\ c[p] # 0 /\ ~before.more /\ c[p] # l
  <2>1. c[p] + 1 \in 1 .. l
      BY <1>1, <1>8
  <2>2. Begins(g, before.current, p, c[p] + 1) = Begins(h, before.current, p, c[p] + 1)
      BY <1>2, <1>3, <1>8, <2>1
  <2> QED BY <1>3, <1>8, <2>2, <1>0, <1>9
<1> QED BY <1>4, <1>5, <1>6, <1>7, <1>8

\* The recursion is well founded: next() is what its definition says.
LEMMA PathIterNextDefined ==
    ASSUME BackOneStep
    PROVE  \A c \in Positions, p \in DOMAIN visited :
               Shortest!Paths!PathIterNext[<<c, p>>] = NextBy(Shortest!Paths!PathIterNext, c, p)
<1> DEFINE S == [Arguments -> Moves]
           G == [g \in S |-> Body(g)]
           a0 == [a \in Arguments |-> [more |-> FALSE, current |-> a[1]]]
<1>1. a0 \in S
  <2>1. \A a \in Arguments : [more |-> FALSE, current |-> a[1]] \in Moves
      BY DEF Arguments, Moves
  <2> QED BY <2>1
<1>2. ASSUME NEW g \in S PROVE Body(g) \in S
  <2>1. \A a \in Arguments : a[1] \in Positions /\ a[2] \in DOMAIN visited
      BY DEF Arguments
  <2>2. \A a \in Arguments : NextBy(g, a[1], a[2]) \in Moves
      BY <2>1, NextByType
  <2> QED BY <2>2 DEF Body
<1>3. G \in [S -> S]
    BY <1>2
<1> HIDE DEF S, G, a0
<1>4. PICK f : ShortestP!Iterates(f, S, a0, G)
    BY <1>1, <1>3, ShortestGraphAssumption, ShortestAutomatonAssumption, ShortestFiniteAssumption,
       ShortestP!IteratesExists
<1>5. ASSUME NEW k \in Nat PROVE f[k] \in S /\ f[k + 1] = Body(f[k])
    BY <1>4 DEF G, ShortestP!Iterates
<1> DEFINE g == [a \in Arguments |-> f[visited[a[2]].distance + 1][a]]
<1>6. ASSUME NEW c \in Positions, NEW p \in DOMAIN visited
      PROVE  g[<<c, p>>] = NextBy(g, c, p)
  <2> DEFINE n == visited[p].distance
  <2>1. n \in Nat /\ <<c, p>> \in Arguments /\ <<c, p>>[1] = c /\ <<c, p>>[2] = p
      BY DEF BackOneStep, Arguments
  <2>2. f[n] \in [Arguments -> Moves] /\ f[n + 1] = Body(f[n])
      BY <1>5, <2>1 DEF S
  <2>3. g[<<c, p>>] = NextBy(f[n], c, p)
    <3> HIDE DEF n
    <3> QED BY <2>1, <2>2 DEF Body, n
  <2>4. ASSUME NEW d \in Positions, NEW q \in DOMAIN visited, visited[q].distance + 1 = n
        PROVE  g[<<d, q>>] = f[n][<<d, q>>]
      BY <2>4 DEF Arguments
  <2> HIDE DEF g
  <2>5. NextBy(g, c, p) = NextBy(f[n], c, p)
      BY <2>2, <2>4, NextByLocal
  <2> QED BY <2>3, <2>5
<1>7. g = Body(g)
  <2>1. \A a \in Arguments : a = <<a[1], a[2]>> /\ a[1] \in Positions /\ a[2] \in DOMAIN visited
      BY DEF Arguments
  <2>2. \A a \in Arguments : g[a] = NextBy(g, a[1], a[2])
    <3> HIDE DEF g
    <3> QED BY <1>6, <2>1
  <2>3. g = [a \in Arguments |-> g[a]]
      OBVIOUS
  <2> HIDE DEF g
  <2> QED BY <2>2, <2>3 DEF Body
<1> HIDE DEF g
<1> DEFINE next == Shortest!Paths!PathIterNext
<1>8. next = Body(next)
  <2>1. next = CHOOSE h : h = Body(h)
      BY PathIterNextIs
  <2> HIDE DEF next
  <2> QED BY <1>7, <2>1
<1> HIDE DEF next
<1>9. ASSUME NEW c \in Positions, NEW p \in DOMAIN visited PROVE next[<<c, p>>] = NextBy(next, c, p)
  <2>1. <<c, p>> \in Arguments
      BY DEF Arguments
  <2>2. Body(next)[<<c, p>>] = NextBy(next, c, p)
      BY <2>1 DEF Body
  <2> QED BY <1>8, <2>2
<1> QED BY <1>9 DEF next

\* Apart from p, an iterator that is not further from the start than p and stands
\* somewhere is of a state that one of them leads to.
Led(c, p) ==
    \A x \in DOMAIN visited :
        visited[x].distance <= visited[p].distance /\ c[x] # 0 /\ x # p =>
            \E y \in DOMAIN visited :
                visited[y].distance <= visited[p].distance /\ c[y] # 0 /\ Previous(y, c[y]) = x

\* The iterators up to the distance of p rest, but for that of p.
RestBut(c, p) ==
    \A x \in DOMAIN visited : visited[x].distance <= visited[p].distance /\ x # p => c[x] = 0

LEMMA LeadsFrom ==
    ASSUME BackOneStep, NEW c \in Positions, NEW y \in DOMAIN visited, c[y] # 0
    PROVE  /\ Previous(y, c[y]) \in DOMAIN visited
           /\ visited[Previous(y, c[y])].distance \in Nat /\ visited[y].distance \in Nat
           /\ visited[Previous(y, c[y])].distance + 1 = visited[y].distance
<1>1. c[y] \in 1 .. Len(visited[y].transitions)
    BY PositionFacts
<1> QED BY <1>1, PreviousFacts

LEMMA LedRests ==
    ASSUME BackOneStep, NEW c \in Positions, NEW p \in DOMAIN visited, Led(c, p), c[p] = 0
    PROVE  \A x \in DOMAIN visited : visited[x].distance <= visited[p].distance => c[x] = 0
<1> DEFINE n == visited[p].distance
           Bad == {x \in DOMAIN visited : visited[x].distance <= n /\ c[x] # 0}
           Gaps == {n - visited[x].distance : x \in Bad}
<1> SUFFICES ASSUME Bad # {} PROVE FALSE
    OBVIOUS
<1>1. n \in Nat /\ \A x \in DOMAIN visited : visited[x].distance \in Nat
    BY DEF BackOneStep
<1>2. Gaps \in SUBSET Nat /\ Gaps # {}
  <2> HIDE DEF n
  <2> QED BY <1>1
<1>3. PICK m \in Gaps : \A k \in Gaps : m <= k
    BY <1>2, ShortestGraphAssumption, ShortestAutomatonAssumption, ShortestFiniteAssumption, ShortestP!LeastNumber
<1>4. PICK x \in Bad : m = n - visited[x].distance
    OBVIOUS
<1>5. PICK y \in DOMAIN visited : visited[y].distance <= n /\ c[y] # 0 /\ Previous(y, c[y]) = x
    BY DEF Led
<1>6. visited[x].distance + 1 = visited[y].distance
    BY <1>5, LeadsFrom
<1>7. n - visited[y].distance \in Gaps
    BY <1>5
<1>8. n - visited[x].distance <= n - visited[y].distance
    BY <1>3, <1>4, <1>7
<1>9. visited[x].distance \in Nat
    BY <1>1
<1> HIDE DEF n, Gaps, Bad
<1> QED BY <1>1, <1>6, <1>8, <1>9

LEMMA LedDown ==
    ASSUME BackOneStep, NEW c \in Positions, NEW p \in DOMAIN visited, Led(c, p), c[p] # 0
    PROVE  /\ Led(c, Previous(p, c[p]))
           /\ \A x \in DOMAIN visited : visited[x].distance = visited[p].distance /\ x # p => c[x] = 0
<1> DEFINE q == Previous(p, c[p])
<1>1. \A x \in DOMAIN visited : visited[x].distance \in Nat
    BY DEF BackOneStep
<1>2. q \in DOMAIN visited /\ visited[q].distance + 1 = visited[p].distance
    BY LeadsFrom
<1>3. ASSUME NEW x \in DOMAIN visited, visited[x].distance = visited[p].distance, x # p, c[x] # 0
      PROVE  FALSE
  <2>1. PICK y \in DOMAIN visited :
            visited[y].distance <= visited[p].distance /\ c[y] # 0 /\ Previous(y, c[y]) = x
      BY <1>1, <1>3 DEF Led
  <2>2. visited[x].distance + 1 = visited[y].distance
      BY <2>1, LeadsFrom
  <2> QED BY <1>1, <1>3, <2>1, <2>2
<1>4. ASSUME NEW x \in DOMAIN visited, visited[x].distance <= visited[q].distance, c[x] # 0, x # q
      PROVE  \E y \in DOMAIN visited :
                 visited[y].distance <= visited[q].distance /\ c[y] # 0 /\ Previous(y, c[y]) = x
  <2> HIDE DEF q
  <2>1. visited[x].distance <= visited[p].distance /\ x # p
      BY <1>1, <1>2, <1>4
  <2>2. PICK y \in DOMAIN visited :
            visited[y].distance <= visited[p].distance /\ c[y] # 0 /\ Previous(y, c[y]) = x
      BY <1>4, <2>1 DEF Led
  <2>3. y # p
      BY <1>4, <2>2 DEF q
  <2>4. visited[y].distance # visited[p].distance
      BY <1>3, <2>2, <2>3
  <2>5. visited[y].distance <= visited[q].distance
      BY <1>1, <1>2, <2>2, <2>4
  <2> QED BY <2>2, <2>5
<1> QED BY <1>3, <1>4 DEF Led

LEMMA LedUp ==
    ASSUME BackOneStep, NEW c \in Positions, NEW p \in DOMAIN visited, c[p] # 0,
           Led(c, Previous(p, c[p])),
           \A x \in DOMAIN visited : visited[x].distance = visited[p].distance /\ x # p => c[x] = 0
    PROVE  Led(c, p)
<1> DEFINE q == Previous(p, c[p])
<1>1. \A x \in DOMAIN visited : visited[x].distance \in Nat
    BY DEF BackOneStep
<1>2. q \in DOMAIN visited /\ visited[q].distance + 1 = visited[p].distance
    BY LeadsFrom
<1>3. Led(c, q)
    OBVIOUS
<1> SUFFICES ASSUME NEW x \in DOMAIN visited, visited[x].distance <= visited[p].distance,
                    c[x] # 0, x # p
             PROVE  \E y \in DOMAIN visited :
                        visited[y].distance <= visited[p].distance /\ c[y] # 0 /\ Previous(y, c[y]) = x
    BY DEF Led
<1>4. CASE x = q
    BY <1>1, <1>4
<1>5. CASE x # q
  <2> HIDE DEF q
  <2>1. visited[x].distance # visited[p].distance
      OBVIOUS
  <2>2. visited[x].distance <= visited[q].distance
      BY <1>1, <1>2, <2>1
  <2>3. PICK y \in DOMAIN visited :
            visited[y].distance <= visited[q].distance /\ c[y] # 0 /\ Previous(y, c[y]) = x
      BY <1>3, <1>5, <2>2 DEF Led
  <2>4. visited[y].distance <= visited[p].distance
      BY <1>1, <1>2, <2>3
  <2> QED BY <2>3, <2>4
<1> QED BY <1>4, <1>5

\* What a call of next() does to the positions: nothing further from the start, what
\* stands somewhere is led to, and if it says that there are no more all of them rest.
NextKeeps(m, c, p) ==
    /\ m.more \in BOOLEAN /\ m.current \in Positions
    /\ \A x \in DOMAIN visited : visited[x].distance > visited[p].distance => m.current[x] = c[x]
    /\ Led(m.current, p)
    /\ ~m.more => \A x \in DOMAIN visited :
                      visited[x].distance <= visited[p].distance => m.current[x] = 0

NextCalled(c, p) == Shortest!Paths!PathIterNext[<<c, p>>]

\* A transition of p begins.
LEMMA BeginsKeeps ==
    ASSUME BackOneStep, NEW p \in DOMAIN visited, NEW e \in Positions, RestBut(e, p),
           NEW k \in 1 .. Len(visited[p].transitions),
           \A d \in Positions, q \in DOMAIN visited :
               visited[q].distance + 1 = visited[p].distance /\ Led(d, q) =>
                   NextKeeps(NextCalled(d, q), d, q)
    PROVE  LET r == Begins(Shortest!Paths!PathIterNext, e, p, k)
           IN  /\ r \in Positions /\ Led(r, p)
               /\ \A x \in DOMAIN visited : visited[x].distance > visited[p].distance => r[x] = e[x]
<1> DEFINE d == Moved(e, p, k)
           q == Previous(p, k)
           m == NextCalled(d, q)
           r == m.current
<1>1. \A x \in DOMAIN visited : visited[x].distance \in Nat
    BY DEF BackOneStep
<1>2. q \in DOMAIN visited /\ visited[q].distance + 1 = visited[p].distance
    BY PreviousFacts
<1>3. d \in Positions /\ d[p] = k /\ k # 0 /\ \A x \in DOMAIN visited : x # p => d[x] = e[x]
  <2>1. k \in 0 .. Len(visited[p].transitions) /\ k # 0
      BY PositionFacts
  <2> QED BY <2>1, MovedFacts
<1>4. r = Begins(Shortest!Paths!PathIterNext, e, p, k)
    BY DEF Begins, NextCalled
<1> HIDE DEF d, q, m
<1>5. \A x \in DOMAIN visited : visited[x].distance <= visited[q].distance => d[x] = 0
  <2> SUFFICES ASSUME NEW x \in DOMAIN visited, visited[x].distance <= visited[q].distance PROVE d[x] = 0
      OBVIOUS
  <2>1. visited[x].distance <= visited[p].distance /\ x # p
      BY <1>1, <1>2
  <2> QED BY <1>3, <2>1 DEF RestBut
<1>6. Led(d, q)
    BY <1>5 DEF Led
<1>7. NextKeeps(m, d, q)
    BY <1>2, <1>3, <1>6 DEF m
<1>8. r \in Positions /\ Led(r, q)
    BY <1>7 DEF NextKeeps
<1>9. \A x \in DOMAIN visited : visited[x].distance >= visited[p].distance => r[x] = d[x]
  <2>1. \A x \in DOMAIN visited :
            visited[x].distance >= visited[p].distance => visited[x].distance > visited[q].distance
      BY <1>1, <1>2
  <2> QED BY <1>7, <2>1 DEF NextKeeps
<1>10. r[p] = k
    BY <1>1, <1>3, <1>9
<1>11. \A x \in DOMAIN visited : visited[x].distance = visited[p].distance /\ x # p => r[x] = 0
    BY <1>1, <1>3, <1>9 DEF RestBut
<1>12. Led(r, p)
  <2>1. Previous(p, r[p]) = q
      BY <1>10 DEF q
  <2> HIDE DEF r
  <2> QED BY <1>3, <1>8, <1>10, <1>11, <2>1, LedUp
<1>13. \A x \in DOMAIN visited : visited[x].distance > visited[p].distance => r[x] = e[x]
  <2>1. \A x \in DOMAIN visited :
            visited[x].distance > visited[p].distance => x # p /\ visited[x].distance >= visited[p].distance
      BY <1>1
  <2> QED BY <1>3, <1>9, <2>1
<1> QED BY <1>4, <1>8, <1>12, <1>13

\* By induction on the distance of p.
LEMMA NextKeepsLed ==
    ASSUME BackOneStep
    PROVE  \A c \in Positions, p \in DOMAIN visited :
               Led(c, p) => NextKeeps(NextCalled(c, p), c, p)
<1> DEFINE Kept(n) == \A c \in Positions, p \in DOMAIN visited :
                          visited[p].distance = n /\ Led(c, p) => NextKeeps(NextCalled(c, p), c, p)
<1>1. \A x \in DOMAIN visited : visited[x].distance \in Nat
    BY DEF BackOneStep
<1>2. ASSUME NEW c \in Positions, NEW p \in DOMAIN visited, Led(c, p),
             \A d \in Positions, q \in DOMAIN visited :
                 visited[q].distance + 1 = visited[p].distance /\ Led(d, q) =>
                     NextKeeps(NextCalled(d, q), d, q)
      PROVE  NextKeeps(NextCalled(c, p), c, p)
  <2> DEFINE next == Shortest!Paths!PathIterNext
             l == Len(visited[p].transitions)
             q == Previous(p, c[p])
             before == next[<<c, q>>]
             m == NextCalled(c, p)
  <2>1. c[p] \in 0 .. l /\ l \in Nat
      BY PositionFacts
  <2>2. m = NextBy(next, c, p)
      BY PathIterNextDefined DEF NextCalled
  <2>3. /\ l = 0 => m = [more |-> FALSE, current |-> c]
        /\ l # 0 /\ c[p] = 0 => m = [more |-> TRUE, current |-> Begins(next, c, p, 1)]
        /\ l # 0 /\ c[p] # 0 /\ before.more => m = before
        /\ l # 0 /\ c[p] # 0 /\ ~before.more /\ c[p] = l =>
               m = [more |-> FALSE, current |-> Moved(before.current, p, 0)]
        /\ l # 0 /\ c[p] # 0 /\ ~before.more /\ c[p] # l =>
               m = [more |-> TRUE, current |-> Begins(next, before.current, p, c[p] + 1)]
    <3>1. visited[p].transitions = <<>> <=> l = 0
        BY PositionFacts
    <3> HIDE DEF m, next
    <3> QED BY <2>2, <3>1 DEF NextBy
  <2>4. c[p] # 0 =>
            /\ q \in DOMAIN visited /\ visited[q].distance + 1 = visited[p].distance
            /\ NextKeeps(before, c, q)
            /\ \A x \in DOMAIN visited : visited[x].distance = visited[p].distance /\ x # p => c[x] = 0
    <3> SUFFICES ASSUME c[p] # 0
                 PROVE  /\ q \in DOMAIN visited /\ visited[q].distance + 1 = visited[p].distance
                        /\ NextKeeps(before, c, q)
                        /\ \A x \in DOMAIN visited :
                               visited[x].distance = visited[p].distance /\ x # p => c[x] = 0
        OBVIOUS
    <3>1. q \in DOMAIN visited /\ visited[q].distance + 1 = visited[p].distance
        BY LeadsFrom
    <3>2. Led(c, q) /\ \A x \in DOMAIN visited :
                           visited[x].distance = visited[p].distance /\ x # p => c[x] = 0
        BY <1>2, LedDown
    <3>3. NextKeeps(NextCalled(c, q), c, q)
        BY <1>2, <3>1, <3>2
    <3> QED BY <3>1, <3>2, <3>3 DEF NextCalled
  <2>5. \A e \in Positions, k \in 1 .. l :
            RestBut(e, p) =>
                /\ Begins(next, e, p, k) \in Positions /\ Led(Begins(next, e, p, k), p)
                /\ \A x \in DOMAIN visited :
                       visited[x].distance > visited[p].distance => Begins(next, e, p, k)[x] = e[x]
      BY <1>2, BeginsKeeps
  \* After a call that said that there are no more only p is left where it was.
  <2>6. c[p] # 0 /\ ~before.more =>
            /\ before.current \in Positions /\ RestBut(before.current, p)
            /\ \A x \in DOMAIN visited :
                   visited[x].distance >= visited[p].distance => before.current[x] = c[x]
    <3> SUFFICES ASSUME c[p] # 0, ~before.more
                 PROVE  /\ before.current \in Positions /\ RestBut(before.current, p)
                        /\ \A x \in DOMAIN visited :
                               visited[x].distance >= visited[p].distance => before.current[x] = c[x]
        OBVIOUS
    <3> HIDE DEF q, before
    <3>1. \A x \in DOMAIN visited :
              visited[x].distance >= visited[p].distance <=> visited[x].distance > visited[q].distance
        BY <1>1, <2>4
    <3>2. \A x \in DOMAIN visited : visited[x].distance >= visited[p].distance => before.current[x] = c[x]
        BY <2>4, <3>1 DEF NextKeeps
    <3>3. ASSUME NEW x \in DOMAIN visited, visited[x].distance <= visited[p].distance, x # p
          PROVE  before.current[x] = 0
      <4>1. CASE visited[x].distance = visited[p].distance
        <5>1. visited[x].distance >= visited[p].distance
            BY <1>1, <4>1
        <5> QED BY <2>4, <3>2, <3>3, <4>1, <5>1
      <4>2. CASE visited[x].distance # visited[p].distance
        <5>1. visited[x].distance <= visited[q].distance
            BY <1>1, <2>4, <3>3, <4>2
        <5> QED BY <2>4, <5>1 DEF NextKeeps
      <4> QED BY <4>1, <4>2
    <3> QED BY <2>4, <3>2, <3>3 DEF NextKeeps, RestBut
  <2> HIDE DEF next, l, q, before, m
  <2>7. CASE l = 0
    <3>1. \A x \in DOMAIN visited : visited[x].distance <= visited[p].distance => c[x] = 0
        BY <1>2, <2>1, <2>7, LedRests
    <3>2. m = [more |-> FALSE, current |-> c]
        BY <2>3, <2>7
    <3> QED BY <1>2, <3>1, <3>2 DEF NextKeeps, m
  <2>8. CASE l # 0 /\ c[p] = 0
    <3>1. RestBut(c, p)
        BY <1>2, <2>8, LedRests DEF RestBut
    <3>2. 1 \in 1 .. l
        BY <2>1, <2>8
    <3> DEFINE r == Begins(next, c, p, 1)
    <3>3. m = [more |-> TRUE, current |-> r]
        BY <2>3, <2>8
    <3>4. /\ r \in Positions /\ Led(r, p)
          /\ \A x \in DOMAIN visited : visited[x].distance > visited[p].distance => r[x] = c[x]
        BY <2>5, <3>1, <3>2
    <3> HIDE DEF r
    <3> QED BY <3>3, <3>4 DEF NextKeeps, m
  <2>9. CASE l # 0 /\ c[p] # 0 /\ before.more
    <3>1. m = before
        BY <2>3, <2>9
    <3>2. /\ before.current \in Positions /\ Led(before.current, q)
          /\ before.more \in BOOLEAN
        BY <2>4, <2>9 DEF NextKeeps
    <3>3. \A x \in DOMAIN visited :
              visited[x].distance >= visited[p].distance => before.current[x] = c[x]
      <4>1. \A x \in DOMAIN visited :
                visited[x].distance >= visited[p].distance => visited[x].distance > visited[q].distance
          BY <1>1, <2>4, <2>9
      <4> QED BY <2>4, <2>9, <4>1 DEF NextKeeps
    <3>4. before.current[p] = c[p]
        BY <1>1, <3>3
    <3>5. \A x \in DOMAIN visited :
              visited[x].distance = visited[p].distance /\ x # p => before.current[x] = 0
        BY <1>1, <2>4, <2>9, <3>3
    <3>6. Previous(p, before.current[p]) = q
        BY <3>4 DEF q
    <3>7. Led(before.current, p)
        BY <2>9, <3>2, <3>4, <3>5, <3>6, LedUp
    <3>8. \A x \in DOMAIN visited :
              visited[x].distance > visited[p].distance => before.current[x] = c[x]
        BY <1>1, <3>3
    <3> QED BY <2>9, <3>1, <3>2, <3>7, <3>8 DEF NextKeeps, m
  <2>10. CASE l # 0 /\ c[p] # 0 /\ ~before.more /\ c[p] = l
    <3> DEFINE r == Moved(before.current, p, 0)
    <3>1. m = [more |-> FALSE, current |-> r]
        BY <2>3, <2>10
    <3>2. 0 \in 0 .. Len(visited[p].transitions)
        BY <2>1 DEF l
    <3>3. r \in Positions /\ r[p] = 0 /\ \A x \in DOMAIN visited : x # p => r[x] = before.current[x]
        BY <2>6, <2>10, <3>2, MovedFacts
    <3> HIDE DEF r
    <3>4. \A x \in DOMAIN visited : visited[x].distance <= visited[p].distance => r[x] = 0
        BY <2>6, <2>10, <3>3 DEF RestBut
    <3>5. Led(r, p)
        BY <3>4 DEF Led
    <3>6. \A x \in DOMAIN visited : visited[x].distance > visited[p].distance => r[x] = c[x]
      <4>1. \A x \in DOMAIN visited :
                visited[x].distance > visited[p].distance =>
                    x # p /\ visited[x].distance >= visited[p].distance
          BY <1>1
      <4> QED BY <2>6, <2>10, <3>3, <4>1
    <3> QED BY <3>1, <3>3, <3>4, <3>5, <3>6 DEF NextKeeps, m
  <2>11. CASE l # 0 /\ c[p] # 0 /\ ~before.more /\ c[p] # l
    <3> DEFINE r == Begins(next, before.current, p, c[p] + 1)
    <3>1. m = [more |-> TRUE, current |-> r]
        BY <2>3, <2>11
    <3>2. c[p] + 1 \in 1 .. l
        BY <2>1, <2>11
    <3>3. /\ r \in Positions /\ Led(r, p)
          /\ \A x \in DOMAIN visited :
                 visited[x].distance > visited[p].distance => r[x] = before.current[x]
        BY <2>5, <2>6, <2>11, <3>2
    <3> HIDE DEF r
    <3>4. \A x \in DOMAIN visited : visited[x].distance > visited[p].distance => r[x] = c[x]
        BY <1>1, <2>6, <2>11, <3>3
    <3> QED BY <3>1, <3>3, <3>4 DEF NextKeeps, m
  <2> QED BY <2>7, <2>8, <2>9, <2>10, <2>11 DEF m
<1>3. \A n \in Nat : (\A i \in Nat : i + 1 = n => Kept(i)) => Kept(n)
  <2> SUFFICES ASSUME NEW n \in Nat, \A i \in Nat : i + 1 = n => Kept(i),
                      NEW c \in Positions, NEW p \in DOMAIN visited, visited[p].distance = n, Led(c, p)
               PROVE  NextKeeps(NextCalled(c, p), c, p)
      OBVIOUS
  <2>1. \A d \in Positions, q \in DOMAIN visited :
            visited[q].distance + 1 = visited[p].distance /\ Led(d, q) =>
                NextKeeps(NextCalled(d, q), d, q)
      BY <1>1
  <2> QED BY <1>2, <2>1
<1> DEFINE All == {n \in Nat : Kept(n)}
<1> HIDE DEF Kept
<1>4. 0 \in All
  <2>1. \A i \in Nat : i + 1 # 0
      OBVIOUS
  <2> QED BY <1>3, <2>1
<1>5. \A n \in Nat : n \in All => n + 1 \in All
  <2> SUFFICES ASSUME NEW n \in Nat, Kept(n) PROVE Kept(n + 1)
      OBVIOUS
  <2>1. \A i \in Nat : i + 1 = n + 1 => i = n
      OBVIOUS
  <2> QED BY <1>3, <2>1
<1>6. Nat \subseteq All
  <2> HIDE DEF All
  <2> QED BY <1>4, <1>5, ShortestGraphAssumption, ShortestAutomatonAssumption, ShortestFiniteAssumption,
             ShortestP!Induction
<1> QED BY <1>1, <1>6 DEF Kept

\* The states of the search, and what is stored of each.
ShortestStates == ShortestGraph.states \X ShortestGraph.node_ids
IterTransitions ==
    [previous : ShortestStates, inverse : BOOLEAN, edge : {e.edge : e \in ShortestGraph.edges}]
Stored == [distance : Nat, transitions : Seq(IterTransitions)]

VisitedInv ==
    /\ visited \in [DOMAIN visited -> Stored]
    /\ DOMAIN visited \subseteq ShortestStates
    /\ BackOneStep

OpenInv ==
    /\ open \in Seq(ShortestStates)
    /\ \A i \in DOMAIN open : open[i] \in DOMAIN visited

\* While the first pair of open is expanded, also between two calls.
ExpandInv ==
    /\ first_next => at_end /\ open # <<>>
    /\ pc \in {"loop", "expand", "enumerate"} => ~first_next
    /\ pc = "expand" => ~at_end
    /\ ~at_end => /\ open # <<>>
                  /\ current_transition \in DOMAIN Shortest!Paths!Outgoing
                  /\ iter \subseteq Shortest!GetIterator(Shortest!Paths!Outgoing[current_transition],
                                                         Shortest!Paths!Front[2])

\* Without a solution all iterators rest, with one they are led to from it.
SolutionInv ==
    /\ current \in Positions
    /\ pc \in {"loop", "expand"} => solution_found = <<>>
    /\ pc = "enumerate" => solution_found # <<>>
    /\ solution_found = <<>> => \A p \in DOMAIN visited : current[p] = 0
    /\ solution_found # <<>> =>
           /\ solution_found \in DOMAIN visited
           /\ Led(current, solution_found)
           /\ \A x \in DOMAIN visited :
                  visited[x].distance > visited[solution_found].distance => current[x] = 0

IterationInv ==
    family = "shortest" /\ ~counting => VisitedInv /\ OpenInv /\ ExpandInv /\ SolutionInv

\* What is assumed of the graph and the automaton.
LEMMA ShortestFacts ==
    /\ ShortestGraph.nodes \subseteq ShortestGraph.node_ids
    /\ \A e \in ShortestGraph.edges : e.from \in ShortestGraph.nodes /\ e.to \in ShortestGraph.nodes
    /\ ShortestGraph.start \in ShortestGraph.states
    /\ ShortestGraph.connections \in [ShortestGraph.states -> Seq(Shortest!Transition)]
BY GraphAssumption, AutomatonAssumption DEF Shortest!GraphAssumption, Shortest!AutomatonAssumption

LEMMA FrontFacts ==
    ASSUME VisitedInv, OpenInv, open # <<>>
    PROVE  LET front == Shortest!Paths!Front
           IN  /\ front \in DOMAIN visited /\ front \in ShortestStates
               /\ Shortest!Paths!Outgoing \in Seq(Shortest!Transition)
               /\ Tail(open) \in Seq(ShortestStates)
               /\ \A i \in DOMAIN Tail(open) : Tail(open)[i] \in DOMAIN visited
<1> DEFINE front == Shortest!Paths!Front
<1>1. open \in Seq(ShortestStates) /\ Len(open) \in Nat \ {0}
    BY DEF OpenInv
<1>2. front = open[1] /\ 1 \in DOMAIN open
    BY <1>1 DEF Shortest!Paths!Front
<1>3. front \in DOMAIN visited /\ front \in ShortestStates
    BY <1>1, <1>2 DEF OpenInv
<1>4. front[1] \in ShortestGraph.states
    BY <1>3 DEF ShortestStates
<1>5. Shortest!Paths!Outgoing \in Seq(Shortest!Transition)
    BY <1>4, ShortestFacts DEF Shortest!Paths!Outgoing
<1>6. Tail(open) \in Seq(ShortestStates)
    BY <1>1
<1>7. \A i \in DOMAIN Tail(open) : Tail(open)[i] = open[i + 1] /\ i + 1 \in DOMAIN open
    BY <1>1
<1> QED BY <1>3, <1>5, <1>6, <1>7 DEF OpenInv

LEMMA VisitedSame == VisitedInv /\ UNCHANGED visited => VisitedInv'
BY DEF VisitedInv, BackOneStep

LEMMA OpenSame == OpenInv /\ UNCHANGED <<open, visited>> => OpenInv'
BY DEF OpenInv

LEMMA OpenPopped == VisitedInv /\ OpenInv /\ open # <<>> /\ open' = Tail(open) /\ UNCHANGED visited => OpenInv'
<1> SUFFICES ASSUME VisitedInv, OpenInv, open # <<>>, open' = Tail(open), UNCHANGED visited
             PROVE  OpenInv'
    OBVIOUS
<1>1. /\ Tail(open) \in Seq(ShortestStates)
      /\ \A i \in DOMAIN Tail(open) : Tail(open)[i] \in DOMAIN visited
    BY FrontFacts
<1> QED BY <1>1 DEF OpenInv

LEMMA SolutionSame ==
    ASSUME SolutionInv, UNCHANGED <<visited, current, solution_found>>,
           pc' \in {"loop", "expand"} => solution_found = <<>>,
           pc' = "enumerate" => solution_found # <<>>
    PROVE  SolutionInv'
BY DEF SolutionInv, Led, Previous, Positions, Shortest!Paths!Positions

\* A step that only takes the search forward.
LEMMA IterationKept ==
    ASSUME VisitedInv, OpenInv, ExpandInv, SolutionInv,
           \/ Shortest!Paths!StartMissing \/ Shortest!Paths!ReturnStart \/ Shortest!Paths!EnterLoop
           \/ Shortest!Paths!Exhausted \/ Shortest!Paths!ExpandFirst \/ Shortest!Paths!ExpandResume
           \/ Shortest!Paths!NextTransition \/ Shortest!Paths!Interrupt
    PROVE  VisitedInv' /\ OpenInv' /\ ExpandInv' /\ SolutionInv'
<1>1. UNCHANGED <<visited, current, solution_found>>
    BY DEF Shortest!Paths!StartMissing, Shortest!Paths!ReturnStart, Shortest!Paths!EnterLoop,
           Shortest!Paths!Exhausted, Shortest!Paths!ExpandFirst, Shortest!Paths!ExpandResume,
           Shortest!Paths!NextTransition, Shortest!Paths!Interrupt
<1>2. VisitedInv'
    BY <1>1, VisitedSame
<1>3. SolutionInv'
  <2>1. /\ pc' \in {"loop", "expand"} => solution_found = <<>>
        /\ pc' = "enumerate" => solution_found # <<>>
      BY DEF SolutionInv, Shortest!Paths!StartMissing, Shortest!Paths!ReturnStart,
             Shortest!Paths!EnterLoop, Shortest!Paths!Exhausted, Shortest!Paths!ExpandFirst,
             Shortest!Paths!ExpandResume, Shortest!Paths!NextTransition, Shortest!Paths!Interrupt,
             Shortest!Paths!Return, Shortest!Paths!NoSolution
  <2> QED BY <1>1, <2>1, SolutionSame
<1>4. CASE Shortest!Paths!StartMissing
  <2>1. open # <<>> /\ open' = Tail(open) /\ ~first_next' /\ at_end' /\ pc' = "done"
      BY <1>4 DEF Shortest!Paths!StartMissing, ExpandInv
  <2> QED BY <1>1, <1>2, <1>3, <2>1, OpenPopped DEF ExpandInv
<1>5. CASE Shortest!Paths!ReturnStart
  <2>1. /\ open # <<>> /\ (open' = Tail(open) \/ open' = open)
        /\ ~first_next' /\ at_end' /\ pc' = "ready"
      BY <1>5 DEF Shortest!Paths!ReturnStart, Shortest!Paths!Return, ExpandInv
  <2> QED BY <1>1, <1>2, <1>3, <2>1, OpenPopped, OpenSame DEF ExpandInv
<1>6. CASE Shortest!Paths!EnterLoop \/ Shortest!Paths!Exhausted
  <2>1. /\ UNCHANGED <<open, iter, at_end, current_transition>> /\ pc' # "expand"
        /\ ~first_next'
      BY <1>6 DEF Shortest!Paths!EnterLoop, Shortest!Paths!Exhausted, ExpandInv
  <2> QED BY <1>1, <1>2, <1>3, <2>1, OpenSame
         DEF ExpandInv, Shortest!Paths!Outgoing, Shortest!Paths!Front
<1>7. CASE Shortest!Paths!ExpandFirst
  <2>1. /\ open # <<>> /\ at_end /\ ~first_next /\ ~first_next'
        /\ current_transition' = 1
      BY <1>7 DEF Shortest!Paths!ExpandFirst, ExpandInv
  <2>2. CASE Shortest!Paths!Outgoing = <<>>
    <3>1. open' = Tail(open) /\ at_end' /\ pc' = "loop"
        BY <1>7, <2>1, <2>2 DEF Shortest!Paths!ExpandFirst, Shortest!Paths!Pop
    <3> QED BY <1>1, <1>2, <1>3, <2>1, <3>1, OpenPopped DEF ExpandInv
  <2>3. CASE Shortest!Paths!Outgoing # <<>>
    <3>1. /\ open' = open /\ ~at_end'
          /\ iter' = Shortest!GetIterator(Shortest!Paths!Outgoing[1], Shortest!Paths!Front[2])
        BY <1>7, <2>3 DEF Shortest!Paths!ExpandFirst, Shortest!Paths!GetIterator, Shortest!GetIterator
    <3>2. 1 \in DOMAIN Shortest!Paths!Outgoing
      <4>1. Shortest!Paths!Outgoing \in Seq(Shortest!Transition)
          BY <2>1, FrontFacts
      <4> QED BY <2>3, <4>1
    <3>3. /\ Shortest!Paths!Outgoing' = Shortest!Paths!Outgoing
          /\ Shortest!Paths!Front' = Shortest!Paths!Front
        BY <3>1 DEF Shortest!Paths!Outgoing, Shortest!Paths!Front
    <3> HIDE DEF Shortest!Paths!Outgoing
    <3>4. ExpandInv'
        BY <2>1, <3>1, <3>2, <3>3 DEF ExpandInv
    <3> QED BY <1>1, <1>2, <1>3, <3>1, <3>4, OpenSame
  <2> QED BY <2>2, <2>3
<1>8. CASE Shortest!Paths!ExpandResume
  <2>1. UNCHANGED <<open, iter, at_end, current_transition, first_next>> /\ ~at_end /\ ~first_next
      BY <1>8 DEF Shortest!Paths!ExpandResume, ExpandInv
  <2> QED BY <1>1, <1>2, <1>3, <2>1, OpenSame
         DEF ExpandInv, Shortest!Paths!Outgoing, Shortest!Paths!Front
<1>9. CASE Shortest!Paths!NextTransition
  <2>1. /\ open # <<>> /\ ~at_end /\ ~first_next /\ ~first_next'
        /\ current_transition \in DOMAIN Shortest!Paths!Outgoing
        /\ current_transition' = current_transition + 1
      BY <1>9 DEF Shortest!Paths!NextTransition, ExpandInv
  <2>2. Shortest!Paths!Outgoing \in Seq(Shortest!Transition)
      BY <2>1, FrontFacts
  <2>3. CASE Shortest!Paths!MoreTransitions
    <3>1. /\ open' = open /\ UNCHANGED <<at_end, pc>>
          /\ iter' = Shortest!GetIterator(Shortest!Paths!Outgoing[current_transition + 1],
                                          Shortest!Paths!Front[2])
        BY <1>9, <2>3 DEF Shortest!Paths!NextTransition, Shortest!Paths!GetIterator, Shortest!GetIterator
    <3>2. current_transition + 1 \in DOMAIN Shortest!Paths!Outgoing
      <4> HIDE DEF Shortest!Paths!Outgoing
      <4> QED BY <2>1, <2>2, <2>3 DEF Shortest!Paths!MoreTransitions
    <3>3. /\ Shortest!Paths!Outgoing' = Shortest!Paths!Outgoing
          /\ Shortest!Paths!Front' = Shortest!Paths!Front
        BY <3>1 DEF Shortest!Paths!Outgoing, Shortest!Paths!Front
    <3> HIDE DEF Shortest!Paths!Outgoing
    <3>4. ExpandInv'
        BY <2>1, <3>1, <3>2, <3>3 DEF ExpandInv
    <3> QED BY <1>1, <1>2, <1>3, <3>1, <3>4, OpenSame
  <2>4. CASE ~Shortest!Paths!MoreTransitions
    <3>1. open' = Tail(open) /\ at_end' /\ pc' = "loop"
        BY <1>9, <2>4 DEF Shortest!Paths!NextTransition, Shortest!Paths!Pop
    <3> QED BY <1>1, <1>2, <1>3, <2>1, <3>1, OpenPopped DEF ExpandInv
  <2> QED BY <2>3, <2>4
<1>10. CASE Shortest!Paths!Interrupt
  <2>1. /\ UNCHANGED <<open, iter, at_end, current_transition, first_next>> /\ pc' = "interrupted"
        /\ ~first_next
      BY <1>10 DEF Shortest!Paths!Interrupt, ExpandInv
  <2> QED BY <1>1, <1>2, <1>3, <2>1, OpenSame
         DEF ExpandInv, Shortest!Paths!Outgoing, Shortest!Paths!Front
<1> QED BY <1>4, <1>5, <1>6, <1>7, <1>8, <1>9, <1>10

\* The transition that a record of an edge is.
LEMMA TransitionFacts ==
    ASSUME NEW t \in Shortest!Transition, NEW p \in ShortestStates, NEW n \in ShortestGraph.node_ids,
           NEW r \in Shortest!GetIterator(t, n)
    PROVE  /\ <<t.to, r.node>> \in ShortestStates /\ <<t.to, r.node>> # <<>>
           /\ Shortest!Paths!IterTransition(p, t, r) \in IterTransitions
           /\ Shortest!Paths!IterTransition(p, t, r).previous = p
<1>1. r.node \in ShortestGraph.node_ids /\ r.edge \in {e.edge : e \in ShortestGraph.edges}
    BY ShortestFacts DEF Shortest!GetIterator
<1>2. t.to \in ShortestGraph.states /\ t.inverse \in BOOLEAN
    BY DEF Shortest!Transition
<1>3. Shortest!Paths!IterTransition(p, t, r) = [previous |-> p, inverse |-> t.inverse, edge |-> r.edge]
    BY DEF Shortest!Paths!IterTransition
<1> QED BY <1>1, <1>2, <1>3 DEF ShortestStates, IterTransitions

\* What is stored of p when a transition to it is kept.
StoredWith(p, d, m) ==
    IF p \in DOMAIN visited
    THEN [distance |-> visited[p].distance, transitions |-> Append(visited[p].transitions, m)]
    ELSE [distance |-> d, transitions |-> <<m>>]

VisitedWith(p, d, m) ==
    [x \in DOMAIN visited \cup {p} |-> IF x = p THEN StoredWith(p, d, m) ELSE visited[x]]

LEMMA KeptFacts ==
    ASSUME VisitedInv, NEW p \in ShortestStates, NEW m \in IterTransitions, m.previous \in DOMAIN visited,
           NEW d, d = visited[m.previous].distance + 1,
           p \in DOMAIN visited => visited[p].distance = d,
           visited' = VisitedWith(p, d, m)
    PROVE  VisitedInv'
<1> DEFINE new == StoredWith(p, d, m)
           old == visited[p].transitions
<1>1. \A x \in DOMAIN visited :
          /\ visited[x] \in Stored /\ visited[x].distance \in Nat
          /\ visited[x].transitions \in Seq(IterTransitions)
    BY DEF VisitedInv, Stored
<1>2. d \in Nat /\ d # 0
    BY <1>1
<1>3. /\ new \in Stored /\ new.distance = d /\ new.transitions \in Seq(IterTransitions)
      /\ Len(new.transitions) # 0
      /\ \A k \in 1 .. Len(new.transitions) :
            /\ new.transitions[k].previous \in DOMAIN visited
            /\ visited[new.transitions[k].previous].distance + 1 = d
  <2>1. CASE p \in DOMAIN visited
    <3>1. new = [distance |-> d, transitions |-> Append(old, m)]
        BY <2>1 DEF StoredWith
    <3>2. /\ Append(old, m) \in Seq(IterTransitions) /\ Len(Append(old, m)) = Len(old) + 1
          /\ Len(old) \in Nat
          /\ \A k \in 1 .. Len(old) : Append(old, m)[k] = old[k]
          /\ Append(old, m)[Len(old) + 1] = m
        BY <1>1, <2>1
    <3>3. \A k \in 1 .. Len(old) : /\ old[k].previous \in DOMAIN visited
                                   /\ visited[old[k].previous].distance + 1 = d
        BY <2>1 DEF VisitedInv, BackOneStep
    <3> HIDE DEF new, old
    <3>4. \A k \in 1 .. Len(old) + 1 : k \in 1 .. Len(old) \/ k = Len(old) + 1
        BY <3>2
    <3>5. \A k \in 1 .. Len(new.transitions) :
              /\ new.transitions[k].previous \in DOMAIN visited
              /\ visited[new.transitions[k].previous].distance + 1 = d
        BY <3>1, <3>2, <3>3, <3>4
    <3> QED BY <1>2, <3>1, <3>2, <3>5 DEF Stored
  <2>2. CASE p \notin DOMAIN visited
    <3>1. new = [distance |-> d, transitions |-> <<m>>]
        BY <2>2 DEF StoredWith
    <3>2. <<m>> \in Seq(IterTransitions) /\ Len(<<m>>) = 1 /\ <<m>>[1] = m
        OBVIOUS
    <3> HIDE DEF new
    <3> QED BY <1>2, <3>1, <3>2 DEF Stored
  <2> QED BY <2>1, <2>2
<1> HIDE DEF new
<1>4. /\ DOMAIN visited' = DOMAIN visited \cup {p}
      /\ visited'[p] = new
      /\ \A x \in DOMAIN visited : x # p => visited'[x] = visited[x]
    BY DEF VisitedWith, new
<1>5. \A x \in DOMAIN visited : visited'[x].distance = visited[x].distance
    BY <1>3, <1>4
<1>6. visited' \in [DOMAIN visited' -> Stored]
  <2>1. visited' = [x \in DOMAIN visited' |-> visited'[x]]
      BY DEF VisitedWith
  <2>2. \A x \in DOMAIN visited' : visited'[x] \in Stored
      BY <1>1, <1>3, <1>4
  <2> QED BY <2>1, <2>2
<1>7. DOMAIN visited' \subseteq ShortestStates
    BY <1>4 DEF VisitedInv
<1>8. BackOneStep'
  <2> SUFFICES ASSUME NEW x \in DOMAIN visited'
               PROVE  /\ visited'[x].distance \in Nat
                      /\ Len(visited'[x].transitions) \in Nat
                      /\ DOMAIN visited'[x].transitions = 1 .. Len(visited'[x].transitions)
                      /\ visited'[x].transitions = <<>> <=> Len(visited'[x].transitions) = 0
                      /\ \A k \in DOMAIN visited'[x].transitions :
                             /\ visited'[x].transitions[k].previous \in DOMAIN visited'
                             /\ visited'[visited'[x].transitions[k].previous].distance + 1
                                    = visited'[x].distance
                      /\ visited'[x].transitions = <<>> => visited'[x].distance = 0
      BY DEF BackOneStep
  <2>1. CASE x = p
    <3>1. /\ Len(new.transitions) \in Nat
          /\ DOMAIN new.transitions = 1 .. Len(new.transitions)
          /\ new.transitions = <<>> <=> Len(new.transitions) = 0
        BY <1>3
    <3> QED BY <1>2, <1>3, <1>4, <1>5, <2>1, <3>1
  <2>2. CASE x # p
    <3>1. x \in DOMAIN visited /\ visited'[x] = visited[x]
        BY <1>4, <2>2
    <3> QED BY <1>4, <1>5, <3>1 DEF VisitedInv, BackOneStep
  <2> QED BY <2>1, <2>2
<1> QED BY <1>6, <1>7, <1>8 DEF VisitedInv

\* A search that found no solution keeps the iterators at rest.
LEMMA VisitKept ==
    ASSUME VisitedInv, OpenInv, ExpandInv, SolutionInv, Shortest!Paths!Visit
    PROVE  VisitedInv' /\ OpenInv' /\ ExpandInv' /\ SolutionInv'
<1> DEFINE front == Shortest!Paths!Front
           outgoing == Shortest!Paths!Outgoing
           t == outgoing[current_transition]
<1>1. /\ pc = "expand" /\ ~at_end /\ ~first_next /\ open # <<>>
      /\ current_transition \in DOMAIN outgoing
      /\ iter \subseteq Shortest!GetIterator(t, front[2])
      /\ solution_found = <<>> /\ current \in Positions
      /\ \A x \in DOMAIN visited : current[x] = 0
    BY DEF Shortest!Paths!Visit, ExpandInv, SolutionInv
<1>2. /\ front \in DOMAIN visited /\ front \in ShortestStates /\ front[2] \in ShortestGraph.node_ids
      /\ outgoing \in Seq(Shortest!Transition)
    BY <1>1, FrontFacts DEF ShortestStates
<1>3. t \in Shortest!Transition
  <2> HIDE DEF outgoing
  <2> QED BY <1>1, <1>2
<1>4. UNCHANGED <<at_end, current_transition, first_next>>
    BY DEF Shortest!Paths!Visit
<1> DEFINE p(r) == <<t.to, r.node>>
           d == visited[front].distance + 1
           m(r) == Shortest!Paths!IterTransition(front, t, r)
<1>5. PICK r \in iter :
          /\ iter' = iter \ {r}
          /\ \/ /\ UNCHANGED <<visited, current, open, solution_found, pc>>
             \/ /\ p(r) \in DOMAIN visited => visited[p(r)].distance = d
                /\ visited' = VisitedWith(p(r), d, m(r))
                /\ open' = IF p(r) \in DOMAIN visited THEN open ELSE Append(open, p(r))
                /\ Shortest!Paths!Found(p(r), d) \/ Shortest!Paths!NotFound
  <2>1. PICK r \in iter :
          /\ iter' = iter \ {r}
          /\ \/ UNCHANGED <<visited, current, open, solution_found, pc>>
             \/ /\ p(r) \in DOMAIN visited /\ Shortest!Paths!OptimalVisited(p(r), d)
                /\ visited' = [visited EXCEPT ![p(r)].transitions = Append(@, m(r))]
                /\ UNCHANGED open
                /\ Shortest!Paths!Found(p(r), d) \/ Shortest!Paths!NotFound
             \/ /\ p(r) \notin DOMAIN visited
                /\ visited' = [x \in DOMAIN visited \cup {p(r)} |->
                                     IF x = p(r) THEN [distance |-> d, transitions |-> <<m(r)>>]
                                     ELSE visited[x]]
                /\ open' = Append(open, p(r))
                /\ Shortest!Paths!Found(p(r), d) \/ Shortest!Paths!NotFound
      BY DEF Shortest!Paths!Visit
  <2> HIDE DEF t, front, m
  <2>2. CASE /\ p(r) \in DOMAIN visited /\ Shortest!Paths!OptimalVisited(p(r), d)
             /\ visited' = [visited EXCEPT ![p(r)].transitions = Append(@, m(r))]
    <3> DEFINE q == p(r)
    <3> HIDE DEF p
    <3>1. visited[q].distance = d
        BY <2>2 DEF Shortest!Paths!OptimalVisited
    <3>2. visited \in [DOMAIN visited -> Stored]
        BY DEF VisitedInv
    <3>3. visited' = [x \in DOMAIN visited |->
                         IF x = q THEN [visited[q] EXCEPT !.transitions = Append(@, m(r))] ELSE visited[x]]
        BY <2>2, <3>2
    <3>4. [visited[q] EXCEPT !.transitions = Append(@, m(r))]
              = [distance |-> visited[q].distance, transitions |-> Append(visited[q].transitions, m(r))]
      <4> DEFINE v == visited[q]
                 w == Append(visited[q].transitions, m(r))
      <4>1. v \in Stored
          BY <2>2, <3>2
      <4> HIDE DEF v, w
      <4>2. [v EXCEPT !.transitions = w] = [distance |-> v.distance, transitions |-> w]
          BY <4>1 DEF Stored
      <4> QED BY <4>2 DEF v, w
    <3>5. visited' = VisitedWith(q, d, m(r))
        BY <2>2, <3>3, <3>4 DEF VisitedWith, StoredWith
    <3> QED BY <2>1, <2>2, <3>1, <3>5
  <2>3. CASE /\ p(r) \notin DOMAIN visited
             /\ visited' = [x \in DOMAIN visited \cup {p(r)} |->
                                     IF x = p(r) THEN [distance |-> d, transitions |-> <<m(r)>>]
                                     ELSE visited[x]]
    <3> HIDE DEF p
    <3>1. visited' = VisitedWith(p(r), d, m(r))
        BY <2>3 DEF VisitedWith, StoredWith
    <3> QED BY <2>1, <2>3, <3>1
  <2> QED BY <2>1, <2>2, <2>3
<1>6. /\ p(r) \in ShortestStates /\ p(r) # <<>> /\ m(r) \in IterTransitions /\ m(r).previous = front
  <2> HIDE DEF t, front
  <2> QED BY <1>1, <1>2, <1>3, <1>5, TransitionFacts
<1> HIDE DEF p, m
<1>7. open' # <<>> /\ Head(open') = Head(open) /\ (open' = open \/ open' = Append(open, p(r)))
    BY <1>1, <1>5 DEF OpenInv
<1>8. Shortest!Paths!Front' = Shortest!Paths!Front /\ Shortest!Paths!Outgoing' = Shortest!Paths!Outgoing
    BY <1>7 DEF Shortest!Paths!Front, Shortest!Paths!Outgoing
<1>9. ExpandInv'
    BY <1>1, <1>4, <1>5, <1>7, <1>8 DEF ExpandInv
<1>10. CASE UNCHANGED <<visited, current, open, solution_found, pc>>
  <2>1. VisitedInv' /\ OpenInv'
      BY <1>10, VisitedSame, OpenSame
  <2>2. SolutionInv'
      BY <1>1, <1>10, SolutionSame
  <2> QED BY <1>9, <2>1, <2>2
<1>11. CASE /\ p(r) \in DOMAIN visited => visited[p(r)].distance = d
            /\ visited' = VisitedWith(p(r), d, m(r))
            /\ open' = IF p(r) \in DOMAIN visited THEN open ELSE Append(open, p(r))
            /\ Shortest!Paths!Found(p(r), d) \/ Shortest!Paths!NotFound
  <2> DEFINE q == p(r)
  <2>1. VisitedInv'
      BY <1>2, <1>6, <1>11, KeptFacts
  <2>2. DOMAIN visited' = DOMAIN visited \cup {q}
      BY <1>11 DEF VisitedWith
  <2>3. OpenInv'
    <3>1. CASE open' = open
        BY <2>2, <3>1 DEF OpenInv
    <3>2. CASE open' = Append(open, q)
      <4>1. open' \in Seq(ShortestStates)
          BY <1>6, <3>2 DEF OpenInv
      <4>2. \A i \in DOMAIN open' : (i \in DOMAIN open /\ open'[i] = open[i]) \/ open'[i] = q
          BY <3>2 DEF OpenInv
      <4> QED BY <2>2, <4>1, <4>2 DEF OpenInv
    <3> QED BY <1>7, <3>1, <3>2
  <2>4. \A x \in DOMAIN visited' : Len(visited'[x].transitions) \in Nat
      BY <2>1 DEF VisitedInv, BackOneStep
  <2>5. CASE Shortest!Paths!Found(q, d)
    <3> DEFINE l == Shortest!Paths!StartEnumeration(visited'[q].transitions)
    <3>1. /\ solution_found' = q /\ pc' = "enumerate"
          /\ current' = [x \in DOMAIN visited' |-> IF x = q THEN l ELSE current[x]]
        BY <2>5 DEF Shortest!Paths!Found
    <3>2. l \in 0 .. Len(visited'[q].transitions)
        BY <2>2, <2>4 DEF Shortest!Paths!StartEnumeration
    <3> HIDE DEF l
    <3>3. \A x \in DOMAIN visited' : x # q => current'[x] = 0
        BY <1>1, <2>2, <3>1
    <3>4. current' \in Positions'
        BY <1>1, <2>2, <2>4, <3>1, <3>2 DEF Positions, Shortest!Paths!Positions
    <3>5. Led(current, solution_found)'
        BY <3>1, <3>3 DEF Led
    <3>6. \A x \in DOMAIN visited' :
              visited'[x].distance > visited'[solution_found'].distance => current'[x] = 0
      <4>1. visited'[q].distance \in Nat
          BY <2>1, <2>2 DEF VisitedInv, BackOneStep
      <4> QED BY <3>1, <3>3, <4>1
    <3>7. SolutionInv'
        BY <1>6, <2>2, <3>1, <3>4, <3>5, <3>6 DEF SolutionInv
    <3> QED BY <1>9, <2>1, <2>3, <3>7
  <2>6. CASE Shortest!Paths!NotFound
    <3>1. /\ UNCHANGED <<solution_found, pc>>
          /\ current' = [x \in DOMAIN visited' |-> IF x \in DOMAIN visited THEN current[x] ELSE 0]
        BY <2>6 DEF Shortest!Paths!NotFound
    <3>2. \A x \in DOMAIN visited' : current'[x] = 0
        BY <1>1, <3>1
    <3>3. current' \in Positions'
        BY <2>4, <3>1, <3>2 DEF Positions, Shortest!Paths!Positions
    <3>4. SolutionInv'
        BY <1>1, <3>1, <3>2, <3>3 DEF SolutionInv
    <3> QED BY <1>9, <2>1, <2>3, <3>4
  <2> QED BY <1>11, <2>5, <2>6
<1> QED BY <1>5, <1>10, <1>11

\* A path is handed out, or all of the solution have been.
LEMMA EnumerateKept ==
    ASSUME VisitedInv, OpenInv, ExpandInv, SolutionInv, Shortest!Paths!Enumerate
    PROVE  VisitedInv' /\ OpenInv' /\ ExpandInv' /\ SolutionInv'
<1> DEFINE s == solution_found
           m == NextCalled(current, s)
<1>1. pc = "enumerate" /\ UNCHANGED <<visited, open, iter, at_end, current_transition, first_next>>
    BY DEF Shortest!Paths!Enumerate
<1>2. VisitedInv' /\ OpenInv'
    BY <1>1, VisitedSame, OpenSame
<1>3. /\ s # <<>> /\ s \in DOMAIN visited /\ current \in Positions /\ Led(current, s)
      /\ \A x \in DOMAIN visited : visited[x].distance > visited[s].distance => current[x] = 0
    BY <1>1 DEF SolutionInv
<1>4. /\ current' = m.current
      /\ \/ m.more /\ solution_found' = s /\ pc' = "ready"
         \/ ~m.more /\ solution_found' = <<>> /\ pc' = "loop"
    BY DEF Shortest!Paths!Enumerate, Shortest!Paths!Return, Shortest!Paths!NoSolution, NextCalled
<1>5. BackOneStep /\ \A x \in DOMAIN visited : visited[x].distance \in Nat
    BY DEF VisitedInv, BackOneStep
<1>6. NextKeeps(m, current, s)
    BY <1>3, <1>5, NextKeepsLed
<1>7. ExpandInv'
    BY <1>1, <1>4 DEF ExpandInv, Shortest!Paths!Outgoing, Shortest!Paths!Front
<1> HIDE DEF m
<1>8. Positions' = Positions
    BY <1>1 DEF Positions, Shortest!Paths!Positions
<1>9. /\ m.current \in Positions /\ Led(m.current, s)
      /\ \A x \in DOMAIN visited : visited[x].distance > visited[s].distance => m.current[x] = 0
      /\ ~m.more => \A x \in DOMAIN visited :
                        visited[x].distance <= visited[s].distance => m.current[x] = 0
    BY <1>3, <1>6 DEF NextKeeps
<1>10. CASE m.more
  <2>1. solution_found' = s /\ pc' = "ready"
      BY <1>4, <1>10
  <2>2. Led(current, solution_found)'
      BY <1>1, <1>4, <1>9, <2>1 DEF Led, Previous
  <2>3. SolutionInv'
      BY <1>1, <1>3, <1>4, <1>8, <1>9, <2>1, <2>2 DEF SolutionInv
  <2> QED BY <1>2, <1>7, <2>3
<1>11. CASE ~m.more
  <2>1. solution_found' = <<>> /\ pc' = "loop"
      BY <1>4, <1>11
  <2>2. \A x \in DOMAIN visited : m.current[x] = 0
    <3>1. \A x \in DOMAIN visited : \/ visited[x].distance > visited[s].distance
                                    \/ visited[x].distance <= visited[s].distance
        BY <1>3, <1>5
    <3> QED BY <1>9, <1>11, <3>1
  <2>3. SolutionInv'
      BY <1>1, <1>4, <1>8, <1>9, <2>1, <2>2 DEF SolutionInv
  <2> QED BY <1>2, <1>7, <2>3
<1> QED BY <1>10, <1>11

\* Before the first call and after a reset.
Fresh ==
    \E n \in ShortestGraph.node_ids :
        LET origin == <<ShortestGraph.start, n>>
        IN  /\ visited = [p \in {origin} |-> [distance |-> 0, transitions |-> <<>>]]
            /\ current = [p \in {origin} |-> 0]
            /\ open = <<origin>>
            /\ at_end /\ solution_found = <<>> /\ pc = "ready"

LEMMA FreshKept == Fresh => VisitedInv /\ OpenInv /\ ExpandInv /\ SolutionInv
<1> SUFFICES ASSUME NEW n \in ShortestGraph.node_ids, NEW origin, origin = <<ShortestGraph.start, n>>,
                    visited = [p \in {origin} |-> [distance |-> 0, transitions |-> <<>>]],
                    current = [p \in {origin} |-> 0], open = <<origin>>,
                    at_end, solution_found = <<>>, pc = "ready"
             PROVE  VisitedInv /\ OpenInv /\ ExpandInv /\ SolutionInv
    BY DEF Fresh
<1>1. origin \in ShortestStates
    BY ShortestFacts DEF ShortestStates
<1>2. /\ DOMAIN visited = {origin} /\ visited[origin] = [distance |-> 0, transitions |-> <<>>]
      /\ DOMAIN current = {origin} /\ current[origin] = 0
    OBVIOUS
<1>3. VisitedInv
  <2>1. [distance |-> 0, transitions |-> <<>>] \in Stored
      BY DEF Stored
  <2>2. visited \in [DOMAIN visited -> Stored]
      BY <1>2, <2>1
  <2>3. BackOneStep
      BY <1>2 DEF BackOneStep
  <2> QED BY <1>1, <1>2, <2>2, <2>3 DEF VisitedInv
<1>4. OpenInv
    BY <1>1, <1>2 DEF OpenInv
<1>5. ExpandInv
    BY DEF ExpandInv
<1>6. SolutionInv
    BY <1>2 DEF SolutionInv, Positions, Shortest!Paths!Positions
<1> QED BY <1>3, <1>4, <1>5, <1>6

LEMMA IterationInit == Init => IterationInv
<1> SUFFICES ASSUME Init, family = "shortest", ~counting
             PROVE  VisitedInv /\ OpenInv /\ ExpandInv /\ SolutionInv
    BY DEF IterationInv
<1>1. Shortest!Paths!Init
    BY DEF Init, Shortest!Init
<1>2. Fresh
    BY <1>1 DEF Fresh, Shortest!Paths!Init, Shortest!Paths!Unreached, Shortest!Paths!Origin,
                Shortest!Paths!NoSolution
<1> QED BY <1>2, FreshKept

LEMMA ResetKept ==
    ASSUME NEW n \in ShortestGraph.node_ids, NEW e, Shortest!Paths!Reset(n, e)
    PROVE  VisitedInv' /\ OpenInv' /\ ExpandInv' /\ SolutionInv'
<1>1. Fresh'
    BY DEF Fresh, Shortest!Paths!Reset, Shortest!Paths!Unreached, Shortest!Paths!Origin,
           Shortest!Paths!NoSolution
<1> QED BY <1>1, FreshKept, PTL

LEMMA IterationStep == IterationInv /\ [Next]_vars => IterationInv'
<1> SUFFICES ASSUME IterationInv, [Next]_vars, family' = "shortest", ~counting'
             PROVE  VisitedInv' /\ OpenInv' /\ ExpandInv' /\ SolutionInv'
    BY DEF IterationInv
<1>1. CASE UNCHANGED vars
  <2>1. /\ UNCHANGED <<family, counting, visited, current, open, iter, at_end, current_transition>>
        /\ UNCHANGED <<first_next, solution_found, pc>>
      BY <1>1 DEF vars, shortest_vars
  <2>2. VisitedInv /\ OpenInv /\ ExpandInv /\ SolutionInv
      BY <2>1 DEF IterationInv
  <2>3. VisitedInv' /\ OpenInv'
      BY <2>1, <2>2, VisitedSame, OpenSame
  <2>4. SolutionInv'
      BY <2>1, <2>2, SolutionSame DEF SolutionInv
  <2>5. ExpandInv'
      BY <2>1, <2>2 DEF ExpandInv, Shortest!Paths!Outgoing, Shortest!Paths!Front
  <2> QED BY <2>3, <2>4, <2>5
<1>2. CASE Next
  <2>1. family = "shortest" /\ Shortest!Next
      BY <1>2 DEF Next, OfAny, OfPaths, OfShortest, OfUnfixed
  <2>2. ~counting /\ Shortest!Paths!Next
      BY <2>1 DEF Shortest!Next, Shortest!Finding, Shortest!Counting
  <2>3. VisitedInv /\ OpenInv /\ ExpandInv /\ SolutionInv
      BY <2>1, <2>2 DEF IterationInv
  <2>4. \/ Shortest!Paths!StartMissing \/ Shortest!Paths!ReturnStart \/ Shortest!Paths!EnterLoop
        \/ Shortest!Paths!Exhausted \/ Shortest!Paths!ExpandFirst \/ Shortest!Paths!ExpandResume
        \/ Shortest!Paths!NextTransition \/ Shortest!Paths!Interrupt
        \/ Shortest!Paths!Enumerate
        \/ Shortest!Paths!Visit
        \/ \E n \in ShortestGraph.node_ids : \E e \in Shortest!Paths!EndsOf(check) :
               Shortest!Paths!Reset(n, e)
      BY <2>2 DEF Shortest!Paths!Next, Shortest!Paths!Search
  <2> QED BY <2>3, <2>4, IterationKept, EnumerateKept, VisitKept, ResetKept
<1> QED BY <1>1, <1>2

LEMMA IterationRests == IterationInv => IteratorsRest
BY DEF IterationInv, SolutionInv, IteratorsRest, Shortest!IteratorsRest, Shortest!Paths!NoSolution

-----------------------------------------------------------------------------
(* The operator that counts shortest paths hands out one count for each    *)
(* node: it is the queue that keeps the nodes apart.                       *)

\* No state is twice in the queue, also not one after the other.
CountQueue ==
    /\ open \in Seq(DOMAIN visited)
    /\ \A x \in DOMAIN visited : x = <<x[1], x[2]>>
    /\ \A i, j \in DOMAIN open : open[i] = open[j] => i = j
    /\ pc \in {"expand", "settle"} => open # <<>>
    /\ pc \in {"loop", "expand", "settle"} => ~first_next
    /\ first_next => Len(open) = 1 /\ results = <<>>

\* A check hands out one count and empties its queue. An enumeration with one final
\* state hands out the count of a node when that state of the node leaves the queue.
CountResults ==
    /\ \E S : results \in Seq(S)
    /\ check /\ results # <<>> => open = <<>> /\ Len(results) = 1
    /\ ~check => \A q : finals = {q} =>
           /\ \A i, j \in DOMAIN results : results[i][1] = results[j][1] => i = j
           /\ \A i \in DOMAIN results :
                  /\ <<q, results[i][1]>> \in DOMAIN visited
                  /\ \A k \in DOMAIN open : open[k] # <<q, results[i][1]>>

CountInv == family = "shortest" /\ counting => CountQueue /\ CountResults /\ finals \in Automata

LEMMA Appended ==
    ASSUME NEW S, NEW s \in Seq(S), NEW x, NEW T, x \in T, S \subseteq T
    PROVE  /\ Append(s, x) \in Seq(T)
           /\ \A i \in DOMAIN Append(s, x) : (i \in DOMAIN s /\ Append(s, x)[i] = s[i])
                                             \/ (i = Len(s) + 1 /\ Append(s, x)[i] = x)
<1>1. s \in Seq(T)
  <2>1. s \in [1 .. Len(s) -> S] /\ Len(s) \in Nat
      OBVIOUS
  <2>2. s \in [1 .. Len(s) -> T]
      BY <2>1
  <2> QED BY <2>1, <2>2
<1> QED BY <1>1

LEMMA TailFacts ==
    ASSUME NEW S, NEW s \in Seq(S), s # <<>>
    PROVE  /\ Tail(s) \in Seq(S) /\ Head(s) = s[1] /\ 1 \in DOMAIN s /\ Len(Tail(s)) = Len(s) - 1
           /\ \A i \in DOMAIN Tail(s) : Tail(s)[i] = s[i + 1] /\ i + 1 \in DOMAIN s /\ i + 1 # 1
           /\ \A i, j \in DOMAIN Tail(s) : i + 1 = j + 1 => i = j
    OBVIOUS

LEMMA OneLong == ASSUME NEW S, NEW s \in Seq(S), Len(s) = 1 PROVE s # <<>> /\ Tail(s) = <<>>
<1>1. s # <<>>
  <2> SUFFICES ASSUME s = <<>> PROVE FALSE
      OBVIOUS
  <2>1. Len(<<>>) = 0
      OBVIOUS
  <2> QED BY <2>1
<1>2. Tail(s) \in Seq(S) /\ Len(Tail(s)) = 0
    BY <1>1, TailFacts
<1>3. \A t \in Seq(S) : Len(t) = 0 => t = <<>>
    OBVIOUS
<1> QED BY <1>1, <1>2, <1>3

\* The front leaves the queue.
LEMMA CountPopped ==
    ASSUME CountQueue, open # <<>>
    PROVE  /\ Tail(open) \in Seq(DOMAIN visited)
           /\ \A i, j \in DOMAIN Tail(open) : Tail(open)[i] = Tail(open)[j] => i = j
           /\ \A i \in DOMAIN Tail(open) : \E k \in DOMAIN open : Tail(open)[i] = open[k] /\ open[k] # Head(open)
           /\ Head(open) \in DOMAIN visited /\ \E k \in DOMAIN open : open[k] = Head(open)
<1>1. open \in Seq(DOMAIN visited) /\ \A i, j \in DOMAIN open : open[i] = open[j] => i = j
    BY DEF CountQueue
<1>2. /\ Tail(open) \in Seq(DOMAIN visited) /\ Head(open) = open[1] /\ 1 \in DOMAIN open
      /\ \A i \in DOMAIN Tail(open) : Tail(open)[i] = open[i + 1] /\ i + 1 \in DOMAIN open /\ i + 1 # 1
      /\ \A i, j \in DOMAIN Tail(open) : i + 1 = j + 1 => i = j
    BY <1>1, TailFacts
<1>3. \A i, j \in DOMAIN Tail(open) : Tail(open)[i] = Tail(open)[j] => i = j
    BY <1>1, <1>2
<1>4. ASSUME NEW i \in DOMAIN Tail(open)
      PROVE  \E k \in DOMAIN open : Tail(open)[i] = open[k] /\ open[k] # Head(open)
    BY <1>1, <1>2
<1>5. Head(open) \in DOMAIN visited
    BY <1>1, <1>2
<1> QED BY <1>2, <1>3, <1>4, <1>5

\* A step that hands out nothing: the queue is the same, its front leaves it, or a
\* state that was not visited enters it.
CountQuiet ==
    /\ UNCHANGED <<check, finals, results>> /\ ~first_next'
    /\ \/ UNCHANGED open /\ DOMAIN visited' = DOMAIN visited
       \/ open # <<>> /\ open' = Tail(open) /\ DOMAIN visited' = DOMAIN visited
       \/ \E p : /\ p \notin DOMAIN visited /\ p = <<p[1], p[2]>> /\ DOMAIN visited' = DOMAIN visited \cup {p}
                 /\ open # <<>> /\ open' = Append(open, p)
    /\ pc' \in {"expand", "settle"} => open' # <<>>

\* A step that hands out a count.
CountReturn ==
    /\ UNCHANGED <<check, finals, visited>> /\ ~first_next' /\ pc' = "ready"
    /\ open # <<>>
    /\ \E c : \/ check /\ results' = Append(results, c) /\ open' = <<>>
              \/ /\ ~check /\ Head(open)[1] \in finals /\ c[1] = Head(open)[2]
                 /\ results' = Append(results, c) /\ open' = Tail(open)

LEMMA CountQuietKept == CountQueue /\ CountResults /\ CountQuiet => CountQueue' /\ CountResults'
<1> SUFFICES ASSUME CountQueue, CountResults, CountQuiet PROVE CountQueue' /\ CountResults'
    OBVIOUS
<1>1. open \in Seq(DOMAIN visited) /\ \A x \in DOMAIN visited : x = <<x[1], x[2]>>
    BY DEF CountQueue
<1>2. \A i, j \in DOMAIN open : open[i] = open[j] => i = j
    BY DEF CountQueue
<1>3. UNCHANGED <<check, finals, results>> /\ ~first_next'
      /\ (pc' \in {"expand", "settle"} => open' # <<>>)
    BY DEF CountQuiet
<1>4. SUFFICES /\ open' \in Seq(DOMAIN visited') /\ DOMAIN visited \subseteq DOMAIN visited'
               /\ \A x \in DOMAIN visited' : x = <<x[1], x[2]>>
               /\ \A i, j \in DOMAIN open' : open'[i] = open'[j] => i = j
               /\ \A i \in DOMAIN open' : (\E k \in DOMAIN open : open'[i] = open[k]) \/ open'[i] \notin DOMAIN visited
               /\ check /\ results # <<>> => open' = <<>>
  <2>1. CountQueue'
      BY <1>3, <1>4 DEF CountQueue
  <2>2. ASSUME ~check, NEW q, finals = {q}, NEW i \in DOMAIN results
        PROVE  /\ <<q, results[i][1]>> \in DOMAIN visited'
               /\ \A k \in DOMAIN open' : open'[k] # <<q, results[i][1]>>
    <3>1. /\ <<q, results[i][1]>> \in DOMAIN visited
          /\ \A k \in DOMAIN open : open[k] # <<q, results[i][1]>>
        BY <2>2 DEF CountResults
    <3>2. <<q, results[i][1]>> \in DOMAIN visited'
        BY <1>4, <3>1
    <3> DEFINE x == <<q, results[i][1]>>
    <3>3. x \in DOMAIN visited /\ \A k \in DOMAIN open : open[k] # x
        BY <3>1
    <3> HIDE DEF x
    <3>4. ASSUME NEW k \in DOMAIN open' PROVE open'[k] # x
        BY <1>4, <3>3
    <3> QED BY <3>2, <3>4 DEF x
  <2>3. PICK S : results \in Seq(S)
      BY DEF CountResults
  <2>4. CountResults'
    <3>1. results' \in Seq(S)
        BY <1>3, <2>3
    <3>2. check' /\ results' # <<>> => open' = <<>> /\ Len(results') = 1
        BY <1>3, <1>4 DEF CountResults
    <3>3. ~check' => \A q : finals' = {q} =>
              \A i, j \in DOMAIN results' : results'[i][1] = results'[j][1] => i = j
        BY <1>3 DEF CountResults
    <3>4. ~check' => \A q : finals' = {q} =>
              \A i \in DOMAIN results' :
                  /\ <<q, results'[i][1]>> \in DOMAIN visited'
                  /\ \A k \in DOMAIN open' : open'[k] # <<q, results'[i][1]>>
      <4>1. ~check => \A q : finals = {q} =>
                \A i \in DOMAIN results :
                    /\ <<q, results[i][1]>> \in DOMAIN visited'
                    /\ \A k \in DOMAIN open' : open'[k] # <<q, results[i][1]>>
          BY <2>2
      <4>2. check' = check /\ finals' = finals /\ results' = results
          BY <1>3
      <4> SUFFICES ASSUME ~check', NEW q, finals' = {q}, NEW i \in DOMAIN results'
                   PROVE  /\ <<q, results'[i][1]>> \in DOMAIN visited'
                          /\ \A k \in DOMAIN open' : open'[k] # <<q, results'[i][1]>>
          OBVIOUS
      <4>3. ~check /\ finals = {q} /\ i \in DOMAIN results /\ results'[i] = results[i]
          BY <4>2
      <4>4. /\ <<q, results[i][1]>> \in DOMAIN visited'
            /\ \A k \in DOMAIN open' : open'[k] # <<q, results[i][1]>>
          BY <4>1, <4>3
      <4> QED BY <4>3, <4>4
    <3> QED BY <3>1, <3>2, <3>3, <3>4 DEF CountResults
  <2> QED BY <2>1, <2>4
<1>5. check /\ results # <<>> => open = <<>>
    BY DEF CountResults
<1>6. CASE UNCHANGED open /\ DOMAIN visited' = DOMAIN visited
    BY <1>1, <1>2, <1>5, <1>6
<1>7. CASE open # <<>> /\ open' = Tail(open) /\ DOMAIN visited' = DOMAIN visited
    BY <1>1, <1>5, <1>7, CountPopped
<1>8. ASSUME NEW p, p \notin DOMAIN visited, p = <<p[1], p[2]>>,
             DOMAIN visited' = DOMAIN visited \cup {p}, open # <<>>, open' = Append(open, p)
      PROVE  /\ open' \in Seq(DOMAIN visited') /\ DOMAIN visited \subseteq DOMAIN visited'
             /\ \A x \in DOMAIN visited' : x = <<x[1], x[2]>>
             /\ \A i, j \in DOMAIN open' : open'[i] = open'[j] => i = j
             /\ \A i \in DOMAIN open' : (\E k \in DOMAIN open : open'[i] = open[k]) \/ open'[i] \notin DOMAIN visited
             /\ check /\ results # <<>> => open' = <<>>
  <2>1. /\ open' \in Seq(DOMAIN visited')
        /\ \A i \in DOMAIN open' : (i \in DOMAIN open /\ open'[i] = open[i])
                                   \/ (i = Len(open) + 1 /\ open'[i] = p)
      BY <1>1, <1>8, Appended
  <2>2. \A i \in DOMAIN open : open[i] \in DOMAIN visited
      BY <1>1
  <2>3. \A i, j \in DOMAIN open' : open'[i] = open'[j] => i = j
      BY <1>2, <1>8, <2>1, <2>2
  <2> QED BY <1>1, <1>5, <1>8, <2>1, <2>3
<1> QED BY <1>6, <1>7, <1>8 DEF CountQuiet

LEMMA CountReturnKept == CountQueue /\ CountResults /\ CountReturn => CountQueue' /\ CountResults'
<1> SUFFICES ASSUME CountQueue, CountResults, CountReturn PROVE CountQueue' /\ CountResults'
    OBVIOUS
<1>1. open \in Seq(DOMAIN visited) /\ \A x \in DOMAIN visited : x = <<x[1], x[2]>>
    BY DEF CountQueue
<1>2. /\ UNCHANGED <<check, finals, visited>> /\ ~first_next' /\ pc' = "ready" /\ open # <<>>
    BY DEF CountReturn
<1>3. PICK c : \/ check /\ results' = Append(results, c) /\ open' = <<>>
               \/ /\ ~check /\ Head(open)[1] \in finals /\ c[1] = Head(open)[2]
                  /\ results' = Append(results, c) /\ open' = Tail(open)
    BY DEF CountReturn
<1>4. PICK S : results \in Seq(S)
    BY DEF CountResults
<1>5. /\ results' \in Seq(S \cup {c})
      /\ \A i \in DOMAIN results' : (i \in DOMAIN results /\ results'[i] = results[i])
                                    \/ (i = Len(results) + 1 /\ results'[i] = c)
  <2>1. results' = Append(results, c)
      BY <1>3
  <2>2. /\ Append(results, c) \in Seq(S \cup {c})
        /\ \A i \in DOMAIN Append(results, c) : (i \in DOMAIN results /\ Append(results, c)[i] = results[i])
                                    \/ (i = Len(results) + 1 /\ Append(results, c)[i] = c)
      BY <1>4, Appended
  <2> QED BY <2>1, <2>2
<1>6. CASE check
  <2>1. results = <<>> /\ open' = <<>> /\ results' = Append(results, c)
      BY <1>2, <1>3, <1>6 DEF CountResults
  <2>2. Len(results') = 1
      BY <2>1
  <2>3. CountQueue'
      BY <1>1, <1>2, <2>1 DEF CountQueue
  <2> QED BY <1>2, <1>5, <1>6, <2>1, <2>2, <2>3 DEF CountResults
<1>7. CASE ~check
  <2>1. /\ Head(open)[1] \in finals /\ c[1] = Head(open)[2]
        /\ results' = Append(results, c) /\ open' = Tail(open)
      BY <1>3, <1>7
  <2>2. /\ open' \in Seq(DOMAIN visited)
        /\ \A i, j \in DOMAIN open' : open'[i] = open'[j] => i = j
        /\ \A i \in DOMAIN open' : \E k \in DOMAIN open : open'[i] = open[k] /\ open[k] # Head(open)
        /\ Head(open) \in DOMAIN visited /\ \E k \in DOMAIN open : open[k] = Head(open)
      BY <1>2, <2>1, CountPopped
  <2>3. CountQueue'
      BY <1>1, <1>2, <2>2 DEF CountQueue
  <2>4. ASSUME NEW q, finals = {q}
        PROVE  /\ \A i, j \in DOMAIN results' : results'[i][1] = results'[j][1] => i = j
               /\ \A i \in DOMAIN results' :
                      /\ <<q, results'[i][1]>> \in DOMAIN visited
                      /\ \A k \in DOMAIN open' : open'[k] # <<q, results'[i][1]>>
    <3>1. <<q, c[1]>> = Head(open)
      <4>1. Head(open) = <<Head(open)[1], Head(open)[2]>>
          BY <1>1, <2>2
      <4> QED BY <2>1, <2>4, <4>1
    <3>2. /\ \A i, j \in DOMAIN results : results[i][1] = results[j][1] => i = j
          /\ \A i \in DOMAIN results :
                 /\ <<q, results[i][1]>> \in DOMAIN visited
                 /\ \A k \in DOMAIN open : open[k] # <<q, results[i][1]>>
        BY <1>7, <2>4 DEF CountResults
    <3>3. \A i \in DOMAIN results : results[i][1] # c[1]
      <4> SUFFICES ASSUME NEW i \in DOMAIN results, results[i][1] = c[1] PROVE FALSE
          OBVIOUS
      <4>1. <<q, results[i][1]>> = Head(open)
          BY <3>1
      <4>2. \A k \in DOMAIN open : open[k] # Head(open)
          BY <3>2, <4>1
      <4> QED BY <2>2, <4>2
    <3>4. \A i, j \in DOMAIN results' : results'[i][1] = results'[j][1] => i = j
        BY <1>5, <3>2, <3>3
    <3>5. \A i \in DOMAIN results' :
                      /\ <<q, results'[i][1]>> \in DOMAIN visited
                      /\ \A k \in DOMAIN open' : open'[k] # <<q, results'[i][1]>>
      <4> SUFFICES ASSUME NEW i \in DOMAIN results'
                   PROVE  /\ <<q, results'[i][1]>> \in DOMAIN visited
                          /\ \A k \in DOMAIN open' : open'[k] # <<q, results'[i][1]>>
          OBVIOUS
      <4>1. CASE i \in DOMAIN results /\ results'[i] = results[i]
          BY <2>2, <3>2, <4>1
      <4>2. CASE results'[i] = c
        <5>1. <<q, results'[i][1]>> = Head(open)
            BY <3>1, <4>2
        <5> QED BY <2>2, <5>1
      <4> QED BY <1>5, <4>1, <4>2
    <3> QED BY <3>4, <3>5
  <2>5. CountResults'
      BY <1>2, <1>5, <1>7, <2>4 DEF CountResults
  <2> QED BY <2>3, <2>5
<1> QED BY <1>6, <1>7

LEMMA CountInit == Init => CountInv
<1> SUFFICES ASSUME Init, family = "shortest", counting
             PROVE  CountQueue /\ CountResults /\ finals \in Automata
    BY DEF CountInv
<1>1. Shortest!Counts!Init
    BY DEF Init, Shortest!Init
<1>2. /\ visited = [p \in {<<ShortestGraph.start, start>>} |-> Shortest!Counts!ResultInfo(1, 0)]
      /\ open = <<<<ShortestGraph.start, start>>>>
      /\ results = <<>> /\ pc = "ready" /\ finals \in Automata
    BY <1>1 DEF Shortest!Counts!Init, Shortest!Counts!Origin
<1>3. results \in Seq({})
    BY <1>2
<1>4. CountQueue
    BY <1>2 DEF CountQueue
<1>5. CountResults
    BY <1>2, <1>3 DEF CountResults
<1> QED BY <1>2, <1>4, <1>5

LEMMA CountReset ==
    ASSUME NEW n, NEW e, Shortest!Counts!Reset(n, e)
    PROVE  CountQueue' /\ CountResults' /\ UNCHANGED finals
<1>1. /\ visited' = [p \in {<<ShortestGraph.start, n>>} |-> Shortest!Counts!ResultInfo(1, 0)]
      /\ open' = <<<<ShortestGraph.start, n>>>>
      /\ results' = <<>> /\ pc' = "ready" /\ UNCHANGED finals
    BY DEF Shortest!Counts!Reset, Shortest!Counts!Origin
<1>2. results' \in Seq({})
    BY <1>1
<1>3. CountQueue'
    BY <1>1 DEF CountQueue
<1>4. CountResults'
    BY <1>1, <1>2 DEF CountResults
<1> QED BY <1>1, <1>3, <1>4

LEMMA CountSearch ==
    ASSUME CountQueue, CountResults, Shortest!Counts!Search \/ Shortest!Counts!Interrupt
    PROVE  CountQuiet \/ CountReturn
<1>1. CASE Shortest!Counts!StartMissing
  <2>1. open # <<>>
      BY <1>1 DEF Shortest!Counts!StartMissing, CountQueue
  <2> QED BY <1>1, <2>1 DEF Shortest!Counts!StartMissing, Shortest!Counts!Pop, CountQuiet
<1>2. CASE Shortest!Counts!ReturnStart
  <2>1. Len(open) = 1 /\ open \in Seq(DOMAIN visited)
      BY <1>2 DEF Shortest!Counts!ReturnStart, CountQueue
  <2>2. open # <<>> /\ Tail(open) = <<>>
      BY <2>1, OneLong
  <2>3. /\ check /\ open' = Tail(open) /\ ~first_next' /\ pc' = "ready"
        /\ UNCHANGED <<check, finals, visited>>
        /\ \E c : results' = Append(results, c)
      BY <1>2 DEF Shortest!Counts!ReturnStart, Shortest!Counts!StartIsAnswer, Shortest!Counts!Return,
                  Shortest!Counts!Pop
  <2> QED BY <2>2, <2>3 DEF CountReturn
<1>3. CASE Shortest!Counts!EnterLoop \/ Shortest!Counts!Exhausted
    BY <1>3 DEF Shortest!Counts!EnterLoop, Shortest!Counts!Exhausted, CountQuiet, CountQueue
<1>4. CASE Shortest!Counts!Explore \/ Shortest!Counts!NextTransition \/ Shortest!Counts!Interrupt
    BY <1>4 DEF Shortest!Counts!Explore, Shortest!Counts!NextTransition, Shortest!Counts!Interrupt,
                CountQuiet, CountQueue
<1>5. CASE Shortest!Counts!Visit
  <2>1. open # <<>> /\ ~first_next /\ UNCHANGED <<check, finals, results, first_next>>
      BY <1>5 DEF Shortest!Counts!Visit, CountQueue
  <2>2. \/ UNCHANGED open /\ DOMAIN visited' = DOMAIN visited
        \/ \E p : /\ p \notin DOMAIN visited /\ p = <<p[1], p[2]>> /\ DOMAIN visited' = DOMAIN visited \cup {p}
                  /\ open' = Append(open, p)
    <3> DEFINE p(r) == <<Shortest!Counts!Outgoing[current_transition].to, r.node>>
    <3>1. PICK r \in iter :
              \/ UNCHANGED open /\ UNCHANGED visited
              \/ UNCHANGED open /\ p(r) \in DOMAIN visited /\ \E c : visited' = [visited EXCEPT ![p(r)].count = c]
              \/ /\ p(r) \notin DOMAIN visited /\ open' = Append(open, p(r))
                 /\ \E v : visited' = Shortest!Counts!Set(visited, p(r), v)
        BY <1>5 DEF Shortest!Counts!Visit
    <3>2. p(r) = <<p(r)[1], p(r)[2]>>
        OBVIOUS
    <3> HIDE DEF p
    <3>3. \A v : DOMAIN Shortest!Counts!Set(visited, p(r), v) = DOMAIN visited \cup {p(r)}
        BY DEF Shortest!Counts!Set
    <3> QED BY <3>1, <3>2, <3>3
  <2>3. open' # <<>>
    <3>1. open \in Seq(DOMAIN visited)
        BY DEF CountQueue
    <3>2. \A p : Append(open, p) # <<>>
        BY <3>1
    <3> QED BY <2>1, <2>2, <3>2
  <2> QED BY <2>1, <2>2, <2>3 DEF CountQuiet
<1>6. CASE Shortest!Counts!Settle
  <2>1. open # <<>> /\ ~first_next /\ UNCHANGED <<check, finals, visited, first_next>>
      BY <1>6 DEF Shortest!Counts!Settle, CountQueue
  <2>2. CASE Shortest!Counts!HasCount /\ Shortest!Counts!CountOfFront
    <3>1. pc' = "ready"
        BY <2>2 DEF Shortest!Counts!CountOfFront, Shortest!Counts!Return
    <3>2. \/ check /\ open' = <<>> /\ \E c : results' = Append(results, c)
          \/ /\ ~check /\ open' = Tail(open) /\ Head(open)[1] \in finals
             /\ \E k : results' = Append(results, <<Head(open)[2], k>>)
        BY <2>2 DEF Shortest!Counts!HasCount, Shortest!Counts!CountOfFront, Shortest!Counts!Return,
                    Shortest!Counts!Pop, Shortest!Counts!ClearOpen, Shortest!Counts!Front,
                    Shortest!Counts!Final
    <3>3. \A k : <<Head(open)[2], k>>[1] = Head(open)[2]
        OBVIOUS
    <3> QED BY <2>1, <3>1, <3>2, <3>3 DEF CountReturn
  <2>3. CASE ~Shortest!Counts!HasCount
    <3>1. open' = Tail(open) /\ pc' = "loop" /\ UNCHANGED results
        BY <1>6, <2>3 DEF Shortest!Counts!Settle, Shortest!Counts!Pop
    <3> QED BY <2>1, <3>1 DEF CountQuiet
  <2> QED BY <1>6, <2>2, <2>3 DEF Shortest!Counts!Settle
<1> QED BY <1>1, <1>2, <1>3, <1>4, <1>5, <1>6 DEF Shortest!Counts!Search

LEMMA CountStep == CountInv /\ [Next]_vars => CountInv'
<1> SUFFICES ASSUME CountInv, [Next]_vars, family' = "shortest", counting'
             PROVE  CountQueue' /\ CountResults' /\ (finals \in Automata)'
    BY DEF CountInv
<1>1. CASE UNCHANGED vars
  <2>1. /\ family = "shortest" /\ counting
        /\ UNCHANGED <<check, finals, visited, open, first_next, results, pc>>
      BY <1>1 DEF vars, shortest_vars
  <2>2. CountQueue /\ CountResults /\ finals \in Automata
      BY <2>1 DEF CountInv
  <2>3. CountQueue'
      BY <2>1, <2>2 DEF CountQueue
  <2>4. CountResults'
    <3>1. PICK S : results \in Seq(S)
        BY <2>2 DEF CountResults
    <3>2. results' \in Seq(S)
        BY <2>1, <3>1
    <3>3. check' /\ results' # <<>> => open' = <<>> /\ Len(results') = 1
        BY <2>1, <2>2 DEF CountResults
    <3>4. ~check => \A q : finals = {q} =>
              /\ \A i, j \in DOMAIN results : results[i][1] = results[j][1] => i = j
              /\ \A i \in DOMAIN results :
                     /\ <<q, results[i][1]>> \in DOMAIN visited
                     /\ \A k \in DOMAIN open : open[k] # <<q, results[i][1]>>
        BY <2>2 DEF CountResults
    <3>5. ~check' => \A q : finals' = {q} =>
              /\ \A i, j \in DOMAIN results' : results'[i][1] = results'[j][1] => i = j
              /\ \A i \in DOMAIN results' :
                     /\ <<q, results'[i][1]>> \in DOMAIN visited'
                     /\ \A k \in DOMAIN open' : open'[k] # <<q, results'[i][1]>>
        BY <2>1, <3>4
    <3> QED BY <3>2, <3>3, <3>5 DEF CountResults
  <2> QED BY <2>1, <2>2, <2>3, <2>4
<1>2. CASE Next
  <2>1. family = "shortest" /\ Shortest!Next
      BY <1>2 DEF Next, OfAny, OfPaths, OfShortest, OfUnfixed
  <2>2. counting /\ Shortest!Counts!Next
      BY <2>1 DEF Shortest!Next, Shortest!Finding, Shortest!Counting
  <2>3. CountQueue /\ CountResults /\ finals \in Automata
      BY <2>1, <2>2 DEF CountInv
  <2>4. CASE Shortest!Counts!Search \/ Shortest!Counts!Interrupt
    <3>1. CountQuiet \/ CountReturn
        BY <2>3, <2>4, CountSearch
    <3>2. UNCHANGED finals
        BY <3>1 DEF CountQuiet, CountReturn
    <3> QED BY <2>3, <3>1, <3>2, CountQuietKept, CountReturnKept
  <2>5. CASE \E n \in ShortestGraph.node_ids : \E e \in Shortest!Counts!EndsOf(check) :
                 Shortest!Counts!Reset(n, e)
      BY <2>3, <2>5, CountReset
  <2> QED BY <2>2, <2>4, <2>5 DEF Shortest!Counts!Next
<1> QED BY <1>1, <1>2

\* What is left of NoneTwice when paths are counted.
LEMMA CountedOnce == family = "shortest" /\ counting /\ CountInv => NoneTwice
<1> SUFFICES ASSUME family = "shortest", counting, CountInv PROVE Shortest!OneCount
    BY DEF NoneTwice, Shortest!LongNoneTwice
<1>1. CountResults /\ finals \in Automata
    BY DEF CountInv
<1>2. CASE check
  <2>1. PICK S : results \in Seq(S)
      BY <1>1 DEF CountResults
  <2>2. results # <<>> => Len(results) = 1
      BY <1>1, <1>2 DEF CountResults
  <2>3. \A i, j \in DOMAIN results : i = j
      BY <2>1, <2>2
  <2> QED BY <2>3 DEF Shortest!OneCount
<1>3. CASE ~check /\ Shortest!Cardinality(finals) = 1
  <2>1. finals \subseteq ShortestGraph.states
      BY <1>1, ClassAssumption, AutomatonAssumption DEF Shortest!AutomatonAssumption
  <2>2. ShortestP!IsFiniteSet(finals)
      BY <2>1, ShortestFiniteAssumption, ShortestGraphAssumption, ShortestAutomatonAssumption,
         ShortestP!FS_Subset DEF ShortestP!FiniteAssumption
  <2>3. ShortestP!Cardinality(finals) = 1
      BY <1>3 DEF Shortest!Cardinality, ShortestP!Cardinality
  <2>4. \E q : finals = {q}
      BY <2>2, <2>3, ShortestFiniteAssumption, ShortestGraphAssumption, ShortestAutomatonAssumption,
         ShortestP!FS_Singleton
  <2> QED BY <1>1, <1>3, <2>4 DEF CountResults, Shortest!OneCount
<1> QED BY <1>2, <1>3 DEF Shortest!OneCount

-----------------------------------------------------------------------------
(* The operators for any path.                                             *)

AnyP == INSTANCE AnyOperatorsProofs WITH
    Classes <- AnyKinds, NodeIds <- AnyGraph.node_ids, Nodes <- AnyGraph.nodes,
    Types <- AnyGraph.types, Edges <- AnyGraph.edges, States <- AnyGraph.states,
    StartState <- AnyGraph.start, FinalStates <- AnyGraph.final, Connections <- AnyGraph.connections

LEMMA AnyGraphAssumption == AnyP!GraphAssumption
BY GraphAssumption

LEMMA AnyAutomatonAssumption == AnyP!AutomatonAssumption
BY AutomatonAssumption DEF AnyPath!Transition, AnyP!Transition

LEMMA AnyFiniteAssumption == AnyP!FiniteAssumption
BY FiniteAssumption DEF AnyPath!IsFiniteSet, AnyP!IsFiniteSet

\* The two instances of a family, the one of PathSearch and the one of its
\* proofs, are the same operators, so they have the same steps.
LEMMA AnyInitIsInit == AnyPath!AnyInit => AnyP!AnyInit
BY DEF AnyPath!AnyInit, AnyP!AnyInit, AnyPath!BfsChosen, AnyP!BfsChosen, AnyPath!Init, AnyP!Init,
       AnyPath!Bfs!Init, AnyP!Bfs!Init, AnyPath!Origin, AnyP!Origin, AnyPath!Frame, AnyP!Frame,
       AnyPath!EndsOf, AnyP!EndsOf, AnyPath!NoEnd, AnyP!NoEnd, AnyPath!Null, AnyP!Null,
       AnyPath!Bfs!Origin, AnyP!Bfs!Origin, AnyPath!Bfs!Null, AnyP!Bfs!Null

LEMMA AnyNextIsNext == AnyPath!AnyNext => AnyP!AnyNext
BY DEF AnyPath!AnyNext, AnyP!AnyNext, AnyPath!BfsChosen, AnyP!BfsChosen, AnyPath!Next,
       AnyP!Next, AnyPath!Search, AnyP!Search, AnyPath!StartMissing, AnyP!StartMissing,
       AnyPath!StartIsAnswer, AnyP!StartIsAnswer, AnyPath!EnterLoop, AnyP!EnterLoop,
       AnyPath!Exhausted, AnyP!Exhausted, AnyPath!ExpandFirst, AnyP!ExpandFirst,
       AnyPath!ExpandResume, AnyP!ExpandResume, AnyPath!Visit, AnyP!Visit,
       AnyPath!NextTransition, AnyP!NextTransition, AnyPath!Interrupt, AnyP!Interrupt,
       AnyPath!Reset, AnyP!Reset, AnyPath!Pop, AnyP!Pop, AnyPath!TakeAnswer, AnyP!TakeAnswer,
       AnyPath!Return, AnyP!Return, AnyPath!IsAnswer, AnyP!IsAnswer, AnyPath!CheckAnswer,
       AnyP!CheckAnswer, AnyPath!EnumAnswer, AnyP!EnumAnswer, AnyPath!Check, AnyP!Check,
       AnyPath!EndIsVar, AnyP!EndIsVar, AnyPath!Top, AnyP!Top, AnyPath!TopConnections,
       AnyP!TopConnections, AnyPath!SetIter, AnyP!SetIter, AnyPath!Frame, AnyP!Frame,
       AnyPath!Insert, AnyP!Insert, AnyPath!MoreTransitions, AnyP!MoreTransitions,
       AnyPath!EndsOf, AnyP!EndsOf, AnyPath!NoEnd, AnyP!NoEnd, AnyPath!Null, AnyP!Null,
       AnyPath!IsFinal, AnyP!IsFinal, AnyPath!MultipleFinal, AnyP!MultipleFinal,
       AnyPath!GetIterator, AnyP!GetIterator, AnyPath!Origin, AnyP!Origin, AnyPath!Bfs!Next,
       AnyP!Bfs!Next, AnyPath!Bfs!Search, AnyP!Bfs!Search, AnyPath!Bfs!StartMissing,
       AnyP!Bfs!StartMissing, AnyPath!Bfs!StartIsAnswer, AnyP!Bfs!StartIsAnswer,
       AnyPath!Bfs!EnterLoop, AnyP!Bfs!EnterLoop, AnyPath!Bfs!Exhausted, AnyP!Bfs!Exhausted,
       AnyPath!Bfs!Expand, AnyP!Bfs!Expand, AnyPath!Bfs!Visit, AnyP!Bfs!Visit,
       AnyPath!Bfs!NextTransition, AnyP!Bfs!NextTransition, AnyPath!Bfs!Interrupt,
       AnyP!Bfs!Interrupt, AnyPath!Bfs!Reset, AnyP!Bfs!Reset, AnyPath!Bfs!IsAnswer,
       AnyP!Bfs!IsAnswer, AnyPath!Bfs!Return, AnyP!Bfs!Return, AnyPath!Bfs!Front,
       AnyP!Bfs!Front, AnyPath!Bfs!Outgoing, AnyP!Bfs!Outgoing, AnyPath!Bfs!Push,
       AnyP!Bfs!Push, AnyPath!Bfs!MoreTransitions, AnyP!Bfs!MoreTransitions, AnyPath!Bfs!Pop,
       AnyP!Bfs!Pop, AnyPath!Bfs!Null, AnyP!Bfs!Null, AnyPath!Bfs!IsFinal, AnyP!Bfs!IsFinal,
       AnyPath!Bfs!GetIterator, AnyP!Bfs!GetIterator, AnyPath!Bfs!Origin, AnyP!Bfs!Origin

AnyInv == family = "any" => AnyP!Inv

\* Steps of another family leave the invariant alone.
LEMMA AnyInvInit == Init => AnyInv
BY AnyGraphAssumption, AnyAutomatonAssumption, AnyFiniteAssumption, AnyInitIsInit, AnyP!AnyInvInit
   DEF Init, AnyInv

LEMMA AnyInvStep == AnyInv /\ [Next]_vars => AnyInv'
<1> SUFFICES ASSUME AnyInv, [Next]_vars, family' = "any" PROVE AnyP!Inv'
    BY DEF AnyInv
<1> USE AnyGraphAssumption, AnyAutomatonAssumption, AnyFiniteAssumption
<1>1. CASE OfAny(AnyPath!AnyNext)
    BY <1>1, AnyNextIsNext, AnyP!AnyInvStep DEF OfAny, AnyInv
<1>2. CASE UNCHANGED vars
  <2>1. UNCHANGED AnyP!all_vars /\ AnyP!Inv
      BY <1>2 DEF vars, any_vars, AnyP!all_vars, AnyP!vars, AnyInv
  <2> QED BY <2>1, AnyP!AnyInvStep
<1>3. CASE OfPaths(Paths!Next) \/ OfShortest(Shortest!Next) \/ OfUnfixed(Unfixed!Next)
    BY <1>3 DEF OfPaths, OfShortest, OfUnfixed
<1> QED BY <1>1, <1>2, <1>3 DEF Next

LEMMA AnyInvariant == Init /\ [][Next]_vars => []AnyInv
BY AnyInvInit, AnyInvStep, PTL

\* What PathSearch states of the family follows from the invariant.
LEMMA AnyStack == AnyInv /\ family = "any" => AnyPath!StackIsPath
BY AnyGraphAssumption, AnyAutomatonAssumption, AnyFiniteAssumption, AnyP!InvStackIsPath
   DEF AnyInv, AnyPath!StackIsPath, AnyP!StackIsPath, AnyPath!BfsChosen, AnyP!BfsChosen,
       AnyPath!Step, AnyP!Step, AnyPath!GetIterator, AnyP!GetIterator

LEMMA AnyExpanded == AnyInv => ExpandedCompletely
BY AnyGraphAssumption, AnyAutomatonAssumption, AnyFiniteAssumption, AnyP!InvExpanded
   DEF AnyInv, ExpandedCompletely, AnyPath!ExpandedCompletely, AnyP!ExpandedCompletely,
       AnyPath!Product, AnyP!Product, AnyPath!BfsChosen, AnyP!BfsChosen, AnyPath!Check, AnyP!Check,
       AnyPath!Step, AnyP!Step, AnyPath!GetIterator, AnyP!GetIterator

LEMMA AnyShortestPath == AnyInv => ShortestPath
BY AnyGraphAssumption, AnyAutomatonAssumption, AnyFiniteAssumption, AnyP!InvShortest
   DEF AnyInv, ShortestPath, AnyPath!ShortestPath, AnyP!ShortestPath, AnyPath!BfsChosen, AnyP!BfsChosen,
       AnyPath!Depth, AnyP!Depth, AnyPath!AnswerDistance, AnyP!AnswerDistance,
       AnyPath!DistancesTo, AnyP!DistancesTo, AnyPath!WalkEnds, AnyP!WalkEnds,
       AnyPath!Successors, AnyP!Successors, AnyPath!Product, AnyP!Product,
       AnyPath!Step, AnyP!Step, AnyPath!GetIterator, AnyP!GetIterator, AnyPath!Origin, AnyP!Origin,
       AnyPath!Cardinality, AnyP!Cardinality

\* What AnyOperatorsProofs proves of the answers, with the operator and what is
\* bound at begin() unchanged in what it is.
AnyOne == family = "any" /\ AnyP!Inv /\ AnyP!AnswerInv

LEMMA AnyOneInit == Init /\ family = "any" => AnyOne
BY AnyGraphAssumption, AnyAutomatonAssumption, AnyFiniteAssumption, AnyInitIsInit, AnyP!AnyInvInit,
   AnyP!AnswerInit DEF Init, AnyOne

\* A step of PathSearch is one of the operator, or of none.
LEMMA AnyOneNext == AnyOne /\ [Next]_vars => family' = "any" /\ AnyP!Inv' /\ [AnyP!AnyNext]_(AnyP!all_vars)
<1> SUFFICES ASSUME AnyOne, [Next]_vars
             PROVE  family' = "any" /\ AnyP!Inv' /\ [AnyP!AnyNext]_(AnyP!all_vars)
    OBVIOUS
<1>1. family' = "any" /\ (AnyP!AnyNext \/ UNCHANGED AnyP!all_vars)
  <2>1. CASE OfAny(AnyPath!AnyNext)
      BY <2>1, AnyNextIsNext DEF OfAny
  <2>2. CASE UNCHANGED vars
      BY <2>2 DEF vars, any_vars, AnyP!all_vars, AnyP!vars, AnyOne
  <2>3. ~OfPaths(Paths!Next) /\ ~OfShortest(Shortest!Next) /\ ~OfUnfixed(Unfixed!Next)
      BY DEF OfPaths, OfShortest, OfUnfixed, AnyOne
  <2> QED BY <2>1, <2>2, <2>3 DEF Next
<1>2. AnyP!Inv'
    BY <1>1, AnyGraphAssumption, AnyAutomatonAssumption, AnyFiniteAssumption, AnyP!AnyInvStep
       DEF AnyOne
<1> QED BY <1>1, <1>2

LEMMA AnyOneStep == AnyOne /\ [Next]_vars => AnyOne'
BY AnyOneNext, AnyGraphAssumption, AnyAutomatonAssumption, AnyFiniteAssumption, AnyP!AnswerInvStep
   DEF AnyOne

LEMMA AnyClassKept == AnyP!AnyNext \/ UNCHANGED AnyP!all_vars => class' = class
BY DEF AnyP!AnyNext, AnyP!Next, AnyP!Search, AnyP!StartMissing, AnyP!StartIsAnswer, AnyP!EnterLoop,
       AnyP!Exhausted, AnyP!ExpandFirst, AnyP!ExpandResume, AnyP!Visit, AnyP!NextTransition,
       AnyP!Interrupt, AnyP!Reset, AnyP!all_vars, AnyP!vars

LEMMA AnyOnce == AnyOne => NoneTwice
<1> SUFFICES ASSUME AnyOne PROVE AnyPath!NoNodeTwice
    BY DEF NoneTwice, AnyOne
<1>1. AnyP!NoNodeTwice
    BY AnyGraphAssumption, AnyAutomatonAssumption, AnyFiniteAssumption, AnyP!AnswersOnce DEF AnyOne
<1> QED BY <1>1 DEF AnyPath!NoNodeTwice, AnyP!NoNodeTwice

LEMMA AnyExpected == AnyPath!AnswersTo = AnyP!AnswersTo
BY DEF AnyPath!AnswersTo, AnyP!AnswersTo, AnyPath!Inputs, AnyP!Inputs, AnyPath!EndsOf, AnyP!EndsOf,
       AnyPath!NoEnd, AnyP!NoEnd, AnyPath!Answers, AnyP!Answers, AnyPath!Reachable, AnyP!Reachable,
       AnyPath!ClosedSets, AnyP!ClosedSets, AnyPath!Successors, AnyP!Successors, AnyPath!Step,
       AnyP!Step, AnyPath!GetIterator, AnyP!GetIterator, AnyPath!Product, AnyP!Product,
       AnyPath!Origin, AnyP!Origin, AnyPath!IsFinal, AnyP!IsFinal

\* The answers PathSearch expects of a family are those expected of its operators.
LEMMA AnyTagged ==
    ASSUME NEW x \in AnyP!Inputs
    PROVE  <<"any", x>> \in DOMAIN Answers /\ Answers[<<"any", x>>] = AnyP!AnswersTo[x]
<1> DEFINE i == <<"any", x>>
<1>1. DOMAIN AnswersOf = {"any", "paths", "shortest", "unfixed"} /\ AnswersOf["any"] = AnyP!AnswersTo
    BY AnyExpected DEF AnswersOf
<1>2. DOMAIN AnyP!AnswersTo = AnyP!Inputs
    BY DEF AnyP!AnswersTo
<1>3. i \in {"any"} \X DOMAIN AnswersOf["any"] /\ i[1] = "any" /\ i[2] = x
    BY <1>1, <1>2
<1>4. i \in UNION {{f} \X DOMAIN AnswersOf[f] : f \in DOMAIN AnswersOf}
    BY <1>1, <1>3
<1> HIDE DEF i
<1> QED BY <1>1, <1>3, <1>4 DEF Answers, i

\* The promise of the operators for any path is that of PathSearch about their family.
LEMMA AnyPromiseNames ==
    AnyOne => /\ Promise!vars = <<<<"any", AnyP!input>>, AnyP!Reported, AnyP!Status>>
              /\ AnyP!input \in AnyP!Inputs
<1> SUFFICES ASSUME AnyOne
             PROVE  /\ Promise!vars = <<<<"any", AnyP!input>>, AnyP!Reported, AnyP!Status>>
                    /\ AnyP!input \in AnyP!Inputs
    OBVIOUS
<1>1. AnyP!input \in AnyP!Inputs
    BY AnyGraphAssumption, AnyAutomatonAssumption, AnyFiniteAssumption, AnyP!AnswersToInput DEF AnyOne
<1>2. AnyPath!Reported = AnyP!Reported /\ AnyPath!Status = AnyP!Status
    BY DEF AnyPath!Reported, AnyP!Reported, AnyPath!Status, AnyP!Status
<1> QED BY <1>1, <1>2 DEF AnyOne, Promise!vars, AnyP!input

LEMMA AnyPromiseInit == Init /\ family = "any" => Promise!Init
<1> SUFFICES ASSUME Init, family = "any" PROVE Promise!Init
    OBVIOUS
<1>1. AnyP!Promise!Init
    BY AnyGraphAssumption, AnyAutomatonAssumption, AnyFiniteAssumption, AnyInitIsInit, AnyP!PromiseInit
       DEF Init
<1>2. /\ Promise!vars = <<<<"any", AnyP!input>>, AnyP!Reported, AnyP!Status>>
      /\ AnyP!input \in AnyP!Inputs
    BY AnyOneInit, AnyPromiseNames
<1> QED BY <1>1, <1>2, AnyTagged DEF Promise!Init, Promise!vars, AnyP!Promise!Init

LEMMA AnyPromiseStep ==
    AnyOne /\ AnyOne' /\ ~AnyP!EndIsVar /\ [Next]_vars => [Promise!Next]_(Promise!vars)
<1> SUFFICES ASSUME AnyOne, AnyOne', ~AnyP!EndIsVar, [Next]_vars
             PROVE  Promise!Next \/ UNCHANGED Promise!vars
    OBVIOUS
<1>1. AnyP!Promise!Next \/ UNCHANGED AnyP!Promise!vars
    BY AnyOneNext, AnyGraphAssumption, AnyAutomatonAssumption, AnyFiniteAssumption, AnyP!PromiseNext
       DEF AnyOne
<1>2. /\ Promise!vars = <<<<"any", AnyP!input>>, AnyP!Reported, AnyP!Status>>
      /\ AnyP!input \in AnyP!Inputs
    BY AnyPromiseNames
<1>3. /\ Promise!vars' = <<<<"any", AnyP!input'>>, AnyP!Reported', AnyP!Status'>>
      /\ AnyP!input' \in AnyP!Inputs
  <2>1. (AnyOne => /\ Promise!vars = <<<<"any", AnyP!input>>, AnyP!Reported, AnyP!Status>>
                   /\ AnyP!input \in AnyP!Inputs)'
      BY AnyPromiseNames, PTL
  <2> QED BY <2>1
<1>4. /\ \A x \in AnyP!Inputs : <<"any", x>> \in DOMAIN Answers
      /\ Answers[<<"any", AnyP!input>>] = AnyP!AnswersTo[AnyP!input]
      /\ Answers[<<"any", AnyP!input'>>] = AnyP!AnswersTo[AnyP!input']
    BY <1>2, <1>3, AnyTagged
<1> HIDE DEF AnyOne
<1>5. CASE UNCHANGED AnyP!Promise!vars
    BY <1>2, <1>3, <1>5 DEF AnyP!Promise!vars
<1>6. CASE AnyP!Promise!Next
    BY <1>2, <1>3, <1>4, <1>6
       DEF Promise!vars, Promise!Next, Promise!Report, Promise!Finish, Promise!Abort, Promise!Restart,
           AnyP!Promise!Next, AnyP!Promise!Report, AnyP!Promise!Finish, AnyP!Promise!Abort,
           AnyP!Promise!Restart
<1> QED BY <1>1, <1>5, <1>6

-----------------------------------------------------------------------------
(* The operators for trails and simple paths.                              *)

PathP == INSTANCE PathOperatorsProofs WITH
    Classes <- PathKinds, NodeIds <- PathGraph.node_ids, Nodes <- PathGraph.nodes,
    Types <- PathGraph.types, Edges <- PathGraph.edges, States <- PathGraph.states,
    StartState <- PathGraph.start, FinalStates <- PathGraph.final, Connections <- PathGraph.connections

\* As for the operators for any path: the assumptions, the steps, the invariant
\* and what follows from it.
LEMMA PathGraphAssumption == PathP!GraphAssumption /\ PathP!UniqueEdges
BY GraphAssumption DEF Paths!UniqueEdges, PathP!UniqueEdges

LEMMA PathAutomatonAssumption == PathP!AutomatonAssumption /\ PathP!Deterministic
BY AutomatonAssumption
   DEF Paths!Transition, PathP!Transition, Paths!Deterministic, PathP!Deterministic

LEMMA PathFiniteAssumption == PathP!FiniteAssumption
BY FiniteAssumption DEF Paths!IsFiniteSet, PathP!IsFiniteSet

LEMMA PathInitIsInit == Paths!Init => PathP!Init
BY DEF Paths!Init, PathP!Init, Paths!Queue!Init, PathP!Queue!Init, Paths!Queue!EndsOf,
       PathP!Queue!EndsOf, Paths!Queue!NoEnd, PathP!Queue!NoEnd, Paths!Queue!FirstSearchState,
       PathP!Queue!FirstSearchState, Paths!Queue!First, PathP!Queue!First, Paths!Queue!NoEdge,
       PathP!Queue!NoEdge, Paths!Stack!Init, PathP!Stack!Init, Paths!Stack!EndsOf,
       PathP!Stack!EndsOf, Paths!Stack!NoEnd, PathP!Stack!NoEnd, Paths!Stack!Frame,
       PathP!Stack!Frame, Paths!Stack!NoEdge, PathP!Stack!NoEdge, Paths!StackClasses,
       PathP!StackClasses, Paths!AllTrails, PathP!AllTrails, Paths!AnyTrails, PathP!AnyTrails,
       Paths!AllSimple, PathP!AllSimple, Paths!AnySimple, PathP!AnySimple

LEMMA PathQueuePipeline == Paths!Queue!Pipeline => PathP!Queue!Pipeline
BY DEF Paths!Queue!Pipeline, PathP!Queue!Pipeline, Paths!Queue!StartMissing,
       PathP!Queue!StartMissing, Paths!Queue!Pop, PathP!Queue!Pop, Paths!Queue!Exhausted,
       PathP!Queue!Exhausted, Paths!Queue!ExpandFirst, PathP!Queue!ExpandFirst,
       Paths!Queue!Outgoing, PathP!Queue!Outgoing, Paths!Queue!OutgoingOf,
       PathP!Queue!OutgoingOf, Paths!Queue!Current, PathP!Queue!Current,
       Paths!Queue!GetIterator, PathP!Queue!GetIterator, Paths!Queue!LastNode,
       PathP!Queue!LastNode, Paths!Queue!ExpandResume, PathP!Queue!ExpandResume,
       Paths!Queue!NextTransition, PathP!Queue!NextTransition, Paths!Queue!MoreTransitions,
       PathP!Queue!MoreTransitions

LEMMA PathQueueTrailStep == Paths!Queue!TrailStep => PathP!Queue!TrailStep
BY DEF Paths!Queue!TrailStep, PathP!Queue!TrailStep, Paths!Queue!ReturnTrailStart,
       PathP!Queue!ReturnTrailStart, Paths!Queue!SelectsTrails, PathP!Queue!SelectsTrails,
       Paths!Queue!StartIsAnswer, PathP!Queue!StartIsAnswer, Paths!Queue!Check,
       PathP!Queue!Check, Paths!Queue!Return, PathP!Queue!Return, Paths!Queue!First,
       PathP!Queue!First, Paths!Queue!NoEdge, PathP!Queue!NoEdge, Paths!Queue!All,
       PathP!Queue!All, Paths!Queue!AllStart, PathP!Queue!AllStart, Paths!Queue!EnumStart,
       PathP!Queue!EnumStart, Paths!Queue!Reached, PathP!Queue!Reached, Paths!Queue!LastNode,
       PathP!Queue!LastNode, Paths!Queue!Distance, PathP!Queue!Distance,
       Paths!Queue!CheckStart, PathP!Queue!CheckStart, Paths!Queue!Clear, PathP!Queue!Clear,
       Paths!Queue!EnterLoop, PathP!Queue!EnterLoop, Paths!Queue!VisitTrail,
       PathP!Queue!VisitTrail, Paths!Queue!NextSearchState, PathP!Queue!NextSearchState,
       Paths!Queue!Extend, PathP!Queue!Extend, Paths!Queue!Current, PathP!Queue!Current,
       Paths!Queue!Outgoing, PathP!Queue!Outgoing, Paths!Queue!OutgoingOf,
       PathP!Queue!OutgoingOf, Paths!Queue!ExtendsTrail, PathP!Queue!ExtendsTrail,
       Paths!Queue!is_trail, PathP!Queue!is_trail, Paths!Queue!ShortestCheckSkips,
       PathP!Queue!ShortestCheckSkips, Paths!Queue!Shortest, PathP!Queue!Shortest,
       Paths!Queue!Final, PathP!Queue!Final, Paths!Queue!IsOptimal, PathP!Queue!IsOptimal,
       Paths!Queue!VisitedAdd, PathP!Queue!VisitedAdd, Paths!Queue!IsAnswer,
       PathP!Queue!IsAnswer, Paths!Queue!AllEnumAnswer, PathP!Queue!AllEnumAnswer,
       Paths!Queue!AllCheckAnswer, PathP!Queue!AllCheckAnswer, Paths!Queue!Any,
       PathP!Queue!Any, Paths!Queue!AnyEnumAnswer, PathP!Queue!AnyEnumAnswer,
       Paths!Queue!AnyCheckAnswer, PathP!Queue!AnyCheckAnswer,
       Paths!Queue!ShortestEnumAnswer, PathP!Queue!ShortestEnumAnswer,
       Paths!Queue!ShortestCheckAnswer, PathP!Queue!ShortestCheckAnswer,
       Paths!Queue!TakeTrail, PathP!Queue!TakeTrail, Paths!Queue!Enqueue,
       PathP!Queue!Enqueue, Paths!Queue!GoOn, PathP!Queue!GoOn, Paths!Queue!StopsGrowing,
       PathP!Queue!StopsGrowing

LEMMA PathQueueSimpleStep == Paths!Queue!SimpleStep => PathP!Queue!SimpleStep
BY DEF Paths!Queue!SimpleStep, PathP!Queue!SimpleStep, Paths!Queue!ReturnSimpleStart,
       PathP!Queue!ReturnSimpleStart, Paths!Queue!SelectsSimple, PathP!Queue!SelectsSimple,
       Paths!Queue!StartIsAnswer, PathP!Queue!StartIsAnswer, Paths!Queue!Check,
       PathP!Queue!Check, Paths!Queue!Return, PathP!Queue!Return, Paths!Queue!First,
       PathP!Queue!First, Paths!Queue!NoEdge, PathP!Queue!NoEdge, Paths!Queue!All,
       PathP!Queue!All, Paths!Queue!AllEnumStart, PathP!Queue!AllEnumStart,
       Paths!Queue!AllCheckStart, PathP!Queue!AllCheckStart, Paths!Queue!Cyclic,
       PathP!Queue!Cyclic, Paths!Queue!Clear, PathP!Queue!Clear, Paths!Queue!EnumStart,
       PathP!Queue!EnumStart, Paths!Queue!Reached, PathP!Queue!Reached, Paths!Queue!LastNode,
       PathP!Queue!LastNode, Paths!Queue!Distance, PathP!Queue!Distance,
       Paths!Queue!CheckStart, PathP!Queue!CheckStart, Paths!Queue!NoAnswerAtEnd,
       PathP!Queue!NoAnswerAtEnd, Paths!Queue!StartIsEnd, PathP!Queue!StartIsEnd,
       Paths!Queue!VisitSimple, PathP!Queue!VisitSimple, Paths!Queue!NextSearchState,
       PathP!Queue!NextSearchState, Paths!Queue!Extend, PathP!Queue!Extend,
       Paths!Queue!Current, PathP!Queue!Current, Paths!Queue!Outgoing, PathP!Queue!Outgoing,
       Paths!Queue!OutgoingOf, PathP!Queue!OutgoingOf, Paths!Queue!is_simple_path,
       PathP!Queue!is_simple_path, Paths!Queue!ClosesCycle, PathP!Queue!ClosesCycle,
       Paths!Queue!Final, PathP!Queue!Final, Paths!Queue!AllEnumCloses,
       PathP!Queue!AllEnumCloses, Paths!Queue!Shortest, PathP!Queue!Shortest,
       Paths!Queue!CheckCloses, PathP!Queue!CheckCloses, Paths!Queue!Any, PathP!Queue!Any,
       Paths!Queue!AnyEnumCloses, PathP!Queue!AnyEnumCloses, Paths!Queue!ShortestEnumCloses,
       PathP!Queue!ShortestEnumCloses, Paths!Queue!IsOptimal, PathP!Queue!IsOptimal,
       Paths!Queue!ShortestCheckCloses, PathP!Queue!ShortestCheckCloses,
       Paths!Queue!VisitedAdd, PathP!Queue!VisitedAdd, Paths!Queue!TakeSimple,
       PathP!Queue!TakeSimple, Paths!Queue!KeepQueue, PathP!Queue!KeepQueue,
       Paths!Queue!CheckAnswer, PathP!Queue!CheckAnswer, Paths!Queue!ReachesEnd,
       PathP!Queue!ReachesEnd, Paths!Queue!StopsGrowing, PathP!Queue!StopsGrowing,
       Paths!Queue!Enqueue, PathP!Queue!Enqueue, Paths!Queue!EnumAnswer,
       PathP!Queue!EnumAnswer, Paths!Queue!AllEnumAnswer, PathP!Queue!AllEnumAnswer,
       Paths!Queue!AnyEnumAnswer, PathP!Queue!AnyEnumAnswer, Paths!Queue!ShortestEnumAnswer,
       PathP!Queue!ShortestEnumAnswer, Paths!Queue!EnterLoop, PathP!Queue!EnterLoop

LEMMA PathStackPipeline == Paths!Stack!Pipeline => PathP!Stack!Pipeline
BY DEF Paths!Stack!Pipeline, PathP!Stack!Pipeline, Paths!Stack!StartMissing,
       PathP!Stack!StartMissing, Paths!Stack!Pop, PathP!Stack!Pop, Paths!Stack!ReturnStart,
       PathP!Stack!ReturnStart, Paths!Stack!IsAnswer, PathP!Stack!IsAnswer, Paths!Stack!Any,
       PathP!Stack!Any, Paths!Stack!Check, PathP!Stack!Check, Paths!Stack!AllEnumAnswer,
       PathP!Stack!AllEnumAnswer, Paths!Stack!Final, PathP!Stack!Final,
       Paths!Stack!AllCheckAnswer, PathP!Stack!AllCheckAnswer, Paths!Stack!AnyEnumAnswer,
       PathP!Stack!AnyEnumAnswer, Paths!Stack!AnyCheckAnswer, PathP!Stack!AnyCheckAnswer,
       Paths!Stack!Top, PathP!Stack!Top, Paths!Stack!Remember, PathP!Stack!Remember,
       Paths!Stack!Return, PathP!Stack!Return, Paths!Stack!PathOf, PathP!Stack!PathOf,
       Paths!Stack!Exhausted, PathP!Stack!Exhausted, Paths!Stack!NextTransition,
       PathP!Stack!NextTransition, Paths!Stack!MoreTransitions, PathP!Stack!MoreTransitions,
       Paths!Stack!SetIter, PathP!Stack!SetIter, Paths!Stack!GetIterator,
       PathP!Stack!GetIterator

LEMMA PathStackTrailStep == Paths!Stack!TrailStep => PathP!Stack!TrailStep
BY DEF Paths!Stack!TrailStep, PathP!Stack!TrailStep, Paths!Stack!StopAfterAnswer,
       PathP!Stack!StopAfterAnswer, Paths!Stack!SelectsTrails, PathP!Stack!SelectsTrails,
       Paths!Stack!AnswerOnTop, PathP!Stack!AnswerOnTop, Paths!Stack!Any, PathP!Stack!Any,
       Paths!Stack!Check, PathP!Stack!Check, Paths!Stack!Top, PathP!Stack!Top,
       Paths!Stack!Clear, PathP!Stack!Clear, Paths!Stack!VisitTrail, PathP!Stack!VisitTrail,
       Paths!Stack!FrameOf, PathP!Stack!FrameOf, Paths!Stack!Frame, PathP!Stack!Frame,
       Paths!Stack!TopTransition, PathP!Stack!TopTransition, Paths!Stack!ExtendsTrail,
       PathP!Stack!ExtendsTrail, Paths!Stack!is_trail, PathP!Stack!is_trail,
       Paths!Stack!PathOf, PathP!Stack!PathOf, Paths!Stack!Consumed, PathP!Stack!Consumed,
       Paths!Stack!IsAnswer, PathP!Stack!IsAnswer, Paths!Stack!AllEnumAnswer,
       PathP!Stack!AllEnumAnswer, Paths!Stack!Final, PathP!Stack!Final,
       Paths!Stack!AllCheckAnswer, PathP!Stack!AllCheckAnswer, Paths!Stack!AnyEnumAnswer,
       PathP!Stack!AnyEnumAnswer, Paths!Stack!AnyCheckAnswer, PathP!Stack!AnyCheckAnswer,
       Paths!Stack!Remember, PathP!Stack!Remember, Paths!Stack!Return, PathP!Stack!Return,
       Paths!Stack!EnterLoop, PathP!Stack!EnterLoop, Paths!Stack!ExpandFirst,
       PathP!Stack!ExpandFirst, Paths!Stack!Pop, PathP!Stack!Pop, Paths!Stack!SetIter,
       PathP!Stack!SetIter, Paths!Stack!GetIterator, PathP!Stack!GetIterator,
       Paths!Stack!ExpandResume, PathP!Stack!ExpandResume

LEMMA PathStackSimpleStep == Paths!Stack!SimpleStep => PathP!Stack!SimpleStep
BY DEF Paths!Stack!SimpleStep, PathP!Stack!SimpleStep, Paths!Stack!NoAnswerAtEnd,
       PathP!Stack!NoAnswerAtEnd, Paths!Stack!SelectsSimple, PathP!Stack!SelectsSimple,
       Paths!Stack!IsAnswer, PathP!Stack!IsAnswer, Paths!Stack!Any, PathP!Stack!Any,
       Paths!Stack!Check, PathP!Stack!Check, Paths!Stack!AllEnumAnswer,
       PathP!Stack!AllEnumAnswer, Paths!Stack!Final, PathP!Stack!Final,
       Paths!Stack!AllCheckAnswer, PathP!Stack!AllCheckAnswer, Paths!Stack!AnyEnumAnswer,
       PathP!Stack!AnyEnumAnswer, Paths!Stack!AnyCheckAnswer, PathP!Stack!AnyCheckAnswer,
       Paths!Stack!Top, PathP!Stack!Top, Paths!Stack!StartIsEnd, PathP!Stack!StartIsEnd,
       Paths!Stack!Cyclic, PathP!Stack!Cyclic, Paths!Stack!Clear, PathP!Stack!Clear,
       Paths!Stack!DropCycle, PathP!Stack!DropCycle, Paths!Stack!CycleOnTop,
       PathP!Stack!CycleOnTop, Paths!Stack!Pop, PathP!Stack!Pop, Paths!Stack!StopAtEnd,
       PathP!Stack!StopAtEnd, Paths!Stack!EndOnTop, PathP!Stack!EndOnTop,
       Paths!Stack!AnyCheckStops, PathP!Stack!AnyCheckStops, Paths!Stack!AllCheckStops,
       PathP!Stack!AllCheckStops, Paths!Stack!VisitSimple, PathP!Stack!VisitSimple,
       Paths!Stack!FrameOf, PathP!Stack!FrameOf, Paths!Stack!Frame, PathP!Stack!Frame,
       Paths!Stack!TopTransition, PathP!Stack!TopTransition, Paths!Stack!IsSimple,
       PathP!Stack!IsSimple, Paths!Stack!is_simple_path, PathP!Stack!is_simple_path,
       Paths!Stack!PathOf, PathP!Stack!PathOf, Paths!Stack!Reach, PathP!Stack!Reach,
       Paths!Stack!Consumed, PathP!Stack!Consumed, Paths!Stack!Remember,
       PathP!Stack!Remember, Paths!Stack!Return, PathP!Stack!Return, Paths!Stack!ClosesCycle,
       PathP!Stack!ClosesCycle, Paths!Stack!AllEnumCloses, PathP!Stack!AllEnumCloses,
       Paths!Stack!AllCheckCloses, PathP!Stack!AllCheckCloses, Paths!Stack!AnyEnumCloses,
       PathP!Stack!AnyEnumCloses, Paths!Stack!AnyCheckCloses, PathP!Stack!AnyCheckCloses,
       Paths!Stack!ClosingFrame, PathP!Stack!ClosingFrame, Paths!Stack!EnterLoop,
       PathP!Stack!EnterLoop, Paths!Stack!ExpandFirst, PathP!Stack!ExpandFirst,
       Paths!Stack!SetIter, PathP!Stack!SetIter, Paths!Stack!GetIterator,
       PathP!Stack!GetIterator, Paths!Stack!NotExpanded, PathP!Stack!NotExpanded,
       Paths!Stack!ExpandResume, PathP!Stack!ExpandResume

LEMMA PathNextIsNext == Paths!Next => PathP!Next
BY PathQueuePipeline, PathQueueTrailStep, PathQueueSimpleStep, PathStackPipeline,
   PathStackTrailStep, PathStackSimpleStep
   DEF Paths!Next, PathP!Next, Paths!Search, PathP!Search, Paths!BreadthFirst,
       PathP!BreadthFirst, Paths!DepthFirst, PathP!DepthFirst, Paths!queue_vars,
       PathP!queue_vars, Paths!Queue!Interrupt, PathP!Queue!Interrupt, Paths!Stack!Interrupt,
       PathP!Stack!Interrupt, Paths!EndsOf, PathP!EndsOf, Paths!NoEnd, PathP!NoEnd,
       Paths!Queue!Reset, PathP!Queue!Reset, Paths!Queue!StartAt, PathP!Queue!StartAt,
       Paths!Queue!VisitedAdd, PathP!Queue!VisitedAdd, Paths!Queue!FirstSearchState,
       PathP!Queue!FirstSearchState, Paths!Queue!First, PathP!Queue!First,
       Paths!Queue!NoEdge, PathP!Queue!NoEdge, Paths!Stack!Reset, PathP!Stack!Reset,
       Paths!Stack!Frame, PathP!Stack!Frame, Paths!Stack!NoEdge, PathP!Stack!NoEdge

PathInv == family = "paths" => PathP!Inv /\ PathP!OnceInv

LEMMA PathInvInit == Init => PathInv
BY PathGraphAssumption, PathAutomatonAssumption, PathFiniteAssumption, PathInitIsInit, PathP!InvInit,
   PathP!OnceInvInit
   DEF Init, PathInv

LEMMA PathInvStep == PathInv /\ [Next]_vars => PathInv'
<1> SUFFICES ASSUME PathInv, [Next]_vars, family' = "paths" PROVE PathP!Inv' /\ PathP!OnceInv'
    BY DEF PathInv
<1> USE PathGraphAssumption, PathAutomatonAssumption, PathFiniteAssumption
<1>1. CASE OfPaths(Paths!Next)
    BY <1>1, PathNextIsNext, PathP!InvStep, PathP!OnceInvStep DEF OfPaths, PathInv
<1>2. CASE UNCHANGED vars
  <2>1. UNCHANGED PathP!inv_vars /\ UNCHANGED PathP!once_vars /\ PathP!Inv /\ PathP!OnceInv
      BY <1>2 DEF vars, path_vars, PathP!inv_vars, PathP!once_vars, PathInv
  <2> QED BY <2>1, PathP!InvStep, PathP!OnceInvStep
<1>3. CASE OfAny(AnyPath!AnyNext) \/ OfShortest(Shortest!Next) \/ OfUnfixed(Unfixed!Next)
    BY <1>3 DEF OfAny, OfShortest, OfUnfixed
<1> QED BY <1>1, <1>2, <1>3 DEF Next

LEMMA PathInvariant == Init /\ [][Next]_vars => []PathInv
BY PathInvInit, PathInvStep, PTL

LEMMA PathStack == PathInv /\ family = "paths" => Paths!StackIsPath
<1> SUFFICES ASSUME PathInv, family = "paths" PROVE Paths!StackIsPath
    OBVIOUS
<1>1. PathP!StackIsPath
    BY PathGraphAssumption, PathAutomatonAssumption, PathFiniteAssumption, PathP!InvIsPath DEF PathInv
<1> QED
    BY <1>1 DEF Paths!StackIsPath, PathP!StackIsPath, Paths!GetIterator, PathP!GetIterator,
           Paths!Stack!PathOf, PathP!Stack!PathOf, Paths!IsTrail, PathP!IsTrail, Paths!IsAcyclic,
           PathP!IsAcyclic, Paths!IsCycle, PathP!IsCycle, Paths!LastNode, PathP!LastNode

LEMMA PathQueue == PathInv => QueueOrdered
<1> SUFFICES ASSUME PathInv, family = "paths" PROVE Paths!QueueOrdered /\ Paths!QueueGrows
    BY DEF QueueOrdered
<1>1. PathP!QueueOrdered /\ PathP!QueueGrows
    BY PathGraphAssumption, PathAutomatonAssumption, PathFiniteAssumption,
       PathP!InvOrdered, PathP!InvGrows DEF PathInv
<1> QED
    BY <1>1 DEF Paths!QueueOrdered, PathP!QueueOrdered, Paths!QueueGrows, PathP!QueueGrows,
           Paths!IsTrail, PathP!IsTrail, Paths!IsAcyclic, PathP!IsAcyclic, Paths!LastNode,
           PathP!LastNode

LEMMA PathOnce == PathInv /\ family = "paths" => NoneTwice
<1> SUFFICES ASSUME PathInv, family = "paths" PROVE Paths!NoneTwice
    BY DEF NoneTwice
<1>1. PathP!NoneTwice
    BY PathGraphAssumption, PathAutomatonAssumption, PathFiniteAssumption, PathP!OnceNoneTwice
       DEF PathInv
<1> QED
    BY <1>1 DEF Paths!NoneTwice, PathP!NoneTwice, Paths!AnswerOf, PathP!AnswerOf, Paths!LastNode,
           PathP!LastNode

\* What PathOperatorsProofs proves of the answers.
LEMMA PathClassAssumption == PathKinds \subseteq PathP!QueueClasses
BY ClassAssumption
   DEF Paths!QueueClasses, PathP!QueueClasses, Paths!StackClasses, PathP!StackClasses,
       Paths!AllTrails, PathP!AllTrails, Paths!AnyTrails, PathP!AnyTrails,
       Paths!AllShortestTrails, PathP!AllShortestTrails, Paths!AllSimple, PathP!AllSimple,
       Paths!AnySimple, PathP!AnySimple, Paths!AllShortestSimple, PathP!AllShortestSimple

PathAll == family = "paths" /\ PathP!Inv /\ PathP!OnceInv /\ PathP!AllInv

LEMMA PathAllInit == Init /\ family = "paths" => PathAll
BY PathGraphAssumption, PathAutomatonAssumption, PathFiniteAssumption, PathInitIsInit, PathP!InvInit,
   PathP!OnceInvInit, PathP!AllInvInit
   DEF Init, PathAll

LEMMA PathAllNext ==
    PathAll /\ [Next]_vars =>
        /\ family' = "paths" /\ PathP!Inv' /\ PathP!OnceInv'
        /\ PathP!Next \/ UNCHANGED PathP!once_vars
<1> SUFFICES ASSUME PathAll, [Next]_vars
             PROVE  /\ family' = "paths" /\ PathP!Inv' /\ PathP!OnceInv'
                    /\ PathP!Next \/ UNCHANGED PathP!once_vars
    OBVIOUS
<1>1. family' = "paths" /\ (PathP!Next \/ UNCHANGED PathP!once_vars)
  <2>1. CASE OfPaths(Paths!Next)
      BY <2>1, PathNextIsNext DEF OfPaths
  <2>2. CASE UNCHANGED vars
      BY <2>2 DEF vars, path_vars, PathP!inv_vars, PathP!once_vars, PathAll
  <2>3. ~OfAny(AnyPath!AnyNext) /\ ~OfShortest(Shortest!Next) /\ ~OfUnfixed(Unfixed!Next)
      BY DEF OfAny, OfShortest, OfUnfixed, PathAll
  <2> QED BY <2>1, <2>2, <2>3 DEF Next
<1>2. PathInv' /\ family' = "paths"
    BY <1>1, PathInvStep DEF PathInv, PathAll
<1> QED BY <1>1, <1>2 DEF PathInv

LEMMA PathAllStep == PathAll /\ [Next]_vars => PathAll'
<1> SUFFICES ASSUME PathAll, [Next]_vars PROVE PathAll'
    OBVIOUS
<1>1. /\ family' = "paths" /\ PathP!Inv' /\ PathP!OnceInv'
      /\ PathP!Next \/ UNCHANGED PathP!once_vars
    BY PathAllNext
<1>2. PathP!AllInv'
    BY <1>1, PathGraphAssumption, PathAutomatonAssumption, PathFiniteAssumption, PathClassAssumption,
       PathP!AllInvStep, PathP!AllInvStutter
       DEF PathAll
<1> QED BY <1>1, <1>2 DEF PathAll

LEMMA PathExpected == Paths!Expected = PathP!Expected
BY DEF Paths!Expected, PathP!Expected, Paths!Inputs, PathP!Inputs, Paths!EndsOf, PathP!EndsOf,
       Paths!NoEnd, PathP!NoEnd, Paths!AnswerOf, PathP!AnswerOf, Paths!ShortestOf, PathP!ShortestOf,
       Paths!TrailPaths, PathP!TrailPaths, Paths!SimplePaths, PathP!SimplePaths, Paths!WalksUpTo,
       PathP!WalksUpTo, Paths!IsTrail, PathP!IsTrail, Paths!IsAcyclic, PathP!IsAcyclic,
       Paths!IsCycle, PathP!IsCycle, Paths!Cardinality, PathP!Cardinality, Paths!FirstSearchState,
       PathP!FirstSearchState, Paths!First, PathP!First, Paths!NoEdge, PathP!NoEdge,
       Paths!Continuations, PathP!Continuations, Paths!NextSearchState, PathP!NextSearchState,
       Paths!Extend, PathP!Extend, Paths!GetIterator, PathP!GetIterator, Paths!OutgoingOf,
       PathP!OutgoingOf, Paths!LastNode, PathP!LastNode

LEMMA PathTagged ==
    ASSUME NEW x \in PathP!Inputs
    PROVE  <<"paths", x>> \in DOMAIN Answers /\ Answers[<<"paths", x>>] = PathP!Expected[x]
<1> DEFINE i == <<"paths", x>>
<1>1. DOMAIN AnswersOf = {"any", "paths", "shortest", "unfixed"} /\ AnswersOf["paths"] = PathP!Expected
    BY PathExpected DEF AnswersOf
<1>2. DOMAIN PathP!Expected = PathP!Inputs
    BY DEF PathP!Expected
<1>3. i \in {"paths"} \X DOMAIN AnswersOf["paths"] /\ i[1] = "paths" /\ i[2] = x
    BY <1>1, <1>2
<1>4. i \in UNION {{f} \X DOMAIN AnswersOf[f] : f \in DOMAIN AnswersOf}
    BY <1>1, <1>3
<1> HIDE DEF i
<1> QED BY <1>1, <1>3, <1>4 DEF Answers, i

\* The promise of the operators for trails and simple paths is that of PathSearch
\* about their family.
LEMMA PathPromiseNames ==
    PathAll => /\ Promise!vars = <<<<"paths", <<class, start, end>>>>, PathP!Handed, PathP!Status>>
               /\ <<class, start, end>> \in PathP!Inputs
<1> SUFFICES ASSUME PathAll
             PROVE  /\ Promise!vars = <<<<"paths", <<class, start, end>>>>, PathP!Handed, PathP!Status>>
                    /\ <<class, start, end>> \in PathP!Inputs
    OBVIOUS
<1>1. <<class, start, end>> \in PathP!Inputs
    BY DEF PathAll, PathP!AllInv
<1>2. Paths!Handed = PathP!Handed /\ Paths!Status = PathP!Status
    BY DEF Paths!Handed, PathP!Handed, Paths!Status, PathP!Status, Paths!MayGiveUp, PathP!MayGiveUp,
           Paths!AnswerOf, PathP!AnswerOf, Paths!LastNode, PathP!LastNode
<1> QED BY <1>1, <1>2 DEF PathAll, Promise!vars

LEMMA PathPromiseInit == Init /\ family = "paths" => Promise!Init
<1> SUFFICES ASSUME Init, family = "paths" PROVE Promise!Init
    OBVIOUS
<1>1. PathP!Promise!Init
    BY PathGraphAssumption, PathAutomatonAssumption, PathFiniteAssumption, PathInitIsInit,
       PathP!PromiseInit
       DEF Init
<1>2. /\ Promise!vars = <<<<"paths", <<class, start, end>>>>, PathP!Handed, PathP!Status>>
      /\ <<class, start, end>> \in PathP!Inputs
    BY PathAllInit, PathPromiseNames
<1> QED BY <1>1, <1>2, PathTagged DEF Promise!Init, Promise!vars, PathP!Promise!Init

LEMMA PathPromiseStep == PathAll /\ PathAll' /\ [Next]_vars => [Promise!Next]_(Promise!vars)
<1> SUFFICES ASSUME PathAll, PathAll', [Next]_vars
             PROVE  Promise!Next \/ UNCHANGED Promise!vars
    OBVIOUS
<1> DEFINE input == <<class, start, end>>
<1>1. PathP!Promise!Next \/ UNCHANGED PathP!Promise!vars
    BY PathAllNext, PathGraphAssumption, PathAutomatonAssumption, PathFiniteAssumption,
       PathClassAssumption, PathP!PromiseStep, PathP!PromiseStutter
       DEF PathAll
<1>2. /\ Promise!vars = <<<<"paths", input>>, PathP!Handed, PathP!Status>>
      /\ input \in PathP!Inputs
    BY PathPromiseNames
<1>3. /\ Promise!vars' = <<<<"paths", input'>>, PathP!Handed', PathP!Status'>>
      /\ input' \in PathP!Inputs
  <2>1. (PathAll =>
            /\ Promise!vars = <<<<"paths", <<class, start, end>>>>, PathP!Handed, PathP!Status>>
            /\ <<class, start, end>> \in PathP!Inputs)'
      BY PathPromiseNames, PTL
  <2> QED BY <2>1
<1>4. /\ \A x \in PathP!Inputs : <<"paths", x>> \in DOMAIN Answers
      /\ Answers[<<"paths", input>>] = PathP!Expected[input]
      /\ Answers[<<"paths", input'>>] = PathP!Expected[input']
    BY <1>2, <1>3, PathTagged
<1>5. PathP!Promise!vars = <<input, PathP!Handed, PathP!Status>>
    BY DEF PathP!Promise!vars
<1>6. PathP!Promise!vars' = <<input', PathP!Handed', PathP!Status'>>
    BY DEF PathP!Promise!vars
<1> HIDE DEF PathAll
<1>7. CASE UNCHANGED PathP!Promise!vars
    BY <1>2, <1>3, <1>5, <1>6, <1>7
<1>8. CASE PathP!Promise!Next
    BY <1>2, <1>3, <1>4, <1>8
       DEF Promise!vars, Promise!Next, Promise!Report, Promise!Finish, Promise!Abort, Promise!Restart,
           PathP!Promise!Next, PathP!Promise!Report, PathP!Promise!Finish, PathP!Promise!Abort,
           PathP!Promise!Restart
<1> QED BY <1>1, <1>7, <1>8

-----------------------------------------------------------------------------
(* The operator that knows neither end.                                    *)

\* Every answer from n was handed out.
UnfixedAll(n) == \A a \in UnfixedAnswers[n] : <<n, a>> \in Unfixed!Handed

\* The first nodes of the transitions up to the current one were start nodes,
\* but for those still in the iterator.
UnfixedStarts ==
    /\ \A k \in DOMAIN Unfixed!Outgoing :
           /\ k < current_transition => Unfixed!FromOf(Unfixed!Outgoing[k]) \subseteq visited
           /\ k = current_transition =>
                  Unfixed!FromOf(Unfixed!Outgoing[k]) \subseteq visited \cup iter
    /\ current_transition > Len(Unfixed!Outgoing) => iter = {}

\* The start nodes come one after the other: of all but the last every answer was
\* handed out, of the last those path_enum handed out.
UnfixedCurrent ==
    /\ Unfixed!FromOf(Unfixed!Outgoing[1]) # {}
    /\ start \in visited
    /\ \A a : a \in reached_final <=> <<start, a>> \in Unfixed!Handed
    /\ pc = "starts" \/ current_transition > Len(Unfixed!Outgoing) => UnfixedAll(start)
    /\ \A n \in visited \ {start} : UnfixedAll(n)

UnfixedInv ==
    /\ family = "unfixed"
    /\ pc \in {"ready", "done", "loop", "starts", "undefined", "interrupted"}
    /\ path_enum \in {"none", "made"}
    /\ current_transition \in 1 .. Len(Unfixed!Outgoing) + 1
    /\ visited \subseteq UnfixedGraph.nodes /\ iter \subseteq UnfixedGraph.nodes
    /\ results \in Seq(UnfixedGraph.nodes \X UnfixedGraph.nodes)
    /\ \A pair \in Unfixed!Handed : pair[1] \in visited /\ pair[2] \in UnfixedAnswers[pair[1]]
    /\ Unfixed!NoneTwice
    /\ pc # "undefined" /\ path_enum = "none" => visited = {} /\ pc # "loop"
    /\ pc # "undefined" /\ path_enum = "made" => UnfixedCurrent
    /\ pc # "undefined" => UnfixedStarts

LEMMA UnfixedTypes ==
    /\ Unfixed!Outgoing \in Seq(Unfixed!Transition) /\ Len(Unfixed!Outgoing) \in Nat \ {0}
    /\ \A t : Unfixed!FromOf(t) \subseteq UnfixedGraph.nodes
    /\ \A n \in UnfixedGraph.nodes : UnfixedAnswers[n] \subseteq UnfixedGraph.nodes
<1>1. Unfixed!Outgoing \in Seq(Unfixed!Transition) /\ Unfixed!Outgoing # <<>>
    BY AutomatonAssumption, UnfixedAssumption DEF Unfixed!AutomatonAssumption, Unfixed!Outgoing
<1>2. Len(Unfixed!Outgoing) \in Nat \ {0}
    BY <1>1
<1>3. \A t : Unfixed!FromOf(t) \subseteq UnfixedGraph.nodes
    BY GraphAssumption DEF Unfixed!GraphAssumption, Unfixed!FromOf
<1>4. ASSUME NEW n \in UnfixedGraph.nodes PROVE UnfixedAnswers[n] \subseteq UnfixedGraph.nodes
  <2>1. UnfixedAnswers[n] = {p[2] : p \in {x \in Origins!Reachable[n] : Origins!IsFinal(x)}}
      BY <1>4, GraphAssumption DEF UnfixedAnswers, Origins!Answers, Unfixed!GraphAssumption
  <2>2. Origins!Reachable[n] \subseteq UnfixedGraph.states \X UnfixedGraph.nodes
      BY <1>4 DEF Origins!Reachable, Origins!Product
  <2> QED BY <2>1, <2>2
<1> QED BY <1>1, <1>2, <1>3, <1>4

LEMMA UnfixedInit == Init /\ family = "unfixed" => UnfixedInv
<1> SUFFICES ASSUME Unfixed!Init, family = "unfixed" PROVE UnfixedInv
    BY DEF Init
<1>1. Unfixed!Handed = {} /\ Unfixed!NoneTwice /\ results \in Seq(UnfixedGraph.nodes \X UnfixedGraph.nodes)
    BY DEF Unfixed!Init, Unfixed!Handed, Unfixed!NoneTwice
<1>2. UnfixedStarts
    BY UnfixedTypes DEF Unfixed!Init, UnfixedStarts
<1>3. path_enum = "made" => UnfixedCurrent
    BY <1>1, UnfixedTypes DEF Unfixed!Init, UnfixedCurrent
<1> QED BY <1>1, <1>2, <1>3, UnfixedTypes DEF Unfixed!Init, UnfixedInv

\* Found hands out one pair more, which was not handed out.
LEMMA UnfixedFound ==
    ASSUME UnfixedInv, Unfixed!Found
    PROVE  \E n \in UnfixedAnswers[start] \ reached_final :
               /\ reached_final' = reached_final \cup {n}
               /\ <<start, n>> \notin Unfixed!Handed
               /\ Unfixed!Handed' = Unfixed!Handed \cup {<<start, n>>}
               /\ Unfixed!NoneTwice'
               /\ results' \in Seq(UnfixedGraph.nodes \X UnfixedGraph.nodes)
<1>1. path_enum = "made" /\ UnfixedCurrent /\ start \in UnfixedGraph.nodes
    BY DEF UnfixedInv, UnfixedCurrent, Unfixed!Found
<1>2. PICK n \in UnfixedAnswers[start] \ reached_final :
          reached_final' = reached_final \cup {n} /\ results' = Append(results, <<start, n>>)
    BY DEF Unfixed!Found
<1>3. <<start, n>> \notin Unfixed!Handed
    BY <1>1, <1>2 DEF UnfixedCurrent
<1>4. results \in Seq(UnfixedGraph.nodes \X UnfixedGraph.nodes) /\ <<start, n>> \in UnfixedGraph.nodes \X UnfixedGraph.nodes
    BY <1>1, UnfixedTypes DEF UnfixedInv
<1>5. /\ DOMAIN results = 1 .. Len(results) /\ DOMAIN results' = 1 .. Len(results) + 1 /\ Len(results) \in Nat
      /\ \A i \in 1 .. Len(results) : results'[i] = results[i]
      /\ results'[Len(results) + 1] = <<start, n>>
    BY <1>2, <1>4
<1>6. Unfixed!Handed' = Unfixed!Handed \cup {<<start, n>>}
  <2> DEFINE k == Len(results)
  <2>1. Unfixed!Handed' = {results'[i] : i \in 1 .. k + 1} /\ Unfixed!Handed = {results[i] : i \in 1 .. k}
      BY <1>5 DEF Unfixed!Handed
  <2>2. 1 .. k + 1 = (1 .. k) \cup {k + 1}
      BY <1>5
  <2>3. {results'[i] : i \in 1 .. k} = {results[i] : i \in 1 .. k}
      BY <1>5
  <2> HIDE DEF k
  <2>4. {results'[i] : i \in (1 .. k) \cup {k + 1}} = {results'[i] : i \in 1 .. k} \cup {results'[k + 1]}
      OBVIOUS
  <2> QED BY <1>5, <2>1, <2>2, <2>3, <2>4 DEF k
<1>7. Unfixed!NoneTwice'
    BY <1>3, <1>5 DEF UnfixedInv, Unfixed!NoneTwice, Unfixed!Handed
<1> QED BY <1>2, <1>3, <1>4, <1>6, <1>7

LEMMA UnfixedStep == UnfixedInv /\ Unfixed!Next /\ UNCHANGED family => UnfixedInv'
<1> SUFFICES ASSUME UnfixedInv, Unfixed!Next, UNCHANGED family PROVE UnfixedInv'
    OBVIOUS
<1> USE UnfixedTypes
<1>1. CASE Unfixed!Call
  <2>1. UNCHANGED <<Unfixed!Handed, Unfixed!NoneTwice>>
      BY <1>1 DEF Unfixed!Call, Unfixed!Handed, Unfixed!NoneTwice
  <2>2. path_enum = "none" => UnfixedStarts'
      BY <1>1 DEF UnfixedInv, UnfixedStarts, Unfixed!Call
  <2>3. path_enum = "made" => UnfixedCurrent' /\ UnfixedStarts'
      BY <1>1, <2>1 DEF UnfixedInv, UnfixedStarts, UnfixedCurrent, UnfixedAll, Unfixed!Call
  <2> QED BY <1>1, <2>1, <2>2, <2>3 DEF UnfixedInv, Unfixed!Call
<1>2. CASE Unfixed!Found
  <2>1. PICK n \in UnfixedAnswers[start] \ reached_final :
            /\ reached_final' = reached_final \cup {n}
            /\ <<start, n>> \notin Unfixed!Handed
            /\ Unfixed!Handed' = Unfixed!Handed \cup {<<start, n>>}
            /\ Unfixed!NoneTwice'
            /\ results' \in Seq(UnfixedGraph.nodes \X UnfixedGraph.nodes)
      BY <1>2, UnfixedFound
  <2>2. path_enum = "made" /\ UnfixedCurrent /\ UnfixedStarts
      BY <1>2 DEF UnfixedInv, Unfixed!Found
  <2>3. UnfixedStarts'
      BY <1>2, <2>2 DEF UnfixedStarts, Unfixed!Found
  <2>4. UnfixedCurrent'
    <3>1. current_transition <= Len(Unfixed!Outgoing)
        BY <2>1, <2>2 DEF UnfixedInv, UnfixedCurrent, UnfixedAll
    <3>2. ASSUME NEW a PROVE a \in reached_final' <=> <<start, a>> \in Unfixed!Handed'
        BY <2>1, <2>2 DEF UnfixedCurrent
    <3>3. ASSUME NEW m, UnfixedAll(m) PROVE UnfixedAll(m)'
        BY <2>1, <3>3 DEF UnfixedAll
    <3> QED BY <1>2, <2>2, <3>1, <3>2, <3>3 DEF UnfixedInv, UnfixedCurrent, Unfixed!Found
  <2>5. \A pair \in Unfixed!Handed' : pair[1] \in visited' /\ pair[2] \in UnfixedAnswers[pair[1]]
      BY <1>2, <2>1, <2>2 DEF UnfixedInv, UnfixedCurrent, Unfixed!Found
  <2> QED BY <1>2, <2>1, <2>2, <2>3, <2>4, <2>5 DEF UnfixedInv, Unfixed!Found
<1>3. CASE Unfixed!NoneLeft
  <2>1. UNCHANGED <<Unfixed!Handed, Unfixed!NoneTwice>>
      BY <1>3 DEF Unfixed!NoneLeft, Unfixed!Handed, Unfixed!NoneTwice
  <2>2. path_enum = "made" /\ UnfixedCurrent /\ UnfixedStarts
      BY <1>3 DEF UnfixedInv, Unfixed!NoneLeft
  <2>3. UnfixedCurrent' /\ UnfixedStarts'
      BY <1>3, <2>1, <2>2 DEF UnfixedStarts, UnfixedCurrent, UnfixedAll, Unfixed!NoneLeft
  <2> QED BY <1>3, <2>1, <2>2, <2>3 DEF UnfixedInv, Unfixed!NoneLeft
<1>4. CASE Unfixed!NextStart
  <2>1. UNCHANGED <<Unfixed!Handed, Unfixed!NoneTwice, results, current_transition, path_enum>>
      BY <1>4 DEF Unfixed!NextStart, Unfixed!Handed, Unfixed!NoneTwice
  <2>2. PICK n \in iter :
            /\ iter' = iter \ {n}
            /\ IF n \in visited
               THEN UNCHANGED <<start, visited, reached_final, pc>>
               ELSE /\ start' = n /\ visited' = visited \cup {n}
                    /\ reached_final' = {}
                    /\ pc' = IF path_enum = "none" THEN "undefined" ELSE "loop"
      BY <1>4 DEF Unfixed!NextStart
  <2>3. pc = "starts" /\ UnfixedStarts
      BY <1>4 DEF UnfixedInv, Unfixed!NextStart
  <2>4. UnfixedStarts'
      BY <2>1, <2>2, <2>3 DEF UnfixedStarts
  <2>5. CASE n \in visited
    <3>1. path_enum = "made" => UnfixedCurrent'
        BY <2>1, <2>2, <2>3, <2>5 DEF UnfixedInv, UnfixedCurrent, UnfixedAll
    <3> QED BY <2>1, <2>2, <2>3, <2>4, <2>5, <3>1 DEF UnfixedInv
  <2>6. CASE n \notin visited
    <3>1. ASSUME path_enum = "made" PROVE UnfixedCurrent'
      <4>1. \A m \in visited : UnfixedAll(m)
          BY <2>3, <3>1 DEF UnfixedInv, UnfixedCurrent
      <4>2. \A m \in visited : UnfixedAll(m)'
          BY <2>1, <4>1 DEF UnfixedAll
      <4>3. \A a : <<n, a>> \notin Unfixed!Handed'
          BY <2>1, <2>6 DEF UnfixedInv
      <4>4. current_transition <= Len(Unfixed!Outgoing)
          BY <2>2, <2>3 DEF UnfixedInv, UnfixedStarts
      <4> QED BY <2>1, <2>2, <2>3, <2>6, <3>1, <4>2, <4>3, <4>4 DEF UnfixedInv, UnfixedCurrent
    <3>2. \A pair \in Unfixed!Handed' : pair[1] \in visited' /\ pair[2] \in UnfixedAnswers[pair[1]]
        BY <2>1, <2>2, <2>6 DEF UnfixedInv
    <3> QED BY <2>1, <2>2, <2>3, <2>4, <2>6, <3>1, <3>2 DEF UnfixedInv
  <2> QED BY <2>5, <2>6
<1>5. CASE Unfixed!NextTransition
  <2>1. UNCHANGED <<Unfixed!Handed, Unfixed!NoneTwice>>
      BY <1>5 DEF Unfixed!NextTransition, Unfixed!Handed, Unfixed!NoneTwice
  <2>2. UnfixedStarts'
      BY <1>5 DEF UnfixedInv, UnfixedStarts, Unfixed!NextTransition
  <2>3. path_enum = "made" => UnfixedCurrent'
      BY <1>5, <2>1 DEF UnfixedInv, UnfixedCurrent, UnfixedAll, Unfixed!NextTransition
  <2> QED BY <1>5, <2>1, <2>2, <2>3 DEF UnfixedInv, Unfixed!NextTransition
<1>6. CASE Unfixed!Exhausted
  <2>1. UNCHANGED <<Unfixed!Handed, Unfixed!NoneTwice>>
      BY <1>6 DEF Unfixed!Exhausted, Unfixed!Handed, Unfixed!NoneTwice
  <2>2. UnfixedStarts'
      BY <1>6 DEF UnfixedInv, UnfixedStarts, Unfixed!Exhausted
  <2>3. path_enum = "made" => UnfixedCurrent'
      BY <1>6, <2>1 DEF UnfixedInv, UnfixedCurrent, UnfixedAll, Unfixed!Exhausted
  <2> QED BY <1>6, <2>1, <2>2, <2>3 DEF UnfixedInv, Unfixed!Exhausted
<1>7. CASE Unfixed!Interrupt
  <2>1. UNCHANGED <<Unfixed!Handed, Unfixed!NoneTwice>>
      BY <1>7 DEF Unfixed!Interrupt, Unfixed!Handed, Unfixed!NoneTwice
  <2>2. UnfixedStarts'
      BY <1>7 DEF UnfixedInv, UnfixedStarts, Unfixed!Interrupt
  <2>3. path_enum = "made" => UnfixedCurrent'
      BY <1>7, <2>1 DEF UnfixedInv, UnfixedCurrent, UnfixedAll, Unfixed!Interrupt
  <2> QED BY <1>7, <2>1, <2>2, <2>3 DEF UnfixedInv, Unfixed!Interrupt
<1>8. CASE Unfixed!Reset
  <2>1. CASE Unfixed!FromOf(Unfixed!Outgoing[1]) = {}
    <3>1. visited = {} /\ path_enum' = "none"
        BY <1>8, <2>1 DEF UnfixedInv, UnfixedCurrent, Unfixed!Reset
    <3>2. Unfixed!Handed' = {} /\ Unfixed!NoneTwice' /\ results' \in Seq(UnfixedGraph.nodes \X UnfixedGraph.nodes)
        BY <1>8, <2>1 DEF Unfixed!Reset, Unfixed!Handed, Unfixed!NoneTwice
    <3>3. UnfixedStarts'
        BY <1>8, <2>1 DEF Unfixed!Reset, UnfixedStarts
    <3> QED BY <1>8, <2>1, <3>1, <3>2, <3>3 DEF UnfixedInv, Unfixed!Reset
  <2>2. CASE Unfixed!FromOf(Unfixed!Outgoing[1]) # {}
    <3>1. UNCHANGED <<Unfixed!Handed, Unfixed!NoneTwice>>
        BY <1>8, <2>2 DEF Unfixed!Reset, Unfixed!Handed, Unfixed!NoneTwice
    <3> QED BY <1>8, <2>2, <3>1 DEF UnfixedInv, Unfixed!Reset
  <2> QED BY <2>1, <2>2
<1> QED
    BY <1>1, <1>2, <1>3, <1>4, <1>5, <1>6, <1>7, <1>8 DEF Unfixed!Next, Unfixed!Search

-----------------------------------------------------------------------------
\* Nodes without an edge of a first transition reach nothing: a pair with the
\* start state alone is closed under steps, and is no answer.
LEMMA UnfixedNoEdge ==
    ASSUME NEW n \in UnfixedGraph.nodes,
           \A k \in DOMAIN Unfixed!Outgoing :
               ~Unfixed!Outgoing[k].inverse /\ n \notin Unfixed!FromOf(Unfixed!Outgoing[k])
    PROVE  UnfixedAnswers[n] = {}
<1> DEFINE S == {Origins!Origin(n)}
<1>1. Origins!Origin(n) = <<UnfixedGraph.start, n>> /\ Origins!Origin(n) \in Origins!Product
    BY AutomatonAssumption DEF Unfixed!AutomatonAssumption, Origins!Origin, Origins!Product
<1>2. \A q : ~Origins!Step(Origins!Origin(n), q)
  <2> SUFFICES ASSUME NEW q, Origins!Step(Origins!Origin(n), q) PROVE FALSE
      OBVIOUS
  <2>1. Origins!Origin(n)[1] = UnfixedGraph.start /\ Origins!Origin(n)[2] = n
      BY <1>1
  <2>2. PICK k \in DOMAIN Unfixed!Outgoing : Origins!GetIterator(Unfixed!Outgoing[k], n) # {}
      BY <2>1 DEF Origins!Step, Unfixed!Outgoing
  <2>3. ~Unfixed!Outgoing[k].inverse /\ n \notin Unfixed!FromOf(Unfixed!Outgoing[k])
      BY <2>2
  <2>4. \E e \in UnfixedGraph.edges : e.type = Unfixed!Outgoing[k].type /\ e.from = n
      BY <2>2, <2>3 DEF Origins!GetIterator
  <2> QED BY <2>3, <2>4 DEF Unfixed!FromOf
<1>3. S \in Origins!ClosedSets
    BY <1>1, <1>2 DEF Origins!ClosedSets, Origins!Successors
<1>4. Origins!Reachable[n] \subseteq S
    BY <1>3 DEF Origins!Reachable
<1>5. \A p \in Origins!Reachable[n] : ~Origins!IsFinal(p)
    BY <1>1, <1>4, UnfixedAssumption DEF Origins!IsFinal
<1>6. UnfixedAnswers[n] = {p[2] : p \in {x \in Origins!Reachable[n] : Origins!IsFinal(x)}}
    BY GraphAssumption DEF UnfixedAnswers, Origins!Answers, Unfixed!GraphAssumption
<1> QED BY <1>5, <1>6

\* No first transition is inverse.
UnfixedForward == \A k \in DOMAIN Unfixed!Outgoing : ~Unfixed!Outgoing[k].inverse

UnfixedExpected == Unfixed!AnswersTo["all"]

LEMMA UnfixedPairs ==
    UnfixedExpected = {pair \in UnfixedGraph.nodes \X UnfixedGraph.nodes : pair[2] \in UnfixedAnswers[pair[1]]}
BY DEF UnfixedExpected, Unfixed!AnswersTo

LEMMA UnfixedSound == ASSUME UnfixedInv PROVE Unfixed!Handed \subseteq UnfixedExpected
BY UnfixedPairs DEF UnfixedInv, Unfixed!Handed

\* At the end every node with an edge of a first transition was a start node.
LEMMA UnfixedComplete ==
    ASSUME UnfixedInv, UnfixedForward, Unfixed!Exhausted
    PROVE  Unfixed!Handed = UnfixedExpected
<1>1. pc = "starts" /\ iter = {} /\ UnfixedStarts /\ current_transition >= Len(Unfixed!Outgoing)
    BY DEF UnfixedInv, Unfixed!Exhausted
<1>2. \A k \in DOMAIN Unfixed!Outgoing : Unfixed!FromOf(Unfixed!Outgoing[k]) \subseteq visited
    BY <1>1, UnfixedTypes DEF UnfixedInv, UnfixedStarts
<1>3. \A n \in visited : UnfixedAll(n)
    BY <1>1 DEF UnfixedInv, UnfixedCurrent
<1>4. ASSUME NEW n \in UnfixedGraph.nodes, NEW a \in UnfixedAnswers[n] PROVE <<n, a>> \in Unfixed!Handed
  <2>1. n \in visited
      BY <1>2, <1>4, UnfixedNoEdge DEF UnfixedForward
  <2> QED BY <1>3, <1>4, <2>1 DEF UnfixedAll
<1> QED BY <1>4, UnfixedPairs, UnfixedSound

\* The answers PathSearch expects of this operator.
LEMMA UnfixedTagged ==
    <<"unfixed", "all">> \in DOMAIN Answers /\ Answers[<<"unfixed", "all">>] = UnfixedExpected
<1> DEFINE i == <<"unfixed", "all">>
<1>1. DOMAIN AnswersOf = {"any", "paths", "shortest", "unfixed"} /\ AnswersOf["unfixed"] = Unfixed!AnswersTo
    BY DEF AnswersOf
<1>2. DOMAIN Unfixed!AnswersTo = {"all"}
    BY DEF Unfixed!AnswersTo
<1>3. i \in {"unfixed"} \X DOMAIN AnswersOf["unfixed"] /\ i[1] = "unfixed" /\ i[2] = "all"
    BY <1>1, <1>2
<1>4. i \in UNION {{f} \X DOMAIN AnswersOf[f] : f \in DOMAIN AnswersOf}
    BY <1>1, <1>3
<1> HIDE DEF i
<1> QED BY <1>1, <1>3, <1>4 DEF Answers, UnfixedExpected, i

LEMMA UnfixedNames ==
    family = "unfixed" => Promise!vars = <<<<"unfixed", "all">>, Unfixed!Handed, Unfixed!Status>>
BY DEF Promise!vars

LEMMA UnfixedPromiseInit == Init /\ family = "unfixed" => Promise!Init
<1> SUFFICES ASSUME Unfixed!Init, family = "unfixed" PROVE Promise!Init
    BY DEF Init
<1>1. Unfixed!Handed = {}
    BY DEF Unfixed!Init, Unfixed!Handed
<1>2. Unfixed!Status = "open"
    BY UnfixedTypes DEF Unfixed!Init, Unfixed!Status
<1> QED BY <1>1, <1>2, UnfixedNames, UnfixedTagged DEF Promise!Init, Promise!vars

LEMMA UnfixedPromiseStep ==
    ASSUME UnfixedInv, UnfixedInv', UnfixedForward, Unfixed!Next
    PROVE  Promise!Next \/ UNCHANGED Promise!vars
<1> DEFINE here == <<"unfixed", "all">>
<1>1. /\ Promise!vars = <<here, Unfixed!Handed, Unfixed!Status>>
      /\ Promise!vars' = <<here, Unfixed!Handed', Unfixed!Status'>>
  <2>1. (family = "unfixed" => Promise!vars = <<here, Unfixed!Handed, Unfixed!Status>>)'
      BY UnfixedNames, PTL
  <2> QED BY <2>1, UnfixedNames DEF UnfixedInv
<1>2. here \in DOMAIN Answers /\ Answers[here] = UnfixedExpected
    BY UnfixedTagged
<1>3. current_transition \in 1 .. Len(Unfixed!Outgoing) + 1 /\ Len(Unfixed!Outgoing) \in Nat \ {0}
    BY UnfixedTypes DEF UnfixedInv
<1> HIDE DEF here
<1>4. CASE Unfixed!Found
  <2>1. PICK n \in UnfixedAnswers[start] \ reached_final :
            <<start, n>> \notin Unfixed!Handed /\ Unfixed!Handed' = Unfixed!Handed \cup {<<start, n>>}
      BY <1>4, UnfixedFound
  <2>2. <<start, n>> \in UnfixedExpected
    <3>1. (UnfixedInv => Unfixed!Handed \subseteq UnfixedExpected)'
        BY UnfixedSound, PTL
    <3> QED BY <2>1, <3>1 DEF UnfixedExpected, Unfixed!AnswersTo
  <2>3. Unfixed!Status = "open" /\ Unfixed!Status' = "open"
    <3>1. current_transition <= Len(Unfixed!Outgoing)
        BY <1>3, <1>4, <2>1 DEF UnfixedInv, UnfixedCurrent, UnfixedAll, Unfixed!Found
    <3> QED BY <1>3, <1>4, <3>1 DEF Unfixed!Found, Unfixed!Status
  <2>4. Promise!Report(<<start, n>>)
      BY <1>1, <1>2, <2>1, <2>2, <2>3 DEF Promise!Report, Promise!vars
  <2> QED BY <1>1, <1>2, <2>2, <2>4 DEF Promise!Next, Promise!vars
<1>5. CASE Unfixed!Exhausted
  <2>1. UNCHANGED Unfixed!Handed /\ Unfixed!Handed = UnfixedExpected
      BY <1>5, UnfixedComplete DEF Unfixed!Exhausted, Unfixed!Handed
  <2>2. Unfixed!Status \in {"open", "done"} /\ Unfixed!Status' = "done"
      BY <1>3, <1>5 DEF Unfixed!Exhausted, Unfixed!Status
  <2> QED BY <1>1, <1>2, <2>1, <2>2 DEF Promise!Next, Promise!Finish, Promise!vars
<1>6. CASE Unfixed!Reset
  <2>1. CASE Unfixed!FromOf(Unfixed!Outgoing[1]) = {}
    <3>1. Unfixed!Handed' = {} /\ Unfixed!Status' = "open"
        BY <1>3, <1>6, <2>1 DEF Unfixed!Reset, Unfixed!Handed, Unfixed!Status
    <3>2. Promise!Restart(here)
        BY <1>1, <3>1 DEF Promise!Restart, Promise!vars
    <3> QED BY <1>2, <3>2 DEF Promise!Next
  <2>2. CASE Unfixed!FromOf(Unfixed!Outgoing[1]) # {}
    <3>1. UNCHANGED Unfixed!Handed /\ Unfixed!Status' = "aborted"
        BY <1>6, <2>2 DEF Unfixed!Reset, Unfixed!Handed, Unfixed!Status
    <3> QED BY <1>1, <3>1 DEF Promise!Next, Promise!Abort, Promise!vars
  <2> QED BY <2>1, <2>2
<1>7. CASE Unfixed!Interrupt
  <2>1. UNCHANGED Unfixed!Handed /\ Unfixed!Status' = "aborted"
      BY <1>7 DEF Unfixed!Interrupt, Unfixed!Handed, Unfixed!Status
  <2> QED BY <1>1, <2>1 DEF Promise!Next, Promise!Abort, Promise!vars
<1>8. CASE Unfixed!NextStart
  <2>1. UNCHANGED Unfixed!Handed /\ (UNCHANGED Unfixed!Status \/ Unfixed!Status' = "aborted")
      BY <1>8 DEF Unfixed!NextStart, Unfixed!Handed, Unfixed!Status
  <2> QED BY <1>1, <2>1 DEF Promise!Next, Promise!Abort, Promise!vars
<1>9. CASE Unfixed!Call \/ Unfixed!NoneLeft \/ Unfixed!NextTransition
  <2>1. UNCHANGED <<Unfixed!Handed, Unfixed!Status>>
      BY <1>3, <1>9 DEF Unfixed!Call, Unfixed!NoneLeft, Unfixed!NextTransition, Unfixed!Handed, Unfixed!Status
  <2> QED BY <1>1, <2>1 DEF Promise!vars
<1> QED BY <1>4, <1>5, <1>6, <1>7, <1>8, <1>9 DEF Unfixed!Next, Unfixed!Search

\* A step of PathSearch is one of the operator, or of none.
LEMMA UnfixedNext == UnfixedInv /\ [Next]_vars => (Unfixed!Next /\ UNCHANGED family) \/ UNCHANGED vars
BY DEF UnfixedInv, Next, OfAny, OfPaths, OfShortest, OfUnfixed

LEMMA UnfixedStutter == UnfixedInv /\ UNCHANGED vars => UnfixedInv' /\ UNCHANGED Promise!vars
<1> SUFFICES ASSUME UnfixedInv, UNCHANGED vars PROVE UnfixedInv' /\ UNCHANGED Promise!vars
    OBVIOUS
<1>1. UNCHANGED <<family, pc, path_enum, current_transition, visited, iter, results, start, reached_final>>
    BY DEF vars, any_vars, path_vars, shortest_vars
<1>2. UNCHANGED <<Unfixed!Handed, Unfixed!NoneTwice, Unfixed!Status>>
    BY <1>1 DEF Unfixed!Handed, Unfixed!NoneTwice, Unfixed!Status
<1>3. UNCHANGED <<UnfixedStarts, UnfixedCurrent>>
    BY <1>1, <1>2 DEF UnfixedStarts, UnfixedCurrent, UnfixedAll
<1>4. UNCHANGED Promise!vars
  <2>1. (family = "unfixed" => Promise!vars = <<<<"unfixed", "all">>, Unfixed!Handed, Unfixed!Status>>)'
      BY UnfixedNames, PTL
  <2> QED BY <1>1, <1>2, <2>1, UnfixedNames DEF UnfixedInv
<1> QED BY <1>1, <1>2, <1>3, <1>4 DEF UnfixedInv

LEMMA UnfixedInvStep == UnfixedInv /\ [Next]_vars => UnfixedInv'
BY UnfixedNext, UnfixedStep, UnfixedStutter

LEMMA UnfixedEnumerates ==
    UnfixedInv /\ UnfixedInv' /\ UnfixedForward /\ [Next]_vars => [Promise!Next]_(Promise!vars)
BY UnfixedNext, UnfixedPromiseStep, UnfixedStutter

LEMMA UnfixedOnce == UnfixedInv => NoneTwice
BY DEF UnfixedInv, NoneTwice

-----------------------------------------------------------------------------
(* The theorems.                                                           *)

\* A pair that left the depth-first stack was expanded completely, also when
\* the loop over its neighbours was left half way to hand out an answer.
THEOREM ExpansionCorrect == Init /\ [][Next]_vars => []ExpandedCompletely
BY AnyInvariant, AnyExpanded, PTL

\* What the breadth-first check hands out is a shortest path.
THEOREM ShortestCorrect == Init /\ [][Next]_vars => []ShortestPath
BY AnyInvariant, AnyShortestPath, PTL

\* A depth-first stack leads from its top back to the start node, also while
\* the search backtracks: by the previous pointers of its states, and by its
\* frames, which are then a trail or a simple path.
THEOREM StackCorrect == Init /\ [][Next]_vars => []StackIsPath
<1>1. AnyInv /\ PathInv => StackIsPath
    BY AnyStack, PathStack DEF StackIsPath
<1> QED BY <1>1, AnyInvariant, PathInvariant, PTL

\* The queue of paths stays in the order of their lengths, with no path twice
\* and none that can no longer grow, across all its operators and their resets.
THEOREM QueueCorrect == Init /\ [][Next]_vars => []QueueOrdered
BY PathInvariant, PathQueue, PTL

\* An operator for any path hands out no node twice, one for trails or simple paths
\* no path, or no end node if any path will do, the one that knows neither end no
\* pair of nodes, and the one that counts shortest paths one count for each node,
\* however often they are called and reset.
THEOREM NoneTwiceCorrect == (family = "shortest" => counting) /\ Init /\ [][Next]_vars => []NoneTwice
<1>1. family = "any" /\ Init /\ [][Next]_vars => []NoneTwice
    BY AnyOneInit, AnyOneStep, AnyOnce, PTL
<1>2. family = "paths" /\ Init /\ [][Next]_vars => []NoneTwice
  <2>1. family = "paths" /\ [Next]_vars => (family = "paths")'
      BY DEF Next, OfAny, OfPaths, OfShortest, OfUnfixed, vars
  <2> QED BY <2>1, PathInvariant, PathOnce, PTL
<1>3. family = "unfixed" /\ Init /\ [][Next]_vars => []NoneTwice
    BY UnfixedInit, UnfixedInvStep, UnfixedOnce, PTL
<1>4. family = "shortest" /\ counting /\ Init /\ [][Next]_vars => []NoneTwice
  <2>1. family = "shortest" /\ counting /\ [Next]_vars => family' = "shortest" /\ counting'
    <3>1. CASE UNCHANGED vars
        BY <3>1 DEF vars, shortest_vars
    <3>2. CASE Next
        BY <3>2 DEF Next, OfAny, OfPaths, OfShortest, OfUnfixed, Shortest!Next, Shortest!Finding,
                    Shortest!Counting
    <3> QED BY <3>1, <3>2
  <2>2. family = "shortest" /\ counting /\ [Next]_vars => (family = "shortest" /\ counting)'
      BY <2>1
  <2> QED BY <2>2, CountInit, CountStep, CountedOnce, PTL
<1>5. (family = "shortest" => counting) /\ Init =>
          \/ family = "any" \/ family = "paths" \/ family = "unfixed"
          \/ family = "shortest" /\ counting
    BY DEF Init
<1> QED BY <1>1, <1>2, <1>3, <1>4, <1>5, PTL

\* The operators for any path hand out all answers to their input and nothing else:
\* every one but the check whose end is a variable, which keeps the end node of
\* its first binding when it is reset with another one.
THEOREM EnumerationCorrect ==
    family = "any" /\ class # "DFSCheckVar" /\ Init /\ [][Next]_vars => EnumeratesAnswers
<1>1. AnyOne /\ class # "DFSCheckVar" /\ [Next]_vars => (class # "DFSCheckVar")'
    BY AnyOneNext, AnyClassKept DEF AnyOne
<1>2. AnyOne /\ AnyOne' /\ class # "DFSCheckVar" /\ [Next]_vars => [Promise!Next]_(Promise!vars)
    BY AnyPromiseStep DEF AnyP!EndIsVar
<1> QED
    BY <1>1, <1>2, AnyOneInit, AnyOneStep, AnyPromiseInit, PTL DEF EnumeratesAnswers, Promise!Spec

\* The operators for trails and simple paths, depth and breadth first, hand out all
\* answers to their input and nothing else: all the paths, all the shortest ones or
\* one for each end node, each of them before they say that there are no more. Only
\* the depth-first checks for simple paths may stop before that.
THEOREM PathsEnumerated == family = "paths" /\ Init /\ [][Next]_vars => EnumeratesAnswers
BY PathAllInit, PathAllStep, PathPromiseInit, PathPromiseStep, PTL DEF EnumeratesAnswers, Promise!Spec

\* The iterators of the operator for all shortest paths rest whenever it has no
\* solution: enumerating the paths of one, over states other solutions share, leaves
\* every iterator at its beginning for the next.
THEOREM IteratorsCorrect == Init /\ [][Next]_vars => []IteratorsRest
BY IterationInit, IterationStep, IterationRests, PTL

\* The operator that knows neither end hands out every pair of a node and one of its
\* answers and nothing else, if no first transition is inverse: of one that is, it
\* takes the nodes at the wrong end of the edges for start nodes.
THEOREM PairsCorrect ==
    family = "unfixed" /\ UnfixedForward /\ Init /\ [][Next]_vars => EnumeratesAnswers
<1>1. UnfixedForward => UnfixedForward'
    BY DEF UnfixedForward, Unfixed!Outgoing
<1> QED
    BY <1>1, UnfixedInit, UnfixedInvStep, UnfixedEnumerates, UnfixedPromiseInit, PTL
       DEF EnumeratesAnswers, Promise!Spec
=============================================================================
