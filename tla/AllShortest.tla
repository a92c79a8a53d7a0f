---------------------------- MODULE AllShortest ----------------------------
(***************************************************************************)
(* Paths::AllShortest::BFSEnum and BFSCheck: all the shortest paths.  A    *)
(* visited SearchState keeps every transition that reaches it at its       *)
(* distance, and a PathIter over them.  The iterators of a solution and of *)
(* the states before it, which other solutions share, step together like   *)
(* the digits of a counter, one path at a time.                            *)
(***************************************************************************)
EXTENDS ShortestWalks

VARIABLES
    check,                  \* BFSCheck, for paths to a given end node, instead of BFSEnum
    finals,                 \* final states of the automaton
    start, end,             \* read from the binding; end only if check
    visited,                \* SearchStates: their distance and the IterTransitions to them
    current,                \* path_iter.current of each: its position, 0 for nullptr
    open, iter, at_end, current_transition, first_next,
    solution_found,         \* the state whose paths are being enumerated
    optimal_distances,      \* nodes with a path handed out and its length; in BFSCheck
                            \* the optimal_distance of end
    results, pc             \* as in AnyShortest, and "enumerate" at that label

vars == <<check, finals, start, end, visited, current, open, iter, at_end, current_transition,
          first_next, solution_found, optimal_distances, results, pc>>

NoSolution == <<>>

Final(p) == p[1] \in finals
ManyFinal == Cardinality(finals) > 1    \* the template argument MULTIPLE_FINAL

Front == Head(open)
Outgoing == Connections[Front[1]]

\* The edge is not stored: it tells the transitions over parallel edges apart.
IterTransition(previous, t, r) == [previous |-> previous, inverse |-> t.inverse, edge |-> r.edge]

-----------------------------------------------------------------------------
(* PathIter: transitions of a state from begin to end, and current.        *)

\* A position is that of one of the transitions, or 0.
Positions ==
    {c \in [DOMAIN visited -> Nat] : \A p \in DOMAIN visited : c[p] <= Len(visited[p].transitions)}

FinishKeeps(c, p) == c
Finish(c, p) == [c EXCEPT ![p] = 0]

\* path_iter.next() of a[2], with the currents a[1]: whether it moved to
\* another path, and the currents it leaves.
PathIterNext ==
    LET next[a \in Positions \X DOMAIN visited] ==
            LET c == a[1]
                p == a[2]
                transitions == visited[p].transitions
                Begin(k, from) == next[<<[from EXCEPT ![p] = k], transitions[k].previous>>]
            IN  CASE transitions = <<>> -> [more |-> FALSE, current |-> c]
                  [] transitions # <<>> /\ c[p] = 0 ->
                         [more |-> TRUE, current |-> Begin(1, c).current]
                  [] transitions # <<>> /\ c[p] # 0 ->
                         LET before == next[<<c, transitions[c[p]].previous>>]
                         IN  IF before.more THEN before
                             ELSE IF c[p] = Len(transitions)
                             THEN [more |-> FALSE, current |-> Finish(before.current, p)]
                             ELSE [more |-> TRUE, current |-> Begin(c[p] + 1, before.current).current]
    IN  next

StartEnumeration(transitions) ==
    IF visited[transitions[1].previous].transitions # <<>> THEN Len(transitions) ELSE 0

\* get_path: down the currents to the state that has none.
GetPath(c, q) ==
    LET path[p \in DOMAIN visited] ==
            IF c[p] = 0 THEN First(p[2])
            ELSE LET t == visited[p].transitions[c[p]]
                 IN  Append(path[t.previous], [node |-> p[2], edge |-> t.edge, inverse |-> t.inverse])
    IN  path[q]

-----------------------------------------------------------------------------
Unreached == [distance |-> 0, transitions |-> <<>>]

Init ==
    /\ check \in BOOLEAN /\ finals \in Automata
    /\ start \in NodeIds /\ end \in EndsOf(check)
    /\ visited = [p \in {Origin(start)} |-> Unreached]
    /\ current = [p \in {Origin(start)} |-> 0]
    /\ open = <<Origin(start)>>
    /\ iter = {} /\ at_end = TRUE /\ current_transition = 1
    /\ first_next = TRUE
    /\ solution_found = NoSolution
    /\ optimal_distances = <<>>
    /\ results = <<>>
    /\ pc = "ready"

Reset(n, e) ==
    /\ pc \in {"ready", "done"}
    /\ start' = n /\ end' = e
    /\ visited' = [p \in {Origin(n)} |-> Unreached]
    /\ current' = [p \in {Origin(n)} |-> 0]
    /\ open' = <<Origin(n)>>
    /\ iter' = {} /\ at_end' = TRUE /\ current_transition' = 1
    /\ first_next' = TRUE
    /\ solution_found' = NoSolution
    /\ optimal_distances' = <<>>
    /\ results' = <<>>
    /\ pc' = "ready"
    /\ UNCHANGED <<check, finals>>

Return(path) == results' = Append(results, path) /\ pc' = "ready"

-----------------------------------------------------------------------------
(* next()                                                                  *)

StartMissing ==
    /\ pc = "ready" /\ first_next /\ start \notin Nodes
    /\ first_next' = FALSE
    /\ open' = Tail(open)
    /\ pc' = "done"
    /\ UNCHANGED <<check, finals, start, end, visited, current, iter, at_end, current_transition,
                   solution_found, optimal_distances, results>>

StartIsAnswer == Final(Origin(start)) /\ (check => start = end)

\* Nothing is shorter than the empty path: a check stops there.
ReturnStart ==
    /\ pc = "ready" /\ first_next /\ start \in Nodes /\ StartIsAnswer
    /\ first_next' = FALSE
    /\ Return(First(start))
    /\ IF check
       THEN open' = Tail(open) /\ UNCHANGED optimal_distances
       ELSE /\ optimal_distances' = IF ManyFinal THEN [n \in {start} |-> 0] ELSE <<>>
            /\ UNCHANGED open
    /\ UNCHANGED <<check, finals, start, end, visited, current, iter, at_end, current_transition, solution_found>>

EnterLoop ==
    /\ \/ pc = "ready" /\ (first_next => start \in Nodes /\ ~StartIsAnswer)
       \/ pc = "done"
    /\ first_next' = FALSE
    /\ pc' = IF solution_found = NoSolution THEN "loop" ELSE "enumerate"
    /\ UNCHANGED <<check, finals, start, end, visited, current, open, iter, at_end, current_transition,
                   solution_found, optimal_distances, results>>

Exhausted ==
    /\ pc = "loop" /\ open = <<>>
    /\ pc' = "done"
    /\ UNCHANGED <<check, finals, start, end, visited, current, open, iter, at_end, current_transition,
                   first_next, solution_found, optimal_distances, results>>

Enumerate ==
    /\ pc = "enumerate"
    /\ LET moved == PathIterNext[<<current, solution_found>>]
       IN  /\ current' = moved.current
           /\ IF moved.more
              THEN Return(GetPath(moved.current, solution_found)) /\ UNCHANGED solution_found
              ELSE solution_found' = NoSolution /\ pc' = "loop" /\ UNCHANGED results
    /\ UNCHANGED <<check, finals, start, end, visited, open, iter, at_end, current_transition,
                   first_next, optimal_distances>>

-----------------------------------------------------------------------------
(* expand_neighbors()                                                      *)

Pop == open' = Tail(open)

ExpandFirst ==
    /\ pc = "loop" /\ open # <<>> /\ at_end
    /\ current_transition' = 1
    /\ IF Outgoing = <<>>
       THEN Pop /\ UNCHANGED <<iter, at_end, pc>>
       ELSE /\ iter' = GetIterator(Outgoing[1], Front[2])
            /\ at_end' = FALSE
            /\ pc' = "expand"
            /\ UNCHANGED open
    /\ UNCHANGED <<check, finals, start, end, visited, current, first_next, solution_found,
                   optimal_distances, results>>

ExpandResume ==
    /\ pc = "loop" /\ open # <<>> /\ ~at_end
    /\ pc' = "expand"
    /\ UNCHANGED <<check, finals, start, end, visited, current, open, iter, at_end, current_transition,
                   first_next, solution_found, optimal_distances, results>>

\* A path of length d to p is a solution unless its node has a shorter one.
Solves(p) == Final(p) /\ (check => p[2] = end)
IsSolutionAnyLength(p, d) == Solves(p)
IsSolution(p, d) ==
    /\ Solves(p)
    /\ check \/ ManyFinal =>
           (p[2] \in DOMAIN optimal_distances => optimal_distances[p[2]] = d)

Found(p, d) ==
    /\ solution_found' = p
    /\ optimal_distances' =
           IF check \/ ManyFinal
           THEN [n \in DOMAIN optimal_distances \cup {p[2]} |->
                    IF n = p[2] THEN d ELSE optimal_distances[n]]
           ELSE optimal_distances
    /\ current' = [x \in DOMAIN visited' |->
                      IF x = p THEN StartEnumeration(visited'[p].transitions)
                      ELSE current[x]]
    /\ pc' = "enumerate"

NotFound ==
    /\ current' = [x \in DOMAIN visited' |-> IF x \in DOMAIN visited THEN current[x] ELSE 0]
    /\ UNCHANGED <<solution_found, optimal_distances, pc>>

\* Whether a record leads to a state that is to keep the transition.
OptimalVisited(p, d) == visited[p].distance = d

Visit ==
    /\ pc = "expand"
    /\ \E r \in iter :
         LET t == Outgoing[current_transition]
             p == <<t.to, r.node>>
             d == visited[Front].distance + 1
             transition == IterTransition(Front, t, r)
         IN  /\ iter' = iter \ {r}
             /\ \/ /\ p \in DOMAIN visited /\ ~OptimalVisited(p, d)
                   /\ UNCHANGED <<visited, current, open, solution_found, optimal_distances, pc>>
                \/ /\ p \in DOMAIN visited /\ OptimalVisited(p, d)
                   /\ visited' = [visited EXCEPT ![p].transitions = Append(@, transition)]
                   /\ UNCHANGED open
                   /\ IF IsSolution(p, d) THEN Found(p, d) ELSE NotFound
                \/ /\ p \notin DOMAIN visited
                   /\ visited' = [x \in DOMAIN visited \cup {p} |->
                                     IF x = p THEN [distance |-> d, transitions |-> <<transition>>]
                                     ELSE visited[x]]
                   /\ open' = Append(open, p)
                   /\ IF IsSolution(p, d) THEN Found(p, d) ELSE NotFound
    /\ UNCHANGED <<check, finals, start, end, at_end, current_transition, first_next, results>>

MoreTransitions == current_transition < Len(Outgoing)

NextTransition ==
    /\ pc = "expand" /\ iter = {}
    /\ current_transition' = current_transition + 1
    /\ IF MoreTransitions
       THEN /\ iter' = GetIterator(Outgoing[current_transition + 1], Front[2])
            /\ UNCHANGED <<open, at_end, pc>>
       ELSE /\ at_end' = TRUE
            /\ Pop
            /\ pc' = "loop"
            /\ UNCHANGED iter
    /\ UNCHANGED <<check, finals, start, end, visited, current, first_next, solution_found,
                   optimal_distances, results>>

Interrupt ==
    /\ pc \in {"expand", "enumerate"}
    /\ pc' = "interrupted"
    /\ UNCHANGED <<check, finals, start, end, visited, current, open, iter, at_end, current_transition,
                   first_next, solution_found, optimal_distances, results>>

Search == StartMissing \/ ReturnStart \/ EnterLoop \/ Exhausted \/ Enumerate
          \/ ExpandFirst \/ ExpandResume \/ Visit \/ NextTransition

Next == Search \/ Interrupt \/ \E n \in NodeIds : \E e \in EndsOf(check) : Reset(n, e)
=============================================================================
