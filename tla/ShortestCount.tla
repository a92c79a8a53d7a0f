--------------------------- MODULE ShortestCount ---------------------------
(***************************************************************************)
(* Paths::AllShortestCount::BFSEnum and BFSCheck: how many shortest paths  *)
(* there are to every node, or to a given one.  Counts are added up along  *)
(* the edges of the search, and handed out when a state leaves the queue.  *)
(***************************************************************************)
EXTENDS ShortestWalks

CONSTANT CountBits      \* width of a count: 64

VARIABLES
    check,              \* BFSCheck, for paths to a given end node, instead of BFSEnum
    finals,             \* final states of the automaton
    start, end,         \* read from the binding; end only if check
    visited,            \* SearchStates with their distance and count
    open, iter, current_transition, first_next,
    reached_final,      \* ResultInfo: count and distance by node.  BFSEnum has it only
                        \* with MULTIPLE_FINAL; in BFSCheck it is path_count and
                        \* optimal_distance, of end
    results,            \* the counts handed to the parent, in order
    pc                  \* as in AnyShortest; "settle": the front state was explored;
                        \* "undefined": the behaviour is not defined

vars == <<check, finals, start, end, visited, open, iter, current_transition, first_next,
          reached_final, results, pc>>

Final(p) == p[1] \in finals
ManyFinal == Cardinality(finals) > 1    \* the template argument MULTIPLE_FINAL

Front == Head(open)
Outgoing == Connections[Front[1]]
Add(a, b) == (a + b) % 2^CountBits
ResultInfo(c, d) == [count |-> c, distance |-> d]

Set(f, x, v) == [y \in DOMAIN f \cup {x} |-> IF y = x THEN v ELSE f[y]]

-----------------------------------------------------------------------------
Init ==
    /\ check \in BOOLEAN /\ finals \in Automata
    /\ start \in NodeIds /\ end \in EndsOf(check)
    /\ visited = [p \in {Origin(start)} |-> ResultInfo(1, 0)]
    /\ open = <<Origin(start)>>
    /\ iter = {} /\ current_transition = 0
    /\ first_next = TRUE
    /\ reached_final = <<>>
    /\ results = <<>>
    /\ pc = "ready"

Reset(n, e) ==
    /\ pc \in {"ready", "done"}
    /\ start' = n /\ end' = e
    /\ visited' = [p \in {Origin(n)} |-> ResultInfo(1, 0)]
    /\ open' = <<Origin(n)>>
    /\ iter' = {} /\ current_transition' = 0
    /\ first_next' = TRUE
    /\ reached_final' = <<>>
    /\ results' = <<>>
    /\ pc' = "ready"
    /\ UNCHANGED <<check, finals>>

Pop == open' = Tail(open)

ClearOpen == open' = <<>>

Return(n, c) == results' = Append(results, <<n, c>>) /\ pc' = "ready"

-----------------------------------------------------------------------------
(* next()                                                                  *)

StartMissing ==
    /\ pc = "ready" /\ first_next /\ start \notin Nodes
    /\ first_next' = FALSE
    /\ Pop
    /\ pc' = "done"
    /\ UNCHANGED <<check, finals, start, end, visited, iter, current_transition, reached_final, results>>

StartIsAnswer == check /\ Final(Origin(start)) /\ start = end

\* The enumeration hands out the start node only when it leaves the queue.  A
\* check has an empty queue from here on.
ReturnStart ==
    /\ pc = "ready" /\ first_next /\ start \in Nodes /\ StartIsAnswer
    /\ first_next' = FALSE
    /\ reached_final' = Set(reached_final, end, ResultInfo(visited[Front].count, 0))
    /\ Return(end, visited[Front].count)
    /\ Pop
    /\ UNCHANGED <<check, finals, start, end, visited, iter, current_transition>>

EnterLoop ==
    /\ \/ pc = "ready" /\ (first_next => start \in Nodes /\ ~StartIsAnswer)
       \/ pc = "done"
    /\ first_next' = FALSE
    /\ reached_final' =
           IF first_next /\ ~check /\ ManyFinal /\ Final(Origin(start))
           THEN Set(reached_final, start, ResultInfo(1, 0))
           ELSE reached_final
    /\ pc' = "loop"
    /\ UNCHANGED <<check, finals, start, end, visited, open, iter, current_transition, results>>

Exhausted ==
    /\ pc = "loop" /\ open = <<>>
    /\ pc' = "done"
    /\ UNCHANGED <<check, finals, start, end, visited, open, iter, current_transition, first_next,
                   reached_final, results>>

\* What is handed out for the front state once it is explored, by class.
CountOfFront ==
    \/ /\ ~check /\ ~ManyFinal
       /\ Return(Front[2], visited[Front].count)
       /\ Pop /\ UNCHANGED reached_final
    \/ /\ ~check /\ ManyFinal
       /\ Return(Front[2], reached_final[Front[2]].count)
       /\ reached_final' = [n \in DOMAIN reached_final \ {Front[2]} |-> reached_final[n]]
       /\ Pop
    \/ /\ check
       /\ Return(end, reached_final[end].count)
       /\ ClearOpen /\ UNCHANGED reached_final

HasCount ==
    /\ Final(Front)
    /\ check => Front[2] = end
    /\ ~check /\ ManyFinal => Front[2] \in DOMAIN reached_final

Settle ==
    /\ pc = "settle"
    /\ \/ HasCount /\ CountOfFront
       \/ ~HasCount /\ Pop /\ pc' = "loop" /\ UNCHANGED <<reached_final, results>>
    /\ UNCHANGED <<check, finals, start, end, visited, iter, current_transition, first_next>>

-----------------------------------------------------------------------------
(* explore_neighbors()                                                     *)

Explore ==
    /\ pc = "loop" /\ open # <<>>
    /\ iter' = {} /\ current_transition' = 0
    /\ pc' = "expand"
    /\ UNCHANGED <<check, finals, start, end, visited, open, first_next, reached_final, results>>

Counts(p) == Final(p) /\ IF check THEN p[2] = end ELSE ManyFinal

AddPaths(n, c, d) ==
    IF n \notin DOMAIN reached_final THEN Set(reached_final, n, ResultInfo(c, d))
    ELSE IF reached_final[n].distance = d
    THEN [reached_final EXCEPT ![n].count = Add(@, c)]
    ELSE reached_final

\* The entry for the node of an answer reached again "must exist"; BFSEnum
\* dereferences the end of its map when it does not.
Exists(n) == check \/ n \in DOMAIN reached_final

SameDistance(p, d) == visited[p].distance = d

Visit ==
    /\ pc = "expand"
    /\ \E r \in iter :
         LET p == <<Outgoing[current_transition].to, r.node>>
             d == visited[Front].distance + 1
             c == visited[Front].count
         IN  /\ iter' = iter \ {r}
             /\ \/ /\ p \in DOMAIN visited /\ ~SameDistance(p, d)
                   /\ UNCHANGED <<visited, open, reached_final, pc>>
                \/ /\ p \in DOMAIN visited /\ SameDistance(p, d)
                   /\ visited' = [visited EXCEPT ![p].count = Add(@, c)]
                   /\ IF Counts(p) /\ ~Exists(p[2])
                      THEN pc' = "undefined" /\ UNCHANGED reached_final
                      ELSE /\ reached_final' = IF Counts(p) THEN AddPaths(p[2], c, d)
                                                            ELSE reached_final
                           /\ UNCHANGED pc
                   /\ UNCHANGED open
                \/ /\ p \notin DOMAIN visited
                   /\ visited' = Set(visited, p, ResultInfo(c, d))
                   /\ open' = Append(open, p)
                   /\ reached_final' = IF Counts(p) THEN AddPaths(p[2], c, d) ELSE reached_final
                   /\ UNCHANGED pc
    /\ UNCHANGED <<check, finals, start, end, current_transition, first_next, results>>

MoreTransitions == current_transition < Len(Outgoing)

NextTransition ==
    /\ pc = "expand" /\ iter = {}
    /\ IF MoreTransitions
       THEN /\ current_transition' = current_transition + 1
            /\ iter' = GetIterator(Outgoing[current_transition + 1], Front[2])
            /\ UNCHANGED pc
       ELSE pc' = "settle" /\ UNCHANGED <<iter, current_transition>>
    /\ UNCHANGED <<check, finals, start, end, visited, open, first_next, reached_final, results>>

Interrupt ==
    /\ pc = "expand"
    /\ pc' = "interrupted"
    /\ UNCHANGED <<check, finals, start, end, visited, open, iter, current_transition, first_next,
                   reached_final, results>>

Search == StartMissing \/ ReturnStart \/ EnterLoop \/ Exhausted \/ Explore
          \/ Visit \/ NextTransition \/ Settle

Next == Search \/ Interrupt \/ \E n \in NodeIds : \E e \in EndsOf(check) : Reset(n, e)
=============================================================================
