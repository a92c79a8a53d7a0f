---------------------------- MODULE AnyShortest ----------------------------
(***************************************************************************)
(* Paths::AnyShortest::BFSEnum: for one start node, one shortest path to   *)
(* each node the query reaches.  The operator is a pipeline stage: next()  *)
(* returns after each answer and a later call resumes inside the           *)
(* expansion of the state at the front of the queue.                       *)
(***************************************************************************)
EXTENDS ProductGraph

VARIABLES
    start,              \* the node begin() or reset() read from the binding
    visited,            \* SearchStates by (automaton_state, node_id), with their previous
    open,               \* BFS queue of pointers into visited
    iter,               \* records the index iterator has not yielded yet
    at_end,             \* iter->at_end()
    current_transition,
    first_next,
    reached_final,      \* nodes reported, kept only with MULTIPLE_FINAL
    results,            \* the SearchStates handed to the parent, in order
    pc                  \* "ready": between calls; "loop", "expand": inside next();
                        \* "done": next() returned false; "interrupted": it threw

vars == <<start, visited, open, iter, at_end, current_transition, first_next,
          reached_final, results, pc>>

Null == <<>>    \* the nullptr a start state has as previous

FrontBack == open[Len(open)]
Front == Head(open)
Outgoing == Connections[Front[1]]

Reported == {results[i][2] : i \in DOMAIN results}

-----------------------------------------------------------------------------
\* Both queues are emptied before the new origin goes in.
ResetOpenKeeps(n) == open' = Append(open, Origin(n))
ResetOpen(n) == open' = <<Origin(n)>>

StartAt(n) ==
    /\ start' = n
    /\ visited' = [p \in {Origin(n)} |-> Null]
    /\ ResetOpen(n)
    /\ iter' = {} /\ at_end' = TRUE
    /\ current_transition' = 1
    /\ first_next' = TRUE
    /\ reached_final' = {}
    /\ results' = <<>>
    /\ pc' = "ready"

Init ==
    /\ start \in NodeIds
    /\ visited = [p \in {Origin(start)} |-> Null]
    /\ open = <<Origin(start)>>
    /\ iter = {} /\ at_end = TRUE
    /\ current_transition = 1
    /\ first_next = TRUE
    /\ reached_final = {}
    /\ results = <<>>
    /\ pc = "ready"

\* The parent operator may reset between any two calls of next().
Reset(n) == pc \in {"ready", "done"} /\ StartAt(n)

\* next() returns true with the path that ends in SearchState p.
Return(p) == results' = Append(results, p) /\ pc' = "ready"

\* A SearchState with a final automaton state is an answer; with several
\* final states, only if its node was not reported with another one.
IsAnswerAnyState(p) == IsFinal(p)
IsAnswer(p) == IsFinal(p) /\ (MultipleFinal => p[2] \notin reached_final)

Report(p) == reached_final' = IF MultipleFinal THEN reached_final \cup {p[2]}
                                               ELSE reached_final

PushFront(p) == open' = <<Front, p>> \o Tail(open)
Push(p) == open' = Append(open, p)

PopNothing == UNCHANGED open
Pop == open' = Tail(open)

-----------------------------------------------------------------------------
(* next()                                                                  *)

StartMissing ==
    /\ pc = "ready" /\ first_next /\ start \notin Nodes
    /\ first_next' = FALSE
    /\ Pop
    /\ pc' = "done"
    /\ UNCHANGED <<start, visited, iter, at_end, current_transition, reached_final, results>>

StartIsAnswer ==
    /\ pc = "ready" /\ first_next /\ start \in Nodes /\ StartState \in FinalStates
    /\ first_next' = FALSE
    /\ Report(Front)
    /\ Return(Front)
    /\ UNCHANGED <<start, visited, open, iter, at_end, current_transition>>

EnterLoop ==
    /\ \/ pc = "ready" /\ (first_next => start \in Nodes /\ StartState \notin FinalStates)
       \/ pc = "done"          \* a call after the search is exhausted
    /\ first_next' = FALSE
    /\ pc' = "loop"
    /\ UNCHANGED <<start, visited, open, iter, at_end, current_transition, reached_final, results>>

Exhausted ==
    /\ pc = "loop" /\ open = <<>>
    /\ pc' = "done"
    /\ UNCHANGED <<start, visited, open, iter, at_end, current_transition, first_next, reached_final, results>>

-----------------------------------------------------------------------------
(* expand_neighbors()                                                      *)

\* A finished iterator means the front state has not been expanded yet.
ExpandFirst ==
    /\ pc = "loop" /\ open # <<>> /\ at_end
    /\ current_transition' = 1
    /\ IF Outgoing = <<>>
       THEN Pop /\ UNCHANGED <<iter, at_end, pc>>
       ELSE /\ iter' = GetIterator(Outgoing[1], Front[2])
            /\ at_end' = FALSE
            /\ pc' = "expand"
            /\ UNCHANGED open
    /\ UNCHANGED <<start, visited, first_next, reached_final, results>>

ExpandResumeAtNext ==
    /\ pc = "loop" /\ open # <<>> /\ ~at_end
    /\ pc' = "expand"
    /\ iter' = {}
    /\ UNCHANGED <<start, visited, open, at_end, current_transition, first_next, reached_final, results>>

\* An unfinished one means next() returned in the middle of an expansion.
ExpandResume ==
    /\ pc = "loop" /\ open # <<>> /\ ~at_end
    /\ pc' = "expand"
    /\ UNCHANGED <<start, visited, open, iter, at_end, current_transition, first_next, reached_final, results>>

\* iter->next() yields a record.
Visit ==
    /\ pc = "expand"
    /\ \E r \in iter :
         LET p == <<Outgoing[current_transition].to, r.node>>
         IN  /\ iter' = iter \ {r}
             /\ IF p \in DOMAIN visited
                THEN UNCHANGED <<visited, open, reached_final, results, pc>>
                ELSE /\ visited' = [x \in DOMAIN visited \cup {p} |->
                                        IF x = p THEN Front ELSE visited[x]]
                     /\ Push(p)
                     /\ IF IsAnswer(p)
                        THEN Report(p) /\ Return(p)
                        ELSE UNCHANGED <<reached_final, results, pc>>
    /\ UNCHANGED <<start, at_end, current_transition, first_next>>

MoreTransitions == current_transition < Len(Outgoing)

\* iter->next() returns false: take the next transition, or pop the state.
NextTransition ==
    /\ pc = "expand" /\ iter = {}
    /\ current_transition' = current_transition + 1
    /\ IF MoreTransitions
       THEN /\ iter' = GetIterator(Outgoing[current_transition + 1], Front[2])
            /\ UNCHANGED <<open, at_end, pc>>
       ELSE /\ at_end' = TRUE
            /\ Pop
            /\ pc' = "loop"
            /\ UNCHANGED iter
    /\ UNCHANGED <<start, visited, first_next, reached_final, results>>

\* iter->next() throws InterruptedException after a timeout.
Interrupt ==
    /\ pc = "expand"
    /\ pc' = "interrupted"
    /\ UNCHANGED <<start, visited, open, iter, at_end, current_transition, first_next, reached_final, results>>

Search == EnterLoop \/ StartMissing \/ StartIsAnswer \/ Exhausted
          \/ ExpandFirst \/ ExpandResume \/ Visit \/ NextTransition

Next == Search \/ Interrupt \/ \E n \in NodeIds : Reset(n)

Spec == Init /\ [][Next]_vars

\* A call runs on the session's own thread: once made, its steps are taken.
Running == pc \in {"loop", "expand"}
FairSpec == Spec /\ WF_vars(Running /\ Search)

-----------------------------------------------------------------------------
(* Properties                                                              *)

\* Types; in particular the queue and the results hold no pointer to a
\* SearchState that reset() destroyed.
TypeOK ==
    /\ start \in NodeIds
    /\ DOMAIN visited \subseteq SearchStates
    /\ open \in Seq(SearchStates) /\ results \in Seq(SearchStates)
    /\ \A i \in DOMAIN open : open[i] \in DOMAIN visited
    /\ \A i \in DOMAIN results : results[i] \in DOMAIN visited
    /\ \A r \in iter : r.node \in Nodes
    /\ at_end \in BOOLEAN /\ first_next \in BOOLEAN
    /\ current_transition \in Nat \ {0}
    /\ reached_final \subseteq NodeIds
    /\ pc \in {"ready", "loop", "expand", "done", "interrupted"}

\* Every SearchState but the origin was reached by an edge of the graph and a
\* transition of the automaton from the state its previous pointer names, so
\* the path printed for an answer is one the query matches.
PathsMatch ==
    \A p \in DOMAIN visited :
        IF visited[p] = Null THEN p = Origin(start)
        ELSE visited[p] \in DOMAIN visited /\ Step(visited[p], p)

\* A state that left the queue was expanded completely, however often next()
\* returned in the middle of its expansion.
ExpandedCompletely ==
    \A p \in DOMAIN visited : \A q \in Product :
        /\ start \in Nodes
        /\ \A i \in DOMAIN open : open[i] # p
        /\ Step(p, q)
        => q \in DOMAIN visited

\* No node is reported twice, not even when several final states reach it.
NoNodeTwice ==
    \A i, j \in DOMAIN results : results[i][2] = results[j][2] => i = j

\* The path reported for a node is a shortest one: no shorter walk ends at
\* that node in any final state.
ShortestPaths ==
    \A i \in DOMAIN results :
        Depth(visited)[results[i]] = AnswerDistance[start][results[i][2]]

\* The operator is an enumeration of the answers: each once, in some order,
\* and false is returned only when none is missing.
Status == IF pc = "interrupted" THEN "aborted"
          ELSE IF open = <<>> THEN "done" ELSE "open"

Promise == INSTANCE Enumeration WITH
    Inputs <- NodeIds,
    Expected <- Answers,
    input <- start,
    reported <- Reported,
    status <- Status
EnumeratesAnswers == Promise!Spec

\* Every call of next() returns or throws: no cycle of the graph keeps the
\* search running.
CallsReturn == Running ~> ~Running
=============================================================================
