-------------------------- MODULE AnyShortestCheck --------------------------
(***************************************************************************)
(* Paths::AnyShortest::BFSCheck: one shortest path between two nodes.      *)
(* Its next() never resumes an expansion: it returns once, with the queue  *)
(* empty.                                                                  *)
(***************************************************************************)
EXTENDS ProductGraph

VARIABLES
    start, end,             \* what the binding holds at begin() or reset()
    end_object_id,
    visited,                \* SearchStates with their previous
    open,                   \* BFS queue of pointers into visited
    iter,                   \* records the index iterator has not yielded yet
    current_transition,     \* the one the loop over the front state is at
    first_next,
    results,                \* the SearchStates handed to the parent
    pc                      \* as in AnyShortest

vars == <<start, end, end_object_id, visited, open, iter, current_transition,
          first_next, results, pc>>

Null == <<>>

Front == Head(open)
Outgoing == Connections[Front[1]]

-----------------------------------------------------------------------------
Init ==
    /\ start \in NodeIds /\ end \in NodeIds
    /\ end_object_id = end
    /\ visited = [p \in {Origin(start)} |-> Null]
    /\ open = <<Origin(start)>>
    /\ iter = {} /\ current_transition = 0
    /\ first_next = TRUE
    /\ results = <<>>
    /\ pc = "ready"

Reset(n, e) ==
    /\ pc \in {"ready", "done"}
    /\ start' = n /\ end' = e
    /\ end_object_id' = e
    /\ visited' = [p \in {Origin(n)} |-> Null]
    /\ open' = <<Origin(n)>>
    /\ iter' = {} /\ current_transition' = 0
    /\ first_next' = TRUE
    /\ results' = <<>>
    /\ pc' = "ready"

IsAnswer(p) == IsFinal(p) /\ p[2] = end_object_id

Return(p) == results' = Append(results, p) /\ pc' = "ready" /\ open' = <<>>

StartMissing ==
    /\ pc = "ready" /\ first_next /\ start \notin Nodes
    /\ first_next' = FALSE
    /\ open' = Tail(open)
    /\ pc' = "done"
    /\ UNCHANGED <<start, end, end_object_id, visited, iter, current_transition, results>>

StartIsAnswer ==
    /\ pc = "ready" /\ first_next /\ start \in Nodes /\ IsAnswer(Front)
    /\ first_next' = FALSE
    /\ Return(Front)
    /\ UNCHANGED <<start, end, end_object_id, visited, iter, current_transition>>

EnterLoop ==
    /\ \/ pc = "ready" /\ (first_next => start \in Nodes /\ ~IsAnswer(Front))
       \/ pc = "done"
    /\ first_next' = FALSE
    /\ pc' = "loop"
    /\ UNCHANGED <<start, end, end_object_id, visited, open, iter, current_transition, results>>

Exhausted ==
    /\ pc = "loop" /\ open = <<>>
    /\ pc' = "done"
    /\ UNCHANGED <<start, end, end_object_id, visited, open, iter, current_transition,
                   first_next, results>>

\* The loop over the transitions of the front state begins.
Expand ==
    /\ pc = "loop" /\ open # <<>>
    /\ iter' = {} /\ current_transition' = 0
    /\ pc' = "expand"
    /\ UNCHANGED <<start, end, end_object_id, visited, open, first_next, results>>

PushNext(p) == open' = <<Front, p>> \o Tail(open)
Push(p) == open' = Append(open, p)

Visit ==
    /\ pc = "expand"
    /\ \E r \in iter :
         LET p == <<Outgoing[current_transition].to, r.node>>
         IN  IF p \in DOMAIN visited
             THEN iter' = iter \ {r} /\ UNCHANGED <<visited, open, results, pc>>
             ELSE /\ iter' = iter \ {r}
                  /\ visited' = [x \in DOMAIN visited \cup {p} |->
                                     IF x = p THEN Front ELSE visited[x]]
                  /\ IF IsAnswer(p)
                     THEN Return(p)
                     ELSE Push(p) /\ UNCHANGED <<results, pc>>
    /\ UNCHANGED <<start, end, end_object_id, current_transition, first_next>>

MoreTransitions == current_transition < Len(Outgoing)

Pop == open' = Tail(open)

NextTransition ==
    /\ pc = "expand" /\ iter = {}
    /\ IF MoreTransitions
       THEN /\ current_transition' = current_transition + 1
            /\ iter' = GetIterator(Outgoing[current_transition + 1], Front[2])
            /\ UNCHANGED <<open, pc>>
       ELSE Pop /\ pc' = "loop" /\ UNCHANGED <<iter, current_transition>>
    /\ UNCHANGED <<start, end, end_object_id, visited, first_next, results>>

Interrupt ==
    /\ pc = "expand"
    /\ pc' = "interrupted"
    /\ UNCHANGED <<start, end, end_object_id, visited, open, iter, current_transition,
                   first_next, results>>

Search == StartMissing \/ StartIsAnswer \/ EnterLoop \/ Exhausted
          \/ Expand \/ Visit \/ NextTransition

Next == Search \/ Interrupt \/ \E n, e \in NodeIds : Reset(n, e)
=============================================================================
