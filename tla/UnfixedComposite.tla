-------------------------- MODULE UnfixedComposite --------------------------
(***************************************************************************)
(* Paths::AnyShortest::UnfixedComposite, for a path with neither end       *)
(* known: an enumeration (BFSEnum) from every node that has an edge of the *)
(* type of a first transition.  Of BFSEnum it is used here what it         *)
(* promises: the answers from a node, each once, and then false.           *)
(***************************************************************************)
EXTENDS ProductGraph

\* What BFSEnum hands out from each node: Answers of ProductGraph, given as a
\* constant so that it is worked out once.
CONSTANT AnswersFrom

VARIABLES
    start,              \* the start node in the binding
    visited,            \* the nodes that were a start node
    iter,               \* the nodes start_iter has not come to yet
    current_transition, \* current_start_transition, from 1
    path_enum,          \* "none": nullptr; "made"
    reached_final,      \* the nodes path_enum handed out
    results,            \* the pairs of nodes handed to the parent, in order
    pc                  \* "ready", "done": between calls; "loop": path_enum is asked;
                        \* "starts": a start node is looked for; "undefined"; "interrupted"

NoStart == "no start"
Outgoing == Connections[StartState]

\* The index has the edges of a type by their first node, whichever end the
\* transition begins at.
FromOf(t) == {e.from : e \in {x \in Edges : x.type = t.type}}

Init ==
    /\ current_transition = 1
    /\ \/ /\ FromOf(Outgoing[1]) = {}
          /\ start = NoStart /\ visited = {} /\ iter = {} /\ path_enum = "none"
       \/ \E n \in FromOf(Outgoing[1]) :
              /\ start = n /\ visited = {n} /\ iter = FromOf(Outgoing[1]) \ {n}
              /\ path_enum = "made"
    /\ reached_final = {} /\ results = <<>>
    /\ pc = "ready"

\* reset() drops path_enum before it resets it.
Reset ==
    /\ pc \in {"ready", "done"}
    /\ current_transition' = 1
    /\ iter' = {} /\ path_enum' = "none"
    /\ IF FromOf(Outgoing[1]) = {}
       THEN pc' = "ready" /\ reached_final' = {} /\ results' = <<>>
       ELSE pc' = "undefined" /\ UNCHANGED <<reached_final, results>>
    /\ UNCHANGED <<start, visited>>

Call ==
    /\ pc \in {"ready", "done"}
    /\ pc' = IF path_enum = "none" THEN "starts" ELSE "loop"
    /\ UNCHANGED <<start, visited, iter, current_transition, path_enum, reached_final, results>>

\* path_enum->next() returns true.
Found ==
    /\ pc = "loop"
    /\ \E n \in AnswersFrom[start] \ reached_final :
           /\ reached_final' = reached_final \cup {n}
           /\ results' = Append(results, <<start, n>>)
    /\ pc' = "ready"
    /\ UNCHANGED <<start, visited, iter, current_transition, path_enum>>

NoneLeft ==
    /\ pc = "loop" /\ reached_final = AnswersFrom[start]
    /\ pc' = "starts"
    /\ UNCHANGED <<start, visited, iter, current_transition, path_enum, reached_final, results>>

\* path_enum->reset() for a new start node.
NextStart ==
    /\ pc = "starts"
    /\ \E n \in iter :
           /\ iter' = iter \ {n}
           /\ IF n \in visited
              THEN UNCHANGED <<start, visited, reached_final, pc>>
              ELSE /\ start' = n /\ visited' = visited \cup {n}
                   /\ reached_final' = {}
                   /\ pc' = IF path_enum = "none" THEN "undefined" ELSE "loop"
    /\ UNCHANGED <<current_transition, path_enum, results>>

NextTransition ==
    /\ pc = "starts" /\ iter = {} /\ current_transition < Len(Outgoing)
    /\ current_transition' = current_transition + 1
    /\ iter' = FromOf(Outgoing[current_transition + 1])
    /\ UNCHANGED <<start, visited, path_enum, reached_final, results, pc>>

Exhausted ==
    /\ pc = "starts" /\ iter = {} /\ current_transition >= Len(Outgoing)
    /\ current_transition' = Len(Outgoing) + 1
    /\ pc' = "done"
    /\ UNCHANGED <<start, visited, iter, path_enum, reached_final, results>>

Interrupt ==
    /\ pc \in {"loop", "starts"}
    /\ pc' = "interrupted"
    /\ UNCHANGED <<start, visited, iter, current_transition, path_enum, reached_final, results>>

Search == Call \/ Found \/ NoneLeft \/ NextStart \/ NextTransition \/ Exhausted
Next == Search \/ Interrupt \/ Reset

Running == pc \in {"loop", "starts"}

-----------------------------------------------------------------------------
\* All pairs of a start node and a node it reaches, if no first transition is
\* inverse and no path is empty.
AnswersTo == [i \in {"all"} |-> {pair \in Nodes \X Nodes : pair[2] \in AnswersFrom[pair[1]]}]

\* No pair is handed out twice, though a node has edges of several first types.
NoneTwice == \A i, j \in DOMAIN results : results[i] = results[j] => i = j

Handed == {results[i] : i \in DOMAIN results}

Status == IF pc \in {"interrupted", "undefined"} THEN "aborted"
          ELSE IF current_transition > Len(Outgoing) THEN "done" ELSE "open"
=============================================================================
