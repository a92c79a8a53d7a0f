------------------------- MODULE ShortestOperators -------------------------
(***************************************************************************)
(* The operators for all shortest paths, and for how many there are: one   *)
(* class, which its parent calls, resets and may see interrupted.          *)
(***************************************************************************)
EXTENDS ShortestWalks

CONSTANT CountBits

VARIABLES
    counting,               \* AllShortestCount instead of AllShortest
    check, finals, start, end, visited, open, iter, current_transition, first_next, results, pc,
    current, at_end, solution_found, optimal_distances,     \* unless counting
    reached_final                                           \* if counting

path_vars == <<current, at_end, solution_found, optimal_distances>>

Paths == INSTANCE AllShortest
Counts == INSTANCE ShortestCount

Finding(A) == ~counting /\ A /\ UNCHANGED <<counting, reached_final>>
Counting(A) == counting /\ A /\ UNCHANGED <<counting, path_vars>>

Init ==
    \/ counting = FALSE /\ Paths!Init /\ reached_final = <<>>
    \/ /\ counting = TRUE /\ Counts!Init
       /\ current = <<>> /\ at_end = TRUE /\ solution_found = <<>> /\ optimal_distances = <<>>

Search == Finding(Paths!Search) \/ Counting(Counts!Search)
Next == Finding(Paths!Next) \/ Counting(Counts!Next)

Running == pc \in {"loop", "expand", "enumerate", "settle"}

-----------------------------------------------------------------------------
(* Properties                                                              *)

\* Between two enumerations no path iterator is left half way, so the next
\* solution that shares it starts from its first transition.
IteratorsRest ==
    ~counting /\ solution_found = Paths!NoSolution =>
        \A p \in DOMAIN visited : current[p] = 0

\* The paths are enumerated one by one, none twice, but those of a single edge
\* from the start node.
LongNoneTwice ==
    ~counting =>
        \A i, j \in DOMAIN results :
            results[i] = results[j] /\ Distance(results[i]) > 1 => i = j

\* "returns the count of shortest paths between the start node and each of
\* these reached nodes": one count for each.  An enumeration with several final
\* states may come back to a node.
OneCount ==
    counting /\ (check \/ Cardinality(finals) = 1) =>
        \A i, j \in DOMAIN results : results[i][1] = results[j][1] => i = j

\* How many walks of least length each answer has.
CountsFor ==
    LET walks == WalksFor
    IN  [i \in Inputs |->
            {<<n, Cardinality({p \in walks[i] : LastNode(p) = n})>> :
                 n \in {LastNode(p) : p \in walks[i]}}]

Expected ==
    LET walks == WalksFor
        counts == CountsFor
    IN  [i \in BOOLEAN \X Inputs |-> IF i[1] THEN counts[i[2]] ELSE walks[i[2]]]

\* The first count handed out for a node.
FirstCounts ==
    {results[i] : i \in {k \in DOMAIN results :
                            \A j \in 1 .. k - 1 : results[j][1] # results[k][1]}}

Status == IF pc \in {"interrupted", "undefined"} THEN "aborted"
          ELSE IF open = <<>> THEN "done" ELSE "open"

Input == <<counting, <<check, finals, start, end>>>>

\* The first count of a node is that of all its shortest paths, in whichever of
\* several final states they end.
Handed == IF counting THEN FirstCounts ELSE {results[i] : i \in DOMAIN results}
=============================================================================
