--------------------------- MODULE ShortestWalks ---------------------------
(***************************************************************************)
(* All the walks of least length to each answer, independent of any search.*)
(* Parallel edges make different walks.  What an operator keeps depends on *)
(* whether its automaton has several final states, so the automata differ  *)
(* in theirs.                                                              *)
(***************************************************************************)
EXTENDS Walks

CONSTANT Automata       \* by their sets of final states

AnyWalk(path) == TRUE

\* The greatest distance of an answer from any node.
Longest(final) ==
    LET distance == DistancesTo(final)
        lengths == UNION {{distance[n][a] : a \in DOMAIN distance[n]} : n \in Nodes}
    IN  CHOOSE k \in lengths \cup {0} : \A j \in lengths : j <= k

LeastWalks(n, final, longest) ==
    ShortestOf({w.path : w \in {v \in WalksUpTo(n, AnyWalk, longest) :
                                    v.automaton_state \in final}})

\* By automaton; a walk starts at its first node.
WalksOfLeastLength(automata) ==
    UNION {LET longest == Longest(final)
           IN  {<<final, p>> : p \in UNION {LeastWalks(n, final, longest) : n \in Nodes}} :
           final \in automata}

-----------------------------------------------------------------------------
NoEnd == "no end"
EndsOf(c) == IF c THEN NodeIds ELSE {NoEnd}

\* What an operator can be given: whether it is a check, its automaton, the
\* start and the end node.
Inputs ==
    {i \in BOOLEAN \X Automata \X NodeIds \X (NodeIds \cup {NoEnd}) : i[4] \in EndsOf(i[1])}

\* The walks an input asks for.
WalksFor ==
    LET walks == WalksOfLeastLength(Automata)
    IN  [i \in Inputs |->
            {w[2] : w \in {x \in walks :
                               /\ x[1] = i[2] /\ x[2][1].node = i[3]
                               /\ i[1] => LastNode(x[2]) = i[4]}}]
=============================================================================
