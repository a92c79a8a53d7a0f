---------------------------- MODULE ProductGraph ----------------------------
(***************************************************************************)
(* What every path operator works on: the edges of a quad-model database   *)
(* and the automaton of a regular path query.  A search walks the product  *)
(* of both, from the pair <<start state, start node>>; a pair with a final *)
(* state answers the query with its node.  And what a query answers,       *)
(* independent of any search.                                              *)
(***************************************************************************)
EXTENDS Integers, Sequences, FiniteSets

CONSTANTS
    NodeIds,      \* object ids a query can name
    Nodes,        \* the ids stored in QuadModel::nodes
    Types,        \* edge types
    Edges,        \* the quads: [edge, from, type, to]
    States,       \* states of the RPQ_DFA
    StartState,
    FinalStates,  \* the states with is_final_state
    Connections   \* from_to_connections[q]: the transitions leaving q, in order

Transition == [to : States, type : Types, inverse : BOOLEAN]

ASSUME GraphAssumption ==
    /\ Nodes \subseteq NodeIds
    /\ \A e \in Edges : e.from \in Nodes /\ e.to \in Nodes /\ e.type \in Types

ASSUME AutomatonAssumption ==
    /\ StartState \in States
    /\ FinalStates \subseteq States
    /\ Connections \in [States -> Seq(Transition)]

\* What is stored is finite.
ASSUME FiniteAssumption == IsFiniteSet(States) /\ IsFiniteSet(Nodes) /\ IsFiniteSet(Edges)

-----------------------------------------------------------------------------
\* The template argument MULTIPLE_FINAL the planner instantiates.
MultipleFinal == \E q, r \in FinalStates : q # r

\* A SearchState is identified by its automaton state and node.
SearchStates == States \X NodeIds
Product == States \X Nodes

IsFinal(p) == p[1] \in FinalStates

\* The records an index iterator yields for transition t at node n: the far
\* end of each edge of that type, read in the direction t asks for.  Parallel
\* edges give one record each.
GetIterator(t, n) ==
    IF t.inverse
    THEN {[node |-> e.from, edge |-> e.edge] :
              e \in {x \in Edges : x.type = t.type /\ x.to = n}}
    ELSE {[node |-> e.to, edge |-> e.edge] :
              e \in {x \in Edges : x.type = t.type /\ x.from = n}}

-----------------------------------------------------------------------------
\* q follows from p by one edge matched by one transition.
Step(p, q) ==
    \E i \in DOMAIN Connections[p[1]] :
        LET t == Connections[p[1]][i]
        IN  q[1] = t.to /\ \E r \in GetIterator(t, p[2]) : q[2] = r.node

Origin(n) == <<StartState, n>>

Successors == [p \in Product |-> {q \in Product : Step(p, q)}]

-----------------------------------------------------------------------------
(* What a query answers, independent of any search: the nodes a walk of    *)
(* the product from its origin reaches in a final state, and how long the  *)
(* shortest walk to each of them is.                                       *)

\* The sets of pairs no edge leads out of. (As an image, TLC enumerates them only once.)
ClosedSets ==
    LET successors == Successors
    IN  {S : S \in {X \in SUBSET Product : \A p \in X : successors[p] \subseteq X}}

\* The pairs a walk from each stored node reaches: the least closed set with its origin.
Reachable ==
    LET closed == ClosedSets
    IN  [n \in Nodes |->
            {p \in Product : \A S \in closed : Origin(n) \in S => p \in S}]

\* The nodes that answer the query from each start node.
Answers ==
    LET reachable == Reachable
    IN  [n \in NodeIds |->
            IF n \in Nodes THEN {p[2] : p \in {x \in reachable[n] : IsFinal(x)}} ELSE {}]

-----------------------------------------------------------------------------
\* Pairs at the end of a walk of exactly k steps from n.
WalkEnds(n) ==
    LET successors == Successors
        ends[k \in Nat] == IF k = 0 THEN {Origin(n)}
                           ELSE UNION {successors[p] : p \in ends[k - 1]}
    IN  ends

\* How long the walks are that answer with each node, for a set of final
\* states; none of least length is longer than the product.
DistancesTo(final) ==
    [n \in NodeIds |->
        IF n \notin Nodes THEN <<>>
        ELSE LET ends == WalkEnds(n)
                 at == [k \in 0 .. Cardinality(Product) |->
                           {p[2] : p \in {x \in ends[k] : x[1] \in final}}]
             IN  [a \in UNION {at[k] : k \in DOMAIN at} |->
                     CHOOSE k \in DOMAIN at : a \in at[k] /\ \A j \in 0 .. k - 1 : a \notin at[j]]]

AnswerDistance == DistancesTo(FinalStates)

\* Length of the path a SearchState stands for: the previous pointers
\* SearchState::get_path follows down to the state without one.
Depth(previous) ==
    LET d[p \in DOMAIN previous] == IF previous[p] = <<>> THEN 0 ELSE 1 + d[previous[p]]
    IN  d
=============================================================================
