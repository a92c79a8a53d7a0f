------------------------------- MODULE Walks -------------------------------
(***************************************************************************)
(* Paths as the trail and simple-path operators keep them: a PathState is  *)
(* a node, the edge that led to it and the direction it was taken in, with *)
(* a pointer to the previous one.  PathStates never change once added, so  *)
(* a pointer to one is the path get_path prints for it.                    *)
(***************************************************************************)
EXTENDS ProductGraph

\* A DFA takes at most one transition for a type and a direction.
Deterministic ==
    \A q \in States : \A i, j \in DOMAIN Connections[q] :
        /\ Connections[q][i].type = Connections[q][j].type
        /\ Connections[q][i].inverse = Connections[q][j].inverse
        => i = j

\* Edges are numbered as they are imported.
UniqueEdges == \A e, f \in Edges : e.edge = f.edge => e = f

NoEdge == 0         \* ObjectId(): the start node was reached by no edge

First(n) == <<[node |-> n, edge |-> NoEdge, inverse |-> FALSE]>>
Extend(path, t, r) == Append(path, [node |-> r.node, edge |-> r.edge, inverse |-> t.inverse])
LastNode(path) == path[Len(path)].node
Distance(path) == Len(path) - 1

\* The backward loop over the path, before an edge or a node is added to it.
is_trail(path, new_edge) == \A i \in DOMAIN path : path[i].edge # new_edge
is_simple_path(path, new_node) == \A i \in DOMAIN path : path[i].node # new_node

\* The entry of open for the start node, and the one that follows w.
FirstSearchState(n) == [path |-> First(n), automaton_state |-> StartState]
NextSearchState(w, t, r) == [path |-> Extend(w.path, t, r), automaton_state |-> t.to]

OutgoingOf(w) == Connections[w.automaton_state]

-----------------------------------------------------------------------------
(* Reference definitions.                                                  *)

IsTrail(path) == \A i, j \in DOMAIN path : path[i].edge = path[j].edge => i = j

IsAcyclic(path) == \A i, j \in DOMAIN path : path[i].node = path[j].node => i = j

\* SIMPLE lets a path return to its first node, and end there.
IsCycle(path) ==
    /\ Len(path) > 1 /\ LastNode(path) = path[1].node
    /\ IsAcyclic(SubSeq(path, 1, Len(path) - 1))

\* One step further than w, in every way the graph and the automaton allow.
Continuations(w) ==
    UNION {{NextSearchState(w, t, r) : r \in GetIterator(t, LastNode(w.path))} :
               t \in {OutgoingOf(w)[i] : i \in DOMAIN OutgoingOf(w)}}

\* The walks from n all of whose prefixes satisfy Keep, up to length k.
WalksUpTo(n, Keep(_), k) ==
    LET walks[i \in 0 .. k] ==
            IF i = 0 THEN {FirstSearchState(n)}
            ELSE LET shorter == walks[i - 1]
                 IN  shorter \cup {w \in UNION {Continuations(v) : v \in shorter} : Keep(w.path)}
    IN  walks[k]

\* A trail uses no edge twice; a simple path visits no node twice.
TrailPaths(n) ==
    {w.path : w \in {v \in WalksUpTo(n, IsTrail, Cardinality(Edges)) :
                         v.automaton_state \in FinalStates}}

SimplePaths(n, cyclic) ==
    LET acyclic == WalksUpTo(n, IsAcyclic, Cardinality(Nodes))
        closed == {w \in UNION {Continuations(v) : v \in acyclic} : IsCycle(w.path)}
    IN  {w.path : w \in {v \in acyclic \cup IF cyclic THEN closed ELSE {} :
                             v.automaton_state \in FinalStates}}

\* The paths no longer than any other one with the same last node.
ShortestOf(paths) ==
    {p \in paths : \A x \in paths : LastNode(x) = LastNode(p) => Len(p) <= Len(x)}
=============================================================================
