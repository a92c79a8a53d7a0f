---------------------------- MODULE MCPathSearch ----------------------------
(***************************************************************************)
(* Instances of PathSearch for TLC: a graph and an automaton for each      *)
(* family.                                                                 *)
(***************************************************************************)
EXTENDS PathSearch

Edge(e, f, t, to) == [edge |-> e, from |-> f, type |-> t, to |-> to]
Tr(to, t, inv) == [to |-> to, type |-> t, inverse |-> inv]
graph(nodes, edges, final, connections) ==
    [node_ids |-> nodes \cup {"missing"}, nodes |-> nodes, types |-> {"a", "b"}, edges |-> edges,
     states |-> 0 .. 2, start |-> 0, final |-> final, connections |-> connections]

\* Cycles and parallel edges; an automaton with two final states, an inverse
\* transition and a dead end: (a|^a) b* a?
MCAnyGraph ==
    graph({"n1", "n2", "n3"},
          {Edge(1, "n1", "a", "n2"), Edge(2, "n1", "a", "n2"), Edge(3, "n2", "b", "n1"),
           Edge(4, "n2", "b", "n2"), Edge(5, "n1", "a", "n3"), Edge(6, "n3", "a", "n2")},
          {0, 2},
          [q \in 0 .. 2 |->
              CASE q = 0 -> <<Tr(1, "a", FALSE), Tr(1, "a", TRUE)>>
                [] q = 1 -> <<Tr(2, "a", FALSE), Tr(1, "b", FALSE)>>
                [] q = 2 -> <<>>])

\* Parallel, opposite and looping edges, and an automaton with a cycle, an inverse
\* transition and a dead end: nodes are reached by trails and simple paths of several
\* lengths, some of which close a cycle.
MCPathGraph ==
    graph({"n1", "n2", "n3"},
          {Edge(1, "n1", "a", "n2"), Edge(2, "n1", "a", "n2"), Edge(3, "n2", "a", "n1"),
           Edge(4, "n2", "b", "n3"), Edge(5, "n1", "a", "n3"), Edge(6, "n3", "a", "n3")},
          {1, 2},
          [q \in 0 .. 2 |->
              CASE q = 0 -> <<Tr(1, "a", FALSE), Tr(2, "b", FALSE)>>
                [] q = 1 -> <<Tr(1, "a", FALSE), Tr(0, "b", FALSE), Tr(2, "a", TRUE)>>
                [] q = 2 -> <<>>])

\* A diamond from n1 to n4 with a rung, parallel edges and a way back, and an
\* automaton whose two final states are reached at different distances.
MCShortestGraph ==
    graph({"n1", "n2", "n3", "n4"},
          {Edge(1, "n1", "a", "n2"), Edge(2, "n1", "a", "n3"), Edge(3, "n2", "a", "n4"),
           Edge(4, "n2", "a", "n4"), Edge(5, "n3", "a", "n4"), Edge(6, "n4", "a", "n1"),
           Edge(7, "n3", "b", "n1"), Edge(8, "n3", "b", "n2"), Edge(9, "n2", "a", "n3")},
          {0, 1},
          [q \in 0 .. 2 |->
              CASE q = 0 -> <<Tr(0, "a", FALSE), Tr(1, "b", FALSE)>>
                [] q = 1 -> <<Tr(0, "b", TRUE), Tr(2, "a", FALSE)>>
                [] q = 2 -> <<>>])

\* First transitions of three types, one of which has no edge, from nodes that
\* have edges of two.
MCUnfixedGraph ==
    [graph({"n1", "n2", "n3"},
           {Edge(1, "n1", "a", "n2"), Edge(2, "n1", "a", "n2"), Edge(3, "n2", "b", "n1"),
            Edge(4, "n3", "b", "n2"), Edge(5, "n1", "b", "n1")},
           {1, 2},
           [q \in 0 .. 2 |->
               CASE q = 0 -> <<Tr(1, "a", FALSE), Tr(2, "c", FALSE), Tr(2, "b", FALSE)>>
                 [] q = 1 -> <<Tr(0, "b", FALSE)>>
                 [] q = 2 -> <<Tr(1, "a", FALSE)>>])
     EXCEPT !.types = {"a", "b", "c"}]

\* Every class of operators for trails and simple paths.
MCKinds ==
    LET classes(walks, cyclic) ==
            [walks : {walks}, answers : {"all", "any", "shortest"}, check : BOOLEAN, cyclic : cyclic]
    IN  classes("trails", {FALSE}) \cup classes("simple", BOOLEAN)

\* Some input of the instance has an answer. (To compare the function TLC has to work
\* it out, once and for all states.)
ASSUME AnswersAssumption == Answers # [i \in DOMAIN Answers |-> {}]
=============================================================================
