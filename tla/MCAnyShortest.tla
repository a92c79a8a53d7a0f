--------------------------- MODULE MCAnyShortest ---------------------------
(* A graph with cycles, parallel edges and two ways of different length    *)
(* from n1 to n4, and an automaton with an inverse transition, a state     *)
(* without transitions and two final states: ((a|^a) b* a)?                *)
EXTENDS AnyShortest

MCNodes == {"n1", "n2", "n3", "n4"}
MCNodeIds == MCNodes \cup {"missing"}
MCTypes == {"a", "b"}
Edge(e, f, t, to) == [edge |-> e, from |-> f, type |-> t, to |-> to]
MCEdges == {Edge(1, "n1", "a", "n2"), Edge(2, "n1", "a", "n2"), Edge(3, "n1", "a", "n4"),
            Edge(4, "n4", "b", "n3"), Edge(5, "n3", "b", "n3"), Edge(6, "n2", "b", "n1"),
            Edge(7, "n3", "a", "n4"), Edge(8, "n2", "a", "n4"), Edge(9, "n3", "a", "n1")}
Tr(to, t, inv) == [to |-> to, type |-> t, inverse |-> inv]
MCStates == 0 .. 2
MCConnections == [q \in MCStates |->
    CASE q = 0 -> <<Tr(1, "a", FALSE), Tr(1, "a", TRUE)>>
      [] q = 1 -> <<Tr(2, "a", FALSE), Tr(1, "b", FALSE)>>
      [] q = 2 -> <<>>]
=============================================================================
