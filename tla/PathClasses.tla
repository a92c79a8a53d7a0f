---------------------------- MODULE PathClasses ----------------------------
(***************************************************************************)
(* The trail and simple-path operators and what each of them is asked for. *)
(* The planner picks a class by the semantic of the path, by whether the   *)
(* end node is fixed as well (Check) and by the search mode of the         *)
(* session.                                                                *)
(***************************************************************************)
EXTENDS Walks

CONSTANT Classes

\* answers: all the paths, any one for each end node, or all the shortest ones.
\* cyclic: the template argument CYCLIC, which only simple paths have.
AllTrails == [walks : {"trails"}, answers : {"all"}, check : BOOLEAN, cyclic : {FALSE}]
AnyTrails == [walks : {"trails"}, answers : {"any"}, check : BOOLEAN, cyclic : {FALSE}]
AllShortestTrails ==
    [walks : {"trails"}, answers : {"shortest"}, check : BOOLEAN, cyclic : {FALSE}]
AllSimple == [walks : {"simple"}, answers : {"all"}, check : BOOLEAN, cyclic : BOOLEAN]
AnySimple == [walks : {"simple"}, answers : {"any"}, check : BOOLEAN, cyclic : BOOLEAN]
AllShortestSimple ==
    [walks : {"simple"}, answers : {"shortest"}, check : BOOLEAN, cyclic : BOOLEAN]

\* The shortest paths are only searched for breadth first.
StackClasses == AllTrails \cup AnyTrails \cup AllSimple \cup AnySimple
QueueClasses == StackClasses \cup AllShortestTrails \cup AllShortestSimple

-----------------------------------------------------------------------------
NoEnd == "no end"
EndsOf(c) == IF c.check THEN NodeIds ELSE {NoEnd}

\* What an operator can be given: its class, the start and the end node.
Inputs == {i \in Classes \X NodeIds \X (NodeIds \cup {NoEnd}) : i[3] \in EndsOf(i[1])}

\* The answer a path stands for: itself, or its last node.
AnswerOf(c, path) == IF c.answers = "any" THEN LastNode(path) ELSE path

Expected ==
    LET trails == [n \in Nodes |-> TrailPaths(n)]
        simple == [cyclic \in BOOLEAN |-> [n \in Nodes |-> SimplePaths(n, cyclic)]]
        all(c, n) == IF c.walks = "trails" THEN trails[n] ELSE simple[c.cyclic][n]
    IN  [i \in Inputs |->
            IF i[2] \notin Nodes THEN {}
            ELSE LET c == i[1]
                     paths == {p \in all(c, i[2]) : c.check => LastNode(p) = i[3]}
                 IN  {AnswerOf(c, p) :
                          p \in IF c.answers = "shortest" THEN ShortestOf(paths) ELSE paths}]
=============================================================================
