--------------------------- MODULE PathOperators ---------------------------
(***************************************************************************)
(* The trail and simple-path operators as the planner makes them: one      *)
(* class, searched breadth first or depth first, which its parent calls,   *)
(* resets and may see interrupted.                                         *)
(***************************************************************************)
EXTENDS PathClasses

CONSTANT BlockSize

VARIABLES
    breadth_first,
    class, start, end, open, first_next, reached_final, results, pc,
    current_index, iter, at_end, current_transition     \* if breadth_first

queue_vars == <<current_index, iter, at_end, current_transition>>

Queue == INSTANCE PathQueue
Stack == INSTANCE PathStack

BreadthFirst(A) == breadth_first /\ A /\ UNCHANGED breadth_first
DepthFirst(A) == ~breadth_first /\ A /\ UNCHANGED <<breadth_first, queue_vars>>

Init ==
    \/ breadth_first = TRUE /\ Queue!Init
    \/ /\ breadth_first = FALSE /\ Stack!Init /\ class \in StackClasses
       /\ current_index = 0 /\ iter = {} /\ at_end = TRUE /\ current_transition = 0

Search ==
    \/ BreadthFirst(Queue!Pipeline \/ Queue!TrailStep \/ Queue!SimpleStep)
    \/ DepthFirst(Stack!Pipeline \/ Stack!TrailStep \/ Stack!SimpleStep)

Next ==
    \/ Search
    \/ BreadthFirst(Queue!Interrupt)
    \/ DepthFirst(Stack!Interrupt)
    \/ \E n \in NodeIds : \E e \in EndsOf(class) :
           BreadthFirst(Queue!Reset(n, e)) \/ DepthFirst(Stack!Reset(n, e))

Running == pc \in {"loop", "expand"}

-----------------------------------------------------------------------------
(* Properties                                                              *)

\* The queue holds paths none of which is there twice, the shortest first, and
\* at most one edge longer than the one being expanded: the paths of a node are
\* met in the order of their lengths, which every shortest answer rests on.
QueueOrdered ==
    breadth_first =>
        \A i, j \in DOMAIN open : i < j =>
            /\ open[i] # open[j]
            /\ Len(open[i].path) <= Len(open[j].path)
            /\ Len(open[j].path) <= Len(open[1].path) + 1

\* What is not expanded yet can still grow: it is a trail, or a path without a
\* cycle that has not reached the end node of a check, so that a cycle that was
\* closed, or a path that arrived, is never continued.
QueueGrows ==
    breadth_first =>
        \A i \in DOMAIN open :
            LET path == open[i].path
            IN  IF class.walks = "trails" THEN IsTrail(path)
                ELSE /\ IsAcyclic(path)
                     /\ class.check /\ Len(path) > 1 => LastNode(path) # end

\* The stack is one path of the graph that the query matches a beginning of, a
\* trail or a simple path, also while the search backtracks; only its top may
\* close a cycle.  The frames below the top are the path printed for it.
StackIsPath ==
    ~breadth_first =>
        /\ \A i \in 1 .. Len(open) - 1 :
               LET below == Connections[open[i].automaton_state][open[i].transition]
               IN  /\ open[i + 1].automaton_state = below.to
                   /\ [node |-> open[i + 1].node, edge |-> open[i + 1].edge]
                          \in GetIterator(below, open[i].node)
        /\ LET path == Stack!PathOf(open)
           IN  IF class.walks = "trails" THEN IsTrail(path)
               ELSE IsAcyclic(path) \/ (class.cyclic /\ IsCycle(path))

\* No path is handed out twice, by the Any operators no end node, whichever of
\* the places that return an answer it comes from.
NoneTwice ==
    \A i, j \in DOMAIN results :
        AnswerOf(class, results[i]) = AnswerOf(class, results[j]) => i = j

Handed == {AnswerOf(class, results[i]) : i \in DOMAIN results}

\* The depth-first checks for simple paths may end with paths left.
MayGiveUp == ~breadth_first /\ class.walks = "simple" /\ class.check

\* After a timeout, or once its behaviour is not defined, an operator promises
\* nothing.
Status == IF pc \in {"interrupted", "undefined"} \/ (MayGiveUp /\ open = <<>>) THEN "aborted"
          ELSE IF open = <<>> THEN "done" ELSE "open"
=============================================================================
