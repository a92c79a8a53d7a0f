---------------------------- MODULE AnyOperators -----------------------------
(****************************************************************************)
(* The operators for the semantic ANY other than AnyShortest:               *)
(* Paths::Any::DFSEnum and DFSCheck, depth-first searches for some path to  *)
(* every node, or to a given one, and AnyShortest::BFSCheck, which the      *)
(* planner picks when the end node is fixed.  A stack frame holds a         *)
(* SearchState and the iterator over what can follow it; the paths are the  *)
(* previous pointers of visited, as in AnyShortest.                         *)
(****************************************************************************)
EXTENDS ProductGraph

VARIABLES
    class,          \* "DFSEnum", "DFSCheck", or "DFSCheckVar": a DFSCheck whose end node
                    \* is a variable of the binding and not an object id
    start, end,     \* what the binding holds at begin() or reset(); end only if Check
    end_object_id,
    visited,        \* SearchStates with their previous
    open,           \* the stack, bottom first
    first_next,
    reached_final,  \* nodes reported, kept only by the enumeration with MULTIPLE_FINAL
    results,        \* the SearchStates handed to the parent, in order
    pc              \* as in AnyShortest

vars == <<class, start, end, end_object_id, visited, open, first_next, reached_final, results,
          pc>>

Null == <<>>
Check == class # "DFSEnum"
EndIsVar == class = "DFSCheckVar"

NoEnd == "no end"
EndsOf(c) == IF c = "DFSEnum" THEN {NoEnd} ELSE NodeIds

\* A new frame has a NullIndexIterator, which is finished.
Frame(p) == [state |-> p, transition |-> 1, iter |-> {}, at_end |-> TRUE]

Top == open[Len(open)]
TopConnections == Connections[Top.state[1]]

Pop == open' = SubSeq(open, 1, Len(open) - 1)

-----------------------------------------------------------------------------
Init ==
    /\ start \in NodeIds /\ end \in EndsOf(class)
    /\ end_object_id = end
    /\ visited = [p \in {Origin(start)} |-> Null]
    /\ open = <<Frame(Origin(start))>>
    /\ first_next = TRUE
    /\ reached_final = {}
    /\ results = <<>>
    /\ pc = "ready"

\* DFSCheck::reset() reads the start node from the binding again, but not the
\* end node.
Reset(n, e) ==
    /\ pc \in {"ready", "done"}
    /\ start' = n
    /\ end' = IF EndIsVar THEN e ELSE end
    /\ visited' = [p \in {Origin(n)} |-> Null]
    /\ open' = <<Frame(Origin(n))>>
    /\ first_next' = TRUE
    /\ reached_final' = {}
    /\ results' = <<>>
    /\ pc' = "ready"
    /\ UNCHANGED <<class, end_object_id>>

Return(p) == results' = Append(results, p) /\ pc' = "ready"

\* What makes a SearchState an answer, by class.
EnumAnswer(p) == IsFinal(p) /\ (MultipleFinal => p[2] \notin reached_final)
CheckAnswer(p) == IsFinal(p) /\ p[2] = end_object_id

IsAnswer(p) == IF Check THEN CheckAnswer(p) ELSE EnumAnswer(p)

\* The enumeration goes on from an answer, the check empties its stack.
TakeAnswer(p, stack) ==
    /\ Return(p)
    /\ reached_final' = IF ~Check /\ MultipleFinal THEN reached_final \cup {p[2]}
                                                   ELSE reached_final
    /\ open' = IF Check THEN <<>> ELSE stack

-----------------------------------------------------------------------------
(* next()                                                                  *)

StartMissing ==
    /\ pc = "ready" /\ first_next /\ start \notin Nodes
    /\ first_next' = FALSE
    /\ Pop
    /\ pc' = "done"
    /\ UNCHANGED <<class, start, end, end_object_id, visited, reached_final, results>>

StartIsAnswer ==
    /\ pc = "ready" /\ first_next /\ start \in Nodes /\ IsAnswer(Top.state)
    /\ first_next' = FALSE
    /\ TakeAnswer(Top.state, open)
    /\ UNCHANGED <<class, start, end, end_object_id, visited>>

EnterLoop ==
    /\ \/ pc = "ready" /\ (first_next => start \in Nodes /\ ~IsAnswer(Top.state))
       \/ pc = "done"
    /\ first_next' = FALSE
    /\ pc' = "loop"
    /\ UNCHANGED <<class, start, end, end_object_id, visited, open, reached_final, results>>

Exhausted ==
    /\ pc = "loop" /\ open = <<>>
    /\ pc' = "done"
    /\ UNCHANGED <<class, start, end, end_object_id, visited, open, first_next, reached_final, results>>

-----------------------------------------------------------------------------
(* expand_neighbors() on the frame on top                                  *)

SetIter(stack) ==
    LET top == stack[Len(stack)]
        t == Connections[top.state[1]][top.transition]
    IN  [stack EXCEPT ![Len(stack)].iter = GetIterator(t, top.state[2]),
                      ![Len(stack)].at_end = FALSE]

ExpandFirst ==
    /\ pc = "loop" /\ open # <<>> /\ Top.at_end
    /\ IF TopConnections = <<>>
       THEN Pop /\ UNCHANGED pc
       ELSE open' = SetIter([open EXCEPT ![Len(open)].transition = 1]) /\ pc' = "expand"
    /\ UNCHANGED <<class, start, end, end_object_id, visited, first_next, reached_final, results>>

ExpandResume ==
    /\ pc = "loop" /\ open # <<>> /\ ~Top.at_end
    /\ pc' = "expand"
    /\ UNCHANGED <<class, start, end, end_object_id, visited, open, first_next, reached_final, results>>

\* A SearchState that was not visited yet is returned to next(), which puts it
\* on the stack and goes on from there unless it is an answer.
PreviousOfBottom(p) == [x \in DOMAIN visited \cup {p} |-> IF x = p THEN Origin(start) ELSE visited[x]]
Insert(p) == [x \in DOMAIN visited \cup {p} |-> IF x = p THEN Top.state ELSE visited[x]]

Visit ==
    /\ pc = "expand"
    /\ \E r \in Top.iter :
         LET p == <<TopConnections[Top.transition].to, r.node>>
             consumed == [open EXCEPT ![Len(open)].iter = @ \ {r}]
             pushed == Append(consumed, Frame(p))
         IN  IF p \in DOMAIN visited
             THEN open' = consumed /\ UNCHANGED <<visited, reached_final, results, pc>>
             ELSE /\ visited' = Insert(p)
                  /\ IF IsAnswer(p)
                     THEN TakeAnswer(p, pushed)
                     ELSE /\ open' = pushed /\ pc' = "loop"
                          /\ UNCHANGED <<reached_final, results>>
    /\ UNCHANGED <<class, start, end, end_object_id, first_next>>

SkipLast == Top.transition + 1 < Len(TopConnections)
MoreTransitions == Top.transition < Len(TopConnections)

NextTransition ==
    /\ pc = "expand" /\ Top.iter = {}
    /\ IF MoreTransitions
       THEN /\ open' = SetIter([open EXCEPT ![Len(open)].transition = @ + 1])
            /\ UNCHANGED pc
       ELSE Pop /\ pc' = "loop"
    /\ UNCHANGED <<class, start, end, end_object_id, visited, first_next, reached_final, results>>

Interrupt ==
    /\ pc = "expand"
    /\ pc' = "interrupted"
    /\ UNCHANGED <<class, start, end, end_object_id, visited, open, first_next, reached_final, results>>

Search == StartMissing \/ StartIsAnswer \/ EnterLoop \/ Exhausted
          \/ ExpandFirst \/ ExpandResume \/ Visit \/ NextTransition

Next == Search \/ Interrupt \/ \E n \in NodeIds : \E e \in EndsOf(class) : Reset(n, e)

-----------------------------------------------------------------------------
(* With BFSCheck.                                                          *)

CONSTANT Classes
AllClasses == {"DFSEnum", "DFSCheck", "DFSCheckVar", "BFSCheck"}

VARIABLES iter, current_transition      \* of BFSCheck

Bfs == INSTANCE AnyShortestCheck

BfsChosen == class = "BFSCheck"

AnyInit ==
    /\ class \in Classes
    /\ \/ ~BfsChosen /\ Init /\ iter = {} /\ current_transition = 0
       \/ BfsChosen /\ Bfs!Init /\ reached_final = {}

DfsSearch == ~BfsChosen /\ Search /\ UNCHANGED <<iter, current_transition>>
BfsSearch == BfsChosen /\ Bfs!Search /\ UNCHANGED <<class, reached_final>>

AnyNext ==
    \/ ~BfsChosen /\ Next /\ UNCHANGED <<iter, current_transition>>
    \/ BfsChosen /\ Bfs!Next /\ UNCHANGED <<class, reached_final>>

Running == pc \in {"loop", "expand"}

-----------------------------------------------------------------------------
(* Properties                                                              *)

\* The previous pointers of the depth-first stack lead down the stack: the path
\* printed for an answer is the one the search took to it.
StackIsPath ==
    ~BfsChosen =>
        \A i \in 1 .. Len(open) - 1 :
            /\ visited[open[i + 1].state] = open[i].state
            /\ Step(open[i].state, open[i + 1].state)

\* A SearchState that left the stack was expanded completely, unless a check
\* had its answer.
ExpandedCompletely ==
    \A p \in DOMAIN visited : \A q \in Product :
        /\ start \in Nodes
        /\ ~BfsChosen
        /\ ~(Check /\ results # <<>>)
        /\ \A i \in DOMAIN open : open[i].state # p
        /\ Step(p, q)
        => q \in DOMAIN visited

\* The path BFSCheck hands out for the end node is a shortest one.
ShortestPath ==
    BfsChosen =>
        \A i \in DOMAIN results : Depth(visited)[results[i]] = AnswerDistance[start][results[i][2]]

\* No node is reported twice: a check hands out one path, even when the parent
\* calls next() again.
NoNodeTwice ==
    \A i, j \in DOMAIN results : results[i][2] = results[j][2] => i = j

Reported == {results[i][2] : i \in DOMAIN results}

Inputs == {i \in Classes \X NodeIds \X (NodeIds \cup {NoEnd}) : i[3] \in EndsOf(i[1])}

AnswersTo ==
    LET answers == Answers
    IN  [i \in Inputs |-> IF i[1] = "DFSEnum" THEN answers[i[2]] ELSE answers[i[2]] \cap {i[3]}]

Status == IF pc = "interrupted" THEN "aborted"
          ELSE IF open = <<>> THEN "done" ELSE "open"
==============================================================================
