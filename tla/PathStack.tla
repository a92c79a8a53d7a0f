----------------------------- MODULE PathStack -----------------------------
(***************************************************************************)
(* The pipeline the depth-first trail and simple-path operators share: a   *)
(* stack whose frames hold an automaton state, a graph step and the        *)
(* iterator over what can follow.  prev_state points to the frame below,   *)
(* so the path of a frame is the stack up to it.                           *)
(***************************************************************************)
EXTENDS PathClasses

VARIABLES
    class,              \* of the operator
    start, end,         \* read from the binding by begin() or reset(); end only if Check
    open,               \* the stack, bottom first
    first_next,
    reached_final,      \* nodes with a path handed out, kept by the Any enumerations
    results,            \* the paths handed to the parent, in order
    pc                  \* as in AnyShortest

vars == <<class, start, end, open, first_next, reached_final, results, pc>>

Check == class.check
Cyclic == class.cyclic
Any == class.answers = "any"

\* A new frame has a finished iterator and is at its first transition.
Frame(q, node, edge, inverse) ==
    [automaton_state |-> q, transition |-> 1, iter |-> {}, at_end |-> TRUE,
     node |-> node, edge |-> edge, inverse |-> inverse]

Top == open[Len(open)]
Pop == open' = SubSeq(open, 1, Len(open) - 1)
Clear == open' = <<>>

TopTransition == Connections[Top.automaton_state][Top.transition]
FrameOf(r) == Frame(TopTransition.to, r.node, r.edge, TopTransition.inverse)

PathOf(stack) ==
    [i \in DOMAIN stack |->
        [node |-> stack[i].node, edge |-> stack[i].edge, inverse |-> stack[i].inverse]]

-----------------------------------------------------------------------------
Init ==
    /\ class \in Classes
    /\ start \in NodeIds /\ end \in EndsOf(class)
    /\ open = <<Frame(StartState, start, NoEdge, FALSE)>>
    /\ first_next = TRUE
    /\ reached_final = {}
    /\ results = <<>>
    /\ pc = "ready"

Reset(n, e) ==
    /\ pc \in {"ready", "done"}
    /\ start' = n /\ end' = e
    /\ open' = <<Frame(StartState, n, NoEdge, FALSE)>>
    /\ first_next' = TRUE
    /\ reached_final' = {}
    /\ results' = <<>>
    /\ pc' = "ready"
    /\ UNCHANGED class

\* next() returns true with the path of this stack.
Return(stack) == results' = Append(results, PathOf(stack)) /\ pc' = "ready"

StartMissing ==
    /\ pc = "ready" /\ first_next /\ start \notin Nodes
    /\ first_next' = FALSE
    /\ Pop
    /\ pc' = "done"
    /\ UNCHANGED <<class, start, end, reached_final, results>>

EnterLoop(startDecided) ==
    /\ \/ pc = "ready" /\ (first_next => start \in Nodes /\ ~startDecided)
       \/ pc = "done"
    /\ first_next' = FALSE
    /\ pc' = "loop"
    /\ UNCHANGED <<class, start, end, open, reached_final, results>>

Exhausted ==
    /\ pc = "loop" /\ open = <<>>
    /\ pc' = "done"
    /\ UNCHANGED <<class, start, end, open, first_next, reached_final, results>>

SetIter(stack) ==
    LET top == stack[Len(stack)]
        t == Connections[top.automaton_state][top.transition]
    IN  [stack EXCEPT ![Len(stack)].iter = GetIterator(t, top.node),
                      ![Len(stack)].at_end = FALSE]

\* expand_neighbors() on the frame on top, unless next() deals with it first.
ExpandFirst(popped) ==
    /\ pc = "loop" /\ open # <<>> /\ ~popped /\ Top.at_end
    /\ IF Connections[Top.automaton_state] = <<>>
       THEN Pop /\ UNCHANGED pc
       ELSE open' = SetIter(open) /\ pc' = "expand"
    /\ UNCHANGED <<class, start, end, first_next, reached_final, results>>

ExpandResume(popped) ==
    /\ pc = "loop" /\ open # <<>> /\ ~popped /\ ~Top.at_end
    /\ pc' = "expand"
    /\ UNCHANGED <<class, start, end, open, first_next, reached_final, results>>

MoreTransitions == Top.transition < Len(Connections[Top.automaton_state])

NextTransition ==
    /\ pc = "expand" /\ Top.iter = {}
    /\ IF MoreTransitions
       THEN /\ open' = SetIter([open EXCEPT ![Len(open)].transition = @ + 1])
            /\ UNCHANGED pc
       ELSE Pop /\ pc' = "loop"
    /\ UNCHANGED <<class, start, end, first_next, reached_final, results>>

Interrupt ==
    /\ pc = "expand"
    /\ pc' = "interrupted"
    /\ UNCHANGED <<class, start, end, open, first_next, reached_final, results>>

\* The record is taken from the iterator of the frame on top.
Consumed(r) == [open EXCEPT ![Len(open)].iter = @ \ {r}]

-----------------------------------------------------------------------------
(* A final state on top of the stack in next(), by class.                   *)

Final(f) == f.automaton_state \in FinalStates
AllEnumAnswer(f) == Final(f)
AllCheckAnswer(f) == Final(f) /\ f.node = end
AnyEnumAnswer(f) == Final(f) /\ f.node \notin reached_final
AnyCheckAnswer(f) == Final(f) /\ f.node = end

IsAnswer(f) ==
    \/ ~Any /\ ~Check /\ AllEnumAnswer(f)
    \/ ~Any /\ Check /\ AllCheckAnswer(f)
    \/ Any /\ ~Check /\ AnyEnumAnswer(f)
    \/ Any /\ Check /\ AnyCheckAnswer(f)

Remember(f) == reached_final' = IF Any /\ ~Check THEN reached_final \cup {f.node}
                                                 ELSE reached_final

ReturnStart ==
    /\ pc = "ready" /\ first_next /\ start \in Nodes /\ IsAnswer(Top)
    /\ first_next' = FALSE
    /\ Remember(Top)
    /\ Return(open)
    /\ UNCHANGED <<class, start, end, open>>

\* The steps that do not depend on what kind of path is searched for.
Pipeline == StartMissing \/ ReturnStart \/ Exhausted \/ NextTransition

-----------------------------------------------------------------------------
(* Trails: AllTrails and AnyTrails.                                        *)

SelectsTrails == class.walks = "trails"

\* AnyTrails::DFSCheck stops at the answer it returned, which it had left on
\* the stack because the path printed for it is in the frames.
AnswerOnTop ==
    /\ Any /\ Check
    /\ Top.node = end /\ Top.automaton_state \in FinalStates

StopAfterAnswer ==
    /\ SelectsTrails
    /\ pc = "loop" /\ open # <<>> /\ AnswerOnTop
    /\ Clear
    /\ pc' = "done"
    /\ UNCHANGED <<class, start, end, first_next, reached_final, results>>

ExtendsTrail(path, e) == is_trail(path, e)

VisitTrail ==
    /\ SelectsTrails
    /\ pc = "expand"
    /\ \E r \in Top.iter :
         LET f == FrameOf(r)
         IN  IF ~ExtendsTrail(PathOf(open), r.edge)
             THEN open' = Consumed(r) /\ UNCHANGED <<reached_final, results, pc>>
             ELSE /\ open' = Append(Consumed(r), f)
                  /\ IF IsAnswer(f)
                     THEN Remember(f) /\ Return(open')
                     ELSE pc' = "loop" /\ UNCHANGED <<reached_final, results>>
    /\ UNCHANGED <<class, start, end, first_next>>

TrailStep ==
    \/ StopAfterAnswer \/ VisitTrail
    \/ SelectsTrails /\ EnterLoop(IsAnswer(Top))
    \/ SelectsTrails /\ ExpandFirst(AnswerOnTop)
    \/ SelectsTrails /\ ExpandResume(AnswerOnTop)

-----------------------------------------------------------------------------
(* Simple paths: AllSimple and AnySimple.                                  *)

SelectsSimple == class.walks = "simple"

\* An ACYCLIC check from a node to itself ends when that node is no answer.
StartIsEnd == Check /\ ~Cyclic /\ start = end

NoAnswerAtEnd ==
    /\ SelectsSimple
    /\ pc = "ready" /\ first_next /\ start \in Nodes /\ ~IsAnswer(Top) /\ StartIsEnd
    /\ first_next' = FALSE
    /\ Clear
    /\ pc' = "done"
    /\ UNCHANGED <<class, start, end, reached_final, results>>

\* A frame that closed a cycle is at an invalid transition: it is dropped.
CycleOnTop == ~Check /\ Cyclic /\ Top.transition > Len(Connections[Top.automaton_state])

DropCycle ==
    /\ SelectsSimple
    /\ pc = "loop" /\ open # <<>> /\ CycleOnTop
    /\ Pop
    /\ UNCHANGED <<class, start, end, first_next, reached_final, results, pc>>

\* A check gives up as soon as its end node is on top of the stack.
AllCheckStops == Top.node = end /\ (Cyclic => Len(open) > 1)
AnyCheckStops == Top.node = end
EndOnTop == Check /\ IF Any THEN AnyCheckStops ELSE AllCheckStops

StopAtEnd ==
    /\ SelectsSimple
    /\ pc = "loop" /\ open # <<>> /\ EndOnTop
    /\ Clear
    /\ pc' = "done"
    /\ UNCHANGED <<class, start, end, first_next, reached_final, results>>

-----------------------------------------------------------------------------
(* expand_neighbors()                                                      *)

\* A path that is not simple is still an answer when it closes a cycle.
AllEnumCloses(f) == f.node = start
AllCheckCloses(f) == start = end /\ f.node = start
AnyEnumCloses(f) == f.node = start /\ start \notin reached_final
AnyCheckCloses(f) == start = end /\ f.node = start

ClosesCycle(f) ==
    /\ Cyclic /\ Final(f)
    /\ \/ ~Any /\ ~Check /\ AllEnumCloses(f)
       \/ ~Any /\ Check /\ AllCheckCloses(f)
       \/ Any /\ ~Check /\ AnyEnumCloses(f)
       \/ Any /\ Check /\ AnyCheckCloses(f)

\* The enumerations leave a closing frame past its last transition.
ClosingFrame(f) ==
    IF Check THEN f ELSE [f EXCEPT !.transition = Len(Connections[f.automaton_state]) + 1]

IsSimple(path, n) == is_simple_path(path, n)

\* expand_neighbors() returns the new frame to next().
Reach(r, f) ==
    /\ open' = Append(Consumed(r), f)
    /\ IF IsAnswer(f) THEN Remember(f) /\ Return(open')
                      ELSE pc' = "loop" /\ UNCHANGED <<reached_final, results>>

VisitSimple ==
    /\ SelectsSimple
    /\ pc = "expand"
    /\ \E r \in Top.iter :
         LET f == FrameOf(r)
             simple == IsSimple(PathOf(open), r.node)
         IN  \/ simple /\ Reach(r, f)
             \/ ~simple /\ ClosesCycle(f) /\ Reach(r, ClosingFrame(f))
             \/ /\ ~simple /\ ~ClosesCycle(f)
                /\ open' = Consumed(r)
                /\ UNCHANGED <<reached_final, results, pc>>
    /\ UNCHANGED <<class, start, end, first_next>>

NotExpanded == CycleOnTop \/ EndOnTop

SimpleStep ==
    \/ NoAnswerAtEnd \/ DropCycle \/ StopAtEnd \/ VisitSimple
    \/ SelectsSimple /\ EnterLoop(IsAnswer(Top) \/ StartIsEnd)
    \/ SelectsSimple /\ ExpandFirst(NotExpanded)
    \/ SelectsSimple /\ ExpandResume(NotExpanded)
==============================================================================
