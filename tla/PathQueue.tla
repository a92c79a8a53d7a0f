----------------------------- MODULE PathQueue -----------------------------
(***************************************************************************)
(* The pipeline the breadth-first trail and simple-path operators share:   *)
(* a queue of SearchStates, one iterator for the state at its front, and   *)
(* the blocks of PathStates the paths live in.                             *)
(***************************************************************************)
EXTENDS PathClasses

CONSTANT BlockSize      \* PathStates in a block of Visited: 4096

VARIABLES
    class,              \* of the operator
    start, end,         \* read from the binding by begin() or reset(); end only if Check
    current_index,      \* of Visited: PathStates in use in its last block
    open, iter, at_end, current_transition, first_next,
    reached_final,      \* nodes with a path handed out, and the length of the first one:
                        \* the set reached_final of the Any enumerations, the map
                        \* optimal_distances and the optimal_distance of the others
    results,            \* the paths handed to the parent, in order
    pc                  \* as in AnyShortest; "undefined": the behaviour is not defined

vars == <<class, start, end, current_index, open, iter, at_end, current_transition,
          first_next, reached_final, results, pc>>

Check == class.check
Cyclic == class.cyclic
All == class.answers = "all"
Any == class.answers = "any"
Shortest == class.answers = "shortest"

Current == Head(open)
Outgoing == OutgoingOf(Current)

-----------------------------------------------------------------------------
\* visited.add(): the next slot of the last block, or the first of a new one.
VisitedAdd == current_index' = IF current_index >= BlockSize THEN 1 ELSE current_index + 1

Init ==
    /\ class \in Classes
    /\ start \in NodeIds /\ end \in EndsOf(class)
    /\ current_index = 1
    /\ open = <<FirstSearchState(start)>>
    /\ iter = {} /\ at_end = TRUE
    /\ current_transition = 1
    /\ first_next = TRUE
    /\ reached_final = <<>>
    /\ results = <<>>
    /\ pc = "ready"

StartAt(n, e) ==
    /\ start' = n /\ end' = e
    /\ VisitedAdd
    /\ open' = <<FirstSearchState(n)>>
    /\ iter' = {} /\ at_end' = TRUE
    /\ current_transition' = 1
    /\ first_next' = TRUE
    /\ reached_final' = <<>>
    /\ results' = <<>>
    /\ pc' = "ready"
    /\ UNCHANGED class

\* reset() frees all the blocks of visited but leaves current_index alone, so
\* add() takes blocks.back() of an empty vector unless the last block was full.
Reset(n, e) ==
    /\ pc \in {"ready", "done"}
    /\ IF current_index >= BlockSize
       THEN StartAt(n, e)
       ELSE /\ pc' = "undefined"
            /\ UNCHANGED <<class, start, end, current_index, open, iter, at_end,
                           current_transition, first_next, reached_final, results>>

EnqueueNext(w) == open' = <<Current, w>> \o Tail(open)
Enqueue(w) == open' = Append(open, w)

\* A state without transitions would stay in the queue.
PopExpanded == IF Outgoing = <<>> THEN UNCHANGED open ELSE open' = Tail(open)
Pop == open' = Tail(open)
Clear == open' = <<>>

-----------------------------------------------------------------------------
(* Steps of next() and expand_neighbors() that all the operators share.    *)

StartMissing ==
    /\ pc = "ready" /\ first_next /\ start \notin Nodes
    /\ first_next' = FALSE
    /\ Pop
    /\ pc' = "done"
    /\ UNCHANGED <<class, start, end, current_index, iter, at_end, current_transition,
                   reached_final, results>>

Exhausted ==
    /\ pc = "loop" /\ open = <<>>
    /\ pc' = "done"
    /\ UNCHANGED <<class, start, end, current_index, open, iter, at_end, current_transition,
                   first_next, reached_final, results>>

\* A finished iterator means the front state has not been expanded yet.
ExpandFirst ==
    /\ pc = "loop" /\ open # <<>> /\ at_end
    /\ current_transition' = 1
    /\ IF Outgoing = <<>>
       THEN Pop /\ UNCHANGED <<iter, at_end, pc>>
       ELSE /\ iter' = GetIterator(Outgoing[1], LastNode(Current.path))
            /\ at_end' = FALSE
            /\ pc' = "expand"
            /\ UNCHANGED open
    /\ UNCHANGED <<class, start, end, current_index, first_next, reached_final, results>>

\* The iterator of an expansion in progress would be taken for a finished one.
ExpandResumeAfresh ==
    /\ pc = "loop" /\ open # <<>> /\ ~at_end
    /\ at_end' = TRUE
    /\ UNCHANGED <<class, start, end, current_index, open, iter, current_transition,
                   first_next, reached_final, results, pc>>

ExpandResume ==
    /\ pc = "loop" /\ open # <<>> /\ ~at_end
    /\ pc' = "expand"
    /\ UNCHANGED <<class, start, end, current_index, open, iter, at_end, current_transition,
                   first_next, reached_final, results>>

MoreTransitions == current_transition < Len(Outgoing)

\* iter->next() returned false: take the next transition, or pop the state.
NextTransition ==
    /\ pc = "expand" /\ iter = {}
    /\ current_transition' = current_transition + 1
    /\ IF MoreTransitions
       THEN /\ iter' = GetIterator(Outgoing[current_transition + 1], LastNode(Current.path))
            /\ UNCHANGED <<open, at_end, pc>>
       ELSE /\ at_end' = TRUE
            /\ Pop
            /\ pc' = "loop"
            /\ UNCHANGED iter
    /\ UNCHANGED <<class, start, end, current_index, first_next, reached_final, results>>

Interrupt ==
    /\ pc = "expand"
    /\ pc' = "interrupted"
    /\ UNCHANGED <<class, start, end, current_index, open, iter, at_end, current_transition,
                   first_next, reached_final, results>>

\* next() returns true with this path.
Return(path) == results' = Append(results, path) /\ pc' = "ready"

\* An answer at a new node is remembered; AllShortest keeps to its length.
Reached(path) ==
    IF LastNode(path) \in DOMAIN reached_final THEN reached_final
    ELSE [n \in DOMAIN reached_final \cup {LastNode(path)} |->
             IF n = LastNode(path) THEN Distance(path) ELSE reached_final[n]]

IsOptimal(path) ==
    LastNode(path) \in DOMAIN reached_final => reached_final[LastNode(path)] = Distance(path)

\* A later call, or one whose start state is no solution, enters the loop.
EnterLoop(startDecided) ==
    /\ \/ pc = "ready" /\ (first_next => start \in Nodes /\ ~startDecided)
       \/ pc = "done"
    /\ first_next' = FALSE
    /\ pc' = "loop"
    /\ UNCHANGED <<class, start, end, current_index, open, iter, at_end, current_transition,
                   reached_final, results>>

\* The steps that do not depend on what kind of path is searched for.
Pipeline ==
    StartMissing \/ Exhausted \/ ExpandFirst \/ ExpandResume \/ NextTransition

-----------------------------------------------------------------------------
(* next(): the start node as an answer.  A check of one path, or of the      *)
(* shortest ones, is then at its end.                                       *)

Final(w) == w.automaton_state \in FinalStates

StartIsAnswer == StartState \in FinalStates /\ (Check => start = end)

EnumStart == reached_final' = Reached(First(start)) /\ UNCHANGED open
CheckStart == Clear /\ UNCHANGED reached_final

-----------------------------------------------------------------------------
(* expand_neighbors(): is the path w a record leads to an answer?          *)

AllEnumAnswer(w) == Final(w)
AnyEnumAnswer(w) == Final(w) /\ LastNode(w.path) \notin DOMAIN reached_final
ShortestEnumAnswer(w) == Final(w) /\ IsOptimal(w.path)

\* Once a check of the shortest paths has found one, its queue holds the
\* beginnings of all the others.
StopsGrowingAtOnce == Shortest /\ Check
StopsGrowing == Shortest /\ Check /\ DOMAIN reached_final # {}

-----------------------------------------------------------------------------
(* Trails: AllTrails, AnyTrails and AllShortestTrails.                     *)

SelectsTrails == class.walks = "trails"

AllStart == UNCHANGED <<open, reached_final>>

ReturnTrailStart ==
    /\ SelectsTrails
    /\ pc = "ready" /\ first_next /\ start \in Nodes /\ StartIsAnswer
    /\ first_next' = FALSE
    /\ Return(First(start))
    /\ \/ All /\ AllStart
       \/ ~All /\ ~Check /\ EnumStart
       \/ ~All /\ Check /\ CheckStart
    /\ UNCHANGED <<class, start, end, current_index, iter, at_end, current_transition>>

\* The inner loop of expand_neighbors() keeps looking until w is an answer.
AllCheckAnswer(w) == Final(w) /\ LastNode(w.path) = end
AnyCheckAnswer(w) == Final(w) /\ LastNode(w.path) = end
ShortestCheckAnswer(w) == Final(w) /\ LastNode(w.path) = end /\ IsOptimal(w.path)

IsAnswer(w) ==
    \/ All /\ ~Check /\ AllEnumAnswer(w)
    \/ All /\ Check /\ AllCheckAnswer(w)
    \/ Any /\ ~Check /\ AnyEnumAnswer(w)
    \/ Any /\ Check /\ AnyCheckAnswer(w)
    \/ Shortest /\ ~Check /\ ShortestEnumAnswer(w)
    \/ Shortest /\ Check /\ ShortestCheckAnswer(w)

\* A check of the shortest trails never goes on from the end node.
ShortestCheckSkips(w) ==
    Shortest /\ Check /\ Final(w) /\ LastNode(w.path) = end /\ ~IsOptimal(w.path)

\* What next() does with the answer it got.
TakeTrail(w) ==
    /\ Return(w.path)
    /\ reached_final' = IF All \/ (Any /\ Check) THEN reached_final
                                                         ELSE Reached(w.path)
    /\ IF Any /\ Check THEN Clear
       ELSE IF Shortest /\ Check THEN UNCHANGED open ELSE Enqueue(w)

GoOn(w) ==
    /\ IF StopsGrowing THEN UNCHANGED open ELSE Enqueue(w)
    /\ UNCHANGED <<reached_final, results, pc>>

ExtendsTrail(path, e) == is_trail(path, e)

VisitTrail ==
    /\ SelectsTrails
    /\ pc = "expand"
    /\ \E r \in iter :
         LET w == NextSearchState(Current, Outgoing[current_transition], r)
             extends == ExtendsTrail(Current.path, r.edge)
         IN  /\ iter' = iter \ {r}
             /\ \/ /\ ~extends \/ ShortestCheckSkips(w)
                   /\ UNCHANGED <<current_index, open, reached_final, results, pc>>
                \/ /\ extends /\ ~ShortestCheckSkips(w)
                   /\ VisitedAdd
                   /\ IF IsAnswer(w) THEN TakeTrail(w) ELSE GoOn(w)
    /\ UNCHANGED <<class, start, end, at_end, current_transition, first_next>>

TrailStep == ReturnTrailStart \/ (SelectsTrails /\ EnterLoop(StartIsAnswer)) \/ VisitTrail

-----------------------------------------------------------------------------
(* Simple paths: AllSimple, AnySimple and AllShortestSimple.               *)

SelectsSimple == class.walks = "simple"

AllEnumStart == UNCHANGED <<open, reached_final>>
\* ACYCLIC has no other path from a node to itself.
AllCheckStart == (IF Cyclic THEN UNCHANGED open ELSE Clear) /\ UNCHANGED reached_final

ReturnSimpleStart ==
    /\ SelectsSimple
    /\ pc = "ready" /\ first_next /\ start \in Nodes /\ StartIsAnswer
    /\ first_next' = FALSE
    /\ Return(First(start))
    /\ \/ All /\ ~Check /\ AllEnumStart
       \/ All /\ Check /\ AllCheckStart
       \/ ~All /\ ~Check /\ EnumStart
       \/ ~All /\ Check /\ CheckStart
    /\ UNCHANGED <<class, start, end, current_index, iter, at_end, current_transition>>

\* An ACYCLIC check from a node to itself ends when that node is no answer.
StartIsEnd == Check /\ ~Cyclic /\ start = end

NoAnswerAtEnd ==
    /\ SelectsSimple
    /\ pc = "ready" /\ first_next /\ start \in Nodes /\ ~StartIsAnswer /\ StartIsEnd
    /\ first_next' = FALSE
    /\ Clear
    /\ pc' = "done"
    /\ UNCHANGED <<class, start, end, current_index, iter, at_end, current_transition,
                   reached_final, results>>

-----------------------------------------------------------------------------
(* expand_neighbors(): what becomes of the path w a record leads to.       *)

\* A path that is not simple is still an answer when it closes a cycle.
AllEnumCloses(w) == LastNode(w.path) = start
CheckCloses(w) == start = end /\ LastNode(w.path) = start
AnyEnumCloses(w) == LastNode(w.path) = start /\ start \notin DOMAIN reached_final
ShortestEnumCloses(w) == LastNode(w.path) = start /\ IsOptimal(w.path)
ShortestCheckCloses(w) == CheckCloses(w) /\ IsOptimal(w.path)

ClosesCycle(w) ==
    /\ Cyclic /\ Final(w)
    /\ \/ All /\ ~Check /\ AllEnumCloses(w)
       \/ ~Shortest /\ Check /\ CheckCloses(w)
       \/ Any /\ ~Check /\ AnyEnumCloses(w)
       \/ Shortest /\ ~Check /\ ShortestEnumCloses(w)
       \/ Shortest /\ Check /\ ShortestCheckCloses(w)

\* The enumerations return a final path and also put it in the queue.

EnumAnswer(w) ==
    /\ ~Check
    /\ \/ All /\ AllEnumAnswer(w)
       \/ Any /\ AnyEnumAnswer(w)
       \/ Shortest /\ ShortestEnumAnswer(w)

ReachesEnd(w) == Check /\ LastNode(w.path) = end
CheckAnswer(w) == ReachesEnd(w) /\ Final(w) /\ (Shortest => IsOptimal(w.path))

TakeSimple(w) ==
    /\ Return(w.path)
    /\ reached_final' = IF All \/ (Any /\ Check) THEN reached_final
                                                         ELSE Reached(w.path)

\* A check of one path drops the queue with the answer.
KeepQueue == IF Any /\ Check THEN Clear ELSE UNCHANGED open

\* Once a check of the shortest paths has found one, the queue holds the
\* beginnings of all the others.

VisitSimple ==
    /\ SelectsSimple
    /\ pc = "expand"
    /\ \E r \in iter :
         LET w == NextSearchState(Current, Outgoing[current_transition], r)
             simple == is_simple_path(Current.path, r.node)
         IN  /\ iter' = iter \ {r}
             /\ \/ /\ ~simple /\ ClosesCycle(w)
                   /\ VisitedAdd /\ TakeSimple(w) /\ KeepQueue
                \/ /\ simple /\ CheckAnswer(w)
                   /\ VisitedAdd /\ TakeSimple(w) /\ KeepQueue
                \/ /\ \/ ~simple /\ ~ClosesCycle(w)
                      \/ simple /\ ReachesEnd(w) /\ ~CheckAnswer(w)
                   /\ UNCHANGED <<current_index, open, reached_final, results, pc>>
                \/ /\ simple /\ ~ReachesEnd(w)
                   /\ VisitedAdd
                   /\ IF StopsGrowing THEN UNCHANGED open ELSE Enqueue(w)
                   /\ IF EnumAnswer(w) THEN TakeSimple(w)
                                       ELSE UNCHANGED <<reached_final, results, pc>>
    /\ UNCHANGED <<class, start, end, at_end, current_transition, first_next>>

SimpleStep ==
    \/ ReturnSimpleStart \/ NoAnswerAtEnd \/ VisitSimple
    \/ SelectsSimple /\ EnterLoop(StartIsAnswer \/ StartIsEnd)
==============================================================================
