----------------------------- MODULE PathSearch -----------------------------
(***************************************************************************)
(* The path operators but AnyShortest, each over a graph and an automaton  *)
(* of its family: those that look for any path, those that look for trails *)
(* and simple paths, those for shortest paths and their counts, and the    *)
(* one that knows neither end.                                             *)
(***************************************************************************)
EXTENDS Naturals, Sequences, FiniteSets

CONSTANTS
    AnyGraph, PathGraph, ShortestGraph, UnfixedGraph,   \* records, of the constants of ProductGraph
    AnyKinds, PathKinds, Automata, BlockSize, CountBits

VARIABLES
    family,             \* "any", "paths", "shortest" or "unfixed"
    start, end, open, first_next, results, pc,
    class, reached_final, iter, current_transition, at_end,     \* of several families
    visited, end_object_id,                                     \* of "any" and "shortest"
    breadth_first, current_index,                               \* of "paths"
    counting, check, finals, current, solution_found, optimal_distances,    \* of "shortest"
    path_enum                                                   \* of "unfixed"

any_vars == <<class, reached_final, iter, current_transition, visited, end_object_id>>
path_vars == <<class, reached_final, iter, current_transition, at_end, breadth_first, current_index>>
shortest_vars == <<reached_final, iter, current_transition, at_end, visited, counting, check, finals,
                   current, solution_found, optimal_distances>>
vars == <<family, start, end, open, first_next, results, pc, any_vars, path_vars, shortest_vars,
          path_enum>>

AnyPath == INSTANCE AnyOperators WITH
    Classes <- AnyKinds, NodeIds <- AnyGraph.node_ids, Nodes <- AnyGraph.nodes,
    Types <- AnyGraph.types, Edges <- AnyGraph.edges, States <- AnyGraph.states,
    StartState <- AnyGraph.start, FinalStates <- AnyGraph.final, Connections <- AnyGraph.connections
Paths == INSTANCE PathOperators WITH
    Classes <- PathKinds, NodeIds <- PathGraph.node_ids, Nodes <- PathGraph.nodes,
    Types <- PathGraph.types, Edges <- PathGraph.edges, States <- PathGraph.states,
    StartState <- PathGraph.start, FinalStates <- PathGraph.final, Connections <- PathGraph.connections
Shortest == INSTANCE ShortestOperators WITH
    NodeIds <- ShortestGraph.node_ids, Nodes <- ShortestGraph.nodes,
    Types <- ShortestGraph.types, Edges <- ShortestGraph.edges, States <- ShortestGraph.states,
    StartState <- ShortestGraph.start, FinalStates <- ShortestGraph.final,
    Connections <- ShortestGraph.connections
Origins == INSTANCE ProductGraph WITH
    NodeIds <- UnfixedGraph.node_ids, Nodes <- UnfixedGraph.nodes,
    Types <- UnfixedGraph.types, Edges <- UnfixedGraph.edges, States <- UnfixedGraph.states,
    StartState <- UnfixedGraph.start, FinalStates <- UnfixedGraph.final,
    Connections <- UnfixedGraph.connections
UnfixedAnswers == Origins!Answers
Unfixed == INSTANCE UnfixedComposite WITH
    AnswersFrom <- UnfixedAnswers,
    NodeIds <- UnfixedGraph.node_ids, Nodes <- UnfixedGraph.nodes,
    Types <- UnfixedGraph.types, Edges <- UnfixedGraph.edges, States <- UnfixedGraph.states,
    StartState <- UnfixedGraph.start, FinalStates <- UnfixedGraph.final,
    Connections <- UnfixedGraph.connections

ASSUME GraphAssumption ==
    /\ AnyPath!GraphAssumption /\ Paths!GraphAssumption /\ Shortest!GraphAssumption
    /\ Unfixed!GraphAssumption
    /\ Paths!UniqueEdges
ASSUME AutomatonAssumption ==
    /\ AnyPath!AutomatonAssumption /\ Paths!AutomatonAssumption /\ Shortest!AutomatonAssumption
    /\ Unfixed!AutomatonAssumption
    /\ Paths!Deterministic /\ Shortest!Deterministic
ASSUME FiniteAssumption ==
    /\ AnyPath!FiniteAssumption /\ Paths!FiniteAssumption /\ Shortest!FiniteAssumption
    /\ Unfixed!FiniteAssumption
ASSUME ClassAssumption ==
    /\ AnyKinds \subseteq AnyPath!AllClasses
    /\ PathKinds \subseteq Paths!QueueClasses
    /\ Automata \subseteq SUBSET ShortestGraph.final
\* The planner refuses a nullable path.
ASSUME UnfixedAssumption ==
    /\ UnfixedGraph.start \notin UnfixedGraph.final
    /\ UnfixedGraph.connections[UnfixedGraph.start] # <<>>
ASSUME BoundsAssumption == BlockSize \in Nat \ {0} /\ CountBits \in Nat \ {0}

-----------------------------------------------------------------------------
NoClass == class = "none"
NoneOfPaths == breadth_first = FALSE /\ current_index = 0
NoneOfShortest ==
    /\ counting = FALSE /\ check = FALSE /\ finals = {}
    /\ current = <<>> /\ solution_found = <<>> /\ optimal_distances = <<>>

NoneOfAny == NoClass /\ end_object_id = "none"
NotStarted == end = "none" /\ open = <<>> /\ first_next = FALSE /\ at_end = TRUE

Init ==
    /\ \/ /\ family = "any" /\ AnyPath!AnyInit
          /\ at_end = TRUE /\ NoneOfPaths /\ NoneOfShortest
       \/ /\ family = "paths" /\ Paths!Init
          /\ visited = <<>> /\ end_object_id = "none" /\ NoneOfShortest
       \/ family = "shortest" /\ Shortest!Init /\ NoneOfAny /\ NoneOfPaths
       \/ /\ family = "unfixed" /\ Unfixed!Init
          /\ NoneOfAny /\ NoneOfPaths /\ NoneOfShortest /\ NotStarted
    /\ family # "unfixed" => path_enum = "none"

OfAny(A) ==
    /\ family = "any" /\ A
    /\ UNCHANGED <<family, at_end, breadth_first, current_index, counting, check, finals, current,
                   solution_found, optimal_distances, path_enum>>
OfPaths(A) ==
    /\ family = "paths" /\ A
    /\ UNCHANGED <<family, visited, end_object_id, counting, check, finals, current,
                   solution_found, optimal_distances, path_enum>>
OfShortest(A) ==
    /\ family = "shortest" /\ A
    /\ UNCHANGED <<family, class, end_object_id, breadth_first, current_index, path_enum>>
OfUnfixed(A) ==
    /\ family = "unfixed" /\ A
    /\ UNCHANGED <<family, class, end, end_object_id, open, first_next, at_end, breadth_first,
                   current_index, counting, check, finals, current, solution_found, optimal_distances>>

Search ==
    \/ OfAny(AnyPath!DfsSearch \/ AnyPath!BfsSearch)
    \/ OfPaths(Paths!Search)
    \/ OfShortest(Shortest!Search)
    \/ OfUnfixed(Unfixed!Search)
Next ==
    \/ OfAny(AnyPath!AnyNext) \/ OfPaths(Paths!Next) \/ OfShortest(Shortest!Next)
    \/ OfUnfixed(Unfixed!Next)

Running ==
    CASE family = "any"      -> AnyPath!Running
      [] family = "paths"    -> Paths!Running
      [] family = "shortest" -> Shortest!Running
      [] family = "unfixed"  -> Unfixed!Running

\* A call runs on the session's own thread: once made, its steps are taken.
FairSpec == Init /\ [][Next]_vars /\ WF_vars(Running /\ Search)

-----------------------------------------------------------------------------
(* Properties                                                              *)

\* The previous pointers of a depth-first stack lead down the stack, and a stack
\* of trails or simple paths is one path, also while the search backtracks: what
\* is printed for an answer is the way the search took to it.
StackIsPath ==
    /\ family = "any" => AnyPath!StackIsPath
    /\ family = "paths" => Paths!StackIsPath

\* A SearchState that left the depth-first stack was expanded completely, unless
\* a check had its answer: leaving the loop half way to hand out an answer loses
\* no neighbour.
ExpandedCompletely == family = "any" => AnyPath!ExpandedCompletely

\* The path BFSCheck hands out for the end node is a shortest one.
ShortestPath == family = "any" => AnyPath!ShortestPath

\* The queue of paths has none twice, the shortest first, and none more than an
\* edge longer than the one being expanded, and what is in it can still grow: no
\* closed cycle and no path that arrived at the end is continued.
QueueOrdered == family = "paths" => Paths!QueueOrdered /\ Paths!QueueGrows

\* Nothing is handed out twice, from whichever of the places that return an answer
\* it comes: no end node by the operators for any path, no path, no pair of
\* nodes, and by those that count no node of a check or of an automaton with one
\* final state.
NoneTwice ==
    CASE family = "any"      -> AnyPath!NoNodeTwice
      [] family = "paths"    -> Paths!NoneTwice
      [] family = "shortest" -> Shortest!LongNoneTwice /\ Shortest!OneCount
      [] family = "unfixed"  -> Unfixed!NoneTwice

\* Between two enumerations no path iterator is left half way, so that the next
\* solution that shares it starts from its first transition.
IteratorsRest == family = "shortest" => Shortest!IteratorsRest

\* What every operator has to hand out, by its family and what it is given.
AnswersOf == [any |-> AnyPath!AnswersTo, paths |-> Paths!Expected,
              shortest |-> Shortest!Expected, unfixed |-> Unfixed!AnswersTo]
Answers ==
    LET answers == AnswersOf
    IN  [i \in UNION {{f} \X DOMAIN answers[f] : f \in DOMAIN answers} |-> answers[i[1]][i[2]]]

\* Until it is reset, interrupted or exhausted an operator hands out the answers to
\* its input and nothing else, and it says that there are no more only when it has
\* handed out all of them, also after any number of resets; the depth-first checks
\* for simple paths may give up before that.
Promise == INSTANCE Enumeration WITH
    Inputs <- DOMAIN Answers,
    Expected <- Answers,
    input <- CASE family = "any"      -> <<"any", <<class, start, end>>>>
               [] family = "paths"    -> <<"paths", <<class, start, end>>>>
               [] family = "shortest" -> <<"shortest", Shortest!Input>>
               [] family = "unfixed"  -> <<"unfixed", "all">>,
    reported <- CASE family = "any"      -> AnyPath!Reported
                  [] family = "paths"    -> Paths!Handed
                  [] family = "shortest" -> Shortest!Handed
                  [] family = "unfixed"  -> Unfixed!Handed,
    status <- CASE family = "any"      -> AnyPath!Status
                [] family = "paths"    -> Paths!Status
                [] family = "shortest" -> Shortest!Status
                [] family = "unfixed"  -> Unfixed!Status
EnumeratesAnswers == Promise!Spec

\* Every call of next() returns or throws.
CallsReturn == Running ~> ~Running
=============================================================================
