------------------------- MODULE AnyShortestProofs -------------------------
(***************************************************************************)
(* Proofs about AnyShortest, for every graph and every automaton: it is    *)
(* type correct and refines Enumeration, that is, it reports exactly the   *)
(* nodes the query reaches, none twice.                                    *)
(***************************************************************************)
EXTENDS AnyShortest, BreadthFirst, SequenceTheorems, TLAPS

USE GraphAssumption, AutomatonAssumption

\* The records still to come belong to the transition being explored.
Expanding ==
    /\ at_end => iter = {}
    /\ pc = "expand" => ~at_end
    /\ ~at_end => /\ open # <<>> /\ ~first_next /\ start \in Nodes
                  /\ current_transition \in 1 .. Len(Outgoing)
                  /\ iter \subseteq GetIterator(Outgoing[current_transition], Front[2])

TypeInv ==
    /\ TypeOK
    /\ Expanding
    /\ pc = "done" => open = <<>>
    /\ first_next => open = <<Origin(start)>> /\ at_end /\ pc = "ready"
    /\ ~first_next /\ start \notin Nodes => open = <<>>
    /\ start \in Nodes => DOMAIN visited \subseteq Product

\* Every record of an index leads to a stored node.
LEMMA IteratorNodes ==
    ASSUME NEW t \in Transition, NEW n, NEW r \in GetIterator(t, n)
    PROVE  r.node \in Nodes
BY DEF GetIterator, Transition

LEMMA TransitionType ==
    ASSUME NEW q \in States, NEW i \in 1 .. Len(Connections[q])
    PROVE  Connections[q][i] \in Transition
OBVIOUS

\* What the front of a nonempty queue is, and what remains behind it.
LEMMA QueueFront ==
    ASSUME NEW S, NEW s \in Seq(S), s # <<>>
    PROVE  /\ Head(s) \in S /\ Head(s) = s[1] /\ 1 \in DOMAIN s
           /\ Tail(s) \in Seq(S)
           /\ \A i \in DOMAIN Tail(s) : i + 1 \in DOMAIN s /\ Tail(s)[i] = s[i + 1]
           /\ \A i \in DOMAIN s : i = 1 \/ (i - 1 \in DOMAIN Tail(s) /\ Tail(s)[i - 1] = s[i])
OBVIOUS

LEMMA QueueBack ==
    ASSUME NEW S, NEW s \in Seq(S), NEW x \in S
    PROVE  /\ Append(s, x) \in Seq(S) /\ Append(s, x) # <<>>
           /\ s # <<>> => Head(Append(s, x)) = Head(s)
           /\ \A i \in DOMAIN s : i \in DOMAIN Append(s, x) /\ Append(s, x)[i] = s[i]
           /\ \A i \in DOMAIN Append(s, x) :
                  (i \in DOMAIN s /\ Append(s, x)[i] = s[i])
                      \/ (i = Len(s) + 1 /\ Append(s, x)[i] = x)
           /\ Len(s) + 1 \in DOMAIN Append(s, x) /\ Append(s, x)[Len(s) + 1] = x
           /\ Len(s) + 1 \notin DOMAIN s
<1>1. DOMAIN s = 1 .. Len(s) /\ DOMAIN Append(s, x) = 1 .. Len(s) + 1 /\ Len(s) \in Nat
    BY AppendProperties
<1>2. \A i \in 1 .. Len(s) + 1 : i \in 1 .. Len(s) \/ i = Len(s) + 1
    BY <1>1
<1>3. /\ Len(s) + 1 \in 1 .. Len(s) + 1 /\ Len(s) + 1 \notin 1 .. Len(s)
      /\ \A i \in 1 .. Len(s) : i \in 1 .. Len(s) + 1
    BY <1>1
<1> QED
    BY <1>1, <1>2, <1>3, AppendProperties, HeadTailAppend

LEMMA TailOfOne == ASSUME NEW S, NEW x \in S PROVE Tail(<<x>>) = <<>>
<1>1. <<x>> \in Seq(S) /\ Len(<<x>>) = 1
    OBVIOUS
<1>2. Tail(<<x>>) \in Seq(S) /\ Len(Tail(<<x>>)) = 0
    BY <1>1
<1> QED
    BY <1>2, EmptySeq

LEMMA TypeInit == Init => TypeInv
BY DEF Init, TypeInv, TypeOK, Expanding, Origin, SearchStates, Product

LEMMA TypeStep == TypeInv /\ [Next]_vars => TypeInv'
<1> SUFFICES ASSUME TypeInv, [Next]_vars PROVE TypeInv'
    OBVIOUS
<1> USE DEF TypeInv
<1>0. ASSUME open # <<>>
      PROVE  /\ Front \in SearchStates /\ Front \in DOMAIN visited
             /\ Front[1] \in States
             /\ Tail(open) \in Seq(SearchStates)
             /\ \A i \in DOMAIN Tail(open) : Tail(open)[i] \in DOMAIN visited
    BY <1>0, QueueFront DEF Front, TypeOK, SearchStates
<1>1. CASE StartMissing
  <2>5. open = <<Origin(start)>>
      BY <1>1 DEF StartMissing
  <2>6. open # <<>>
      BY <2>5
  <2>1. open' = <<>>
      BY <1>1, TailOfOne DEF StartMissing, Pop
  <2>2. open' \in Seq(SearchStates) /\ \A i \in DOMAIN open' : open'[i] \in DOMAIN visited'
      BY <1>1, <1>0, <2>6 DEF StartMissing, Pop
  <2>4. TypeOK'
      BY <1>1, <2>2 DEF StartMissing, TypeOK
  <2>3. Expanding'
      BY <1>1 DEF StartMissing, Expanding, TypeOK
  <2> QED
      BY <1>1, <2>1, <2>3, <2>4 DEF StartMissing
<1>2. CASE StartIsAnswer
  <2>1. Front = Origin(start) /\ open # <<>>
    <3>1. open = <<Origin(start)>>
        BY <1>2 DEF StartIsAnswer
    <3> QED
        BY <3>1 DEF Front
  <2>2. Front \in SearchStates /\ Front[2] \in NodeIds
      BY <2>1, <1>0 DEF SearchStates
  <2>3. results' \in Seq(SearchStates) /\ \A i \in DOMAIN results' : results'[i] \in DOMAIN visited
      BY <1>2, <2>1, <2>2, <1>0, QueueBack DEF StartIsAnswer, Return, TypeOK
  <2>4. TypeOK'
      BY <1>2, <2>2, <2>3 DEF StartIsAnswer, Report, Return, TypeOK
  <2> QED
      BY <1>2, <2>4 DEF StartIsAnswer, Return, Expanding
<1>3. CASE EnterLoop
    BY <1>3 DEF EnterLoop, Expanding, Front, Outgoing, TypeOK
<1>4. CASE Exhausted
    BY <1>4 DEF Exhausted, Expanding, Front, Outgoing, TypeOK
<1>5. CASE ExpandFirst
  <2>1. open # <<>> /\ start \in Nodes /\ ~first_next
      BY <1>5 DEF ExpandFirst
  <2>2. CASE Outgoing = <<>>
    <3>1. open' = Tail(open) /\ UNCHANGED <<iter, at_end, pc, results, visited>>
        BY <1>5, <2>2 DEF ExpandFirst, Pop
    <3>2. TypeOK'
        BY <1>5, <1>0, <2>1, <3>1 DEF ExpandFirst, TypeOK
    <3>3. Expanding'
        BY <1>5, <3>1 DEF ExpandFirst, Expanding
    <3> QED
        BY <1>5, <2>1, <3>1, <3>2, <3>3 DEF ExpandFirst
  <2>3. CASE Outgoing # <<>>
    <3>1. Outgoing \in Seq(Transition) /\ 1 \in 1 .. Len(Outgoing)
        BY <2>1, <2>3, <1>0 DEF Outgoing
    <3>2. \A r \in iter' : r.node \in Nodes
        BY <1>5, <2>3, <3>1, IteratorNodes DEF ExpandFirst
    <3>5. /\ UNCHANGED <<start, visited, open, results, reached_final, first_next>>
          /\ at_end' = FALSE /\ pc' = "expand" /\ current_transition' = 1
        BY <1>5, <2>3 DEF ExpandFirst
    <3>3. TypeOK'
      <4>1. at_end' \in BOOLEAN /\ first_next' \in BOOLEAN
          BY <3>5 DEF TypeOK
      <4>2. current_transition' \in Nat \ {0} /\ pc' \in {"ready", "loop", "expand", "done", "interrupted"}
          BY <3>5
      <4> QED
          BY <3>2, <3>5, <4>1, <4>2 DEF TypeOK
    <3>4. Expanding'
        BY <1>5, <2>1, <2>3, <3>1 DEF ExpandFirst, Expanding, Outgoing, Front
    <3> QED
        BY <1>5, <2>1, <2>3, <3>3, <3>4 DEF ExpandFirst
  <2> QED
      BY <2>2, <2>3
<1>6. CASE ExpandResume
    BY <1>6 DEF ExpandResume, Expanding, Front, Outgoing, TypeOK
<1>7. CASE Visit
  <2>1. PICK r \in iter : Visit!2!(r)
      BY <1>7 DEF Visit
  <2> DEFINE p == <<Outgoing[current_transition].to, r.node>>
  <2>2. open # <<>> /\ start \in Nodes /\ ~first_next /\ ~at_end
      BY <1>7 DEF Visit, Expanding
  <2>3. Outgoing \in Seq(Transition) /\ current_transition \in 1 .. Len(Outgoing)
      BY <2>2, <1>0 DEF Outgoing, Expanding
  <2>4. p \in Product /\ p \in SearchStates
    <3>1. Outgoing[current_transition] \in Transition
        BY <2>3
    <3>2. Outgoing[current_transition].to \in States
        BY <3>1 DEF Transition
    <3> QED
        BY <3>2 DEF TypeOK, Product, SearchStates
  <2>5. CASE p \in DOMAIN visited
      BY <1>7, <2>1, <2>2, <2>5 DEF Visit, Expanding, TypeOK, Front, Outgoing
  <2>6. CASE p \notin DOMAIN visited
    <3>1. /\ visited' = [x \in DOMAIN visited \cup {p} |-> IF x = p THEN Front ELSE visited[x]]
          /\ open' = Append(open, p)
          /\ iter' = iter \ {r}
          /\ IF IsAnswer(p) THEN Report(p) /\ Return(p) ELSE UNCHANGED <<reached_final, results, pc>>
        BY <2>1, <2>6 DEF Push
    <3>2. /\ open' \in Seq(SearchStates) /\ open' # <<>> /\ Front' = Front
          /\ \A i \in DOMAIN open' : open'[i] \in DOMAIN visited'
        BY <3>1, <2>2, <2>4, QueueBack DEF TypeOK, Front
    <3>3. /\ results' \in Seq(SearchStates)
          /\ \A i \in DOMAIN results' : results'[i] \in DOMAIN visited'
      <4>1. CASE IsAnswer(p)
        <5>1. results' = Append(results, p) /\ results \in Seq(SearchStates)
            BY <3>1, <4>1 DEF TypeOK, Return
        <5>2. /\ Append(results, p) \in Seq(SearchStates)
              /\ \A i \in DOMAIN Append(results, p) :
                     (i \in DOMAIN results /\ Append(results, p)[i] = results[i])
                         \/ Append(results, p)[i] = p
            BY <5>1, <2>4, QueueBack
        <5> QED
            BY <3>1, <5>1, <5>2 DEF TypeOK
      <4>2. CASE ~IsAnswer(p)
          BY <3>1, <4>2 DEF TypeOK
      <4> QED
          BY <4>1, <4>2
    <3>4. reached_final' \subseteq NodeIds /\ pc' \in {"ready", "expand"}
        BY <3>1, <2>4, <1>7 DEF TypeOK, Report, Return, SearchStates, Visit
    <3>5. DOMAIN visited' \subseteq Product
        BY <3>1, <2>2, <2>4
    <3>6. TypeOK'
        BY <1>7, <3>1, <3>2, <3>3, <3>4, <2>4 DEF TypeOK, Visit
    <3>7. Expanding'
        BY <1>7, <2>2, <2>3, <3>1, <3>2 DEF Expanding, Outgoing, Visit
    <3> QED
        BY <1>7, <2>2, <3>2, <3>4, <3>5, <3>6, <3>7 DEF Visit
  <2> QED
      BY <2>5, <2>6
<1>8. CASE NextTransition
  <2>1. open # <<>> /\ start \in Nodes /\ ~first_next /\ ~at_end
      BY <1>8 DEF NextTransition, MoreTransitions, Expanding
  <2>2. Outgoing \in Seq(Transition) /\ current_transition \in 1 .. Len(Outgoing)
      BY <2>1, <1>0 DEF Outgoing, Expanding
  <2>3. CASE current_transition < Len(Outgoing)
    <3>1. current_transition + 1 \in 1 .. Len(Outgoing)
        BY <2>2, <2>3
    <3>2. \A r \in iter' : r.node \in Nodes
        BY <1>8, <2>2, <2>3, <3>1, IteratorNodes DEF NextTransition, MoreTransitions
    <3>3. TypeOK'
        BY <1>8, <2>3, <3>2 DEF NextTransition, MoreTransitions, TypeOK
    <3>4. Expanding'
        BY <1>8, <2>1, <2>3, <3>1 DEF NextTransition, MoreTransitions, Expanding, Outgoing, Front
    <3> QED
        BY <1>8, <2>1, <2>3, <3>3, <3>4 DEF NextTransition, MoreTransitions
  <2>4. CASE ~(current_transition < Len(Outgoing))
    <3>1. open' = Tail(open) /\ at_end' = TRUE /\ pc' = "loop" /\ iter' = {}
        BY <1>8, <2>4 DEF NextTransition, MoreTransitions, Pop
    <3>2. TypeOK'
        BY <1>8, <1>0, <2>1, <3>1 DEF NextTransition, MoreTransitions, TypeOK
    <3>3. Expanding'
        BY <3>1 DEF Expanding
    <3> QED
        BY <1>8, <2>1, <3>1, <3>2, <3>3 DEF NextTransition, MoreTransitions
  <2> QED
      BY <2>3, <2>4
<1>9. CASE Interrupt
    BY <1>9 DEF Interrupt, Expanding, Front, Outgoing, TypeOK
<1>10. CASE \E n \in NodeIds : Reset(n)
    BY <1>10 DEF Reset, StartAt, ResetOpen, Expanding, TypeOK, Origin, SearchStates, Product
<1>11. CASE UNCHANGED vars
    BY <1>11 DEF vars, Expanding, Front, Outgoing, TypeOK
<1> QED
    BY <1>1, <1>2, <1>3, <1>4, <1>5, <1>6, <1>7, <1>8, <1>9, <1>10, <1>11 DEF Next, Search

\* The operator is type correct; in particular neither its queue nor an answer
\* it handed out refers to a SearchState that reset() destroyed.
THEOREM TypeCorrect == Spec => []TypeOK
<1>1. TypeInv => TypeOK
    BY DEF TypeInv
<1> QED
    BY <1>1, TypeInit, TypeStep, PTL DEF Spec

-----------------------------------------------------------------------------
(* The search: every visited pair is reachable, and a pair whose expansion *)
(* is over has all its successors visited.                                 *)

\* The transitions of the front state explored so far have no unvisited end,
\* except for the records the iterator still holds.
Progress ==
    ~at_end => \A i \in 1 .. current_transition :
        \A r \in GetIterator(Outgoing[i], Front[2]) :
            \/ i = current_transition /\ r \in iter
            \/ <<Outgoing[i].to, r.node>> \in DOMAIN visited

SearchInv ==
    /\ Origin(start) \in DOMAIN visited
    /\ start \in Nodes => DOMAIN visited \subseteq Reachable[start]
    /\ PathsMatch
    /\ ExpandedCompletely
    /\ Progress

LEMMA NotNull == ASSUME NEW p \in SearchStates PROVE p # Null
<1>1. PICK a, b : p = <<a, b>>
    BY DEF SearchStates
<1>2. Len(<<a, b>>) = 2 /\ Len(<<>>) = 0
    OBVIOUS
<1> QED
    BY <1>1, <1>2 DEF Null

\* When the last transition is done, no successor of the front is left to visit.
LEMMA FrontExpanded ==
    ASSUME TypeInv, SearchInv, NextTransition, ~MoreTransitions
    PROVE  /\ open # <<>> /\ start \in Nodes
           /\ \A q \in Product : Step(Front, q) => q \in DOMAIN visited
<1>1. /\ open # <<>> /\ start \in Nodes /\ ~at_end /\ iter = {}
      /\ current_transition \in 1 .. Len(Outgoing)
    BY DEF NextTransition, MoreTransitions, TypeInv, Expanding
<1>2. Front \in SearchStates /\ Front[1] \in States
    BY <1>1, QueueFront DEF Front, TypeInv, TypeOK, SearchStates
<1>3. DOMAIN Outgoing = 1 .. current_transition
    BY <1>1, <1>2 DEF MoreTransitions, Outgoing
<1>4. \A i \in 1 .. current_transition : \A r \in GetIterator(Outgoing[i], Front[2]) :
          <<Outgoing[i].to, r.node>> \in DOMAIN visited
    BY <1>1 DEF SearchInv, Progress
<1>5. ASSUME NEW q \in Product, Step(Front, q) PROVE q \in DOMAIN visited
  <2>1. PICK i \in DOMAIN Outgoing :
            /\ q[1] = Outgoing[i].to
            /\ \E r \in GetIterator(Outgoing[i], Front[2]) : q[2] = r.node
      BY <1>5 DEF Step, Outgoing
  <2>2. PICK r \in GetIterator(Outgoing[i], Front[2]) : q[2] = r.node
      BY <2>1
  <2>3. q = <<Outgoing[i].to, r.node>>
      BY <2>1, <2>2 DEF Product
  <2> QED
      BY <1>3, <1>4, <2>2, <2>3
<1> QED
    BY <1>1, <1>5

LEMMA SearchInit == Init => SearchInv
<1> SUFFICES ASSUME Init PROVE SearchInv
    OBVIOUS
<1>1. DOMAIN visited = {Origin(start)} /\ visited[Origin(start)] = Null
    BY DEF Init
<1>2. open = <<Origin(start)>> /\ open[1] = Origin(start) /\ 1 \in DOMAIN open
    BY DEF Init
<1>3. PathsMatch
    BY <1>1 DEF PathsMatch
<1>4. ExpandedCompletely
    BY <1>1, <1>2 DEF ExpandedCompletely
<1> QED
    BY <1>1, <1>3, <1>4, ReachableOrigin DEF SearchInv, Progress, Init

LEMMA SearchStep == TypeInv /\ SearchInv /\ [Next]_vars => SearchInv'
<1> SUFFICES ASSUME TypeInv, SearchInv, [Next]_vars PROVE SearchInv'
    OBVIOUS
<1>0. ASSUME open # <<>>
      PROVE  /\ Front \in SearchStates /\ Front \in DOMAIN visited /\ Front = open[1]
             /\ Front[1] \in States
             /\ Outgoing \in Seq(Transition)
             /\ \A i \in DOMAIN open : i = 1 \/ (i - 1 \in DOMAIN Tail(open) /\ Tail(open)[i - 1] = open[i])
    BY <1>0, QueueFront DEF Front, TypeInv, TypeOK, SearchStates, Outgoing
\* Actions that change neither visited nor the expansion.
<1>a. ASSUME UNCHANGED <<start, visited, open, iter, at_end, current_transition>>
      PROVE  SearchInv'
    BY <1>a DEF SearchInv, PathsMatch, ExpandedCompletely, Progress, Front, Outgoing
\* Actions that pop a front state that has no unvisited successor.
<1>b. ASSUME UNCHANGED <<start, visited>>, open # <<>>, open' = Tail(open), at_end',
             start \in Nodes => \A q \in Product : Step(Front, q) => q \in DOMAIN visited
      PROVE  SearchInv'
  <2>1. ExpandedCompletely'
    <3> SUFFICES ASSUME start \in Nodes, NEW p \in DOMAIN visited, NEW q \in Product,
                        \A i \in DOMAIN Tail(open) : Tail(open)[i] # p, Step(p, q)
                 PROVE  q \in DOMAIN visited
        BY <1>b DEF ExpandedCompletely
    <3>1. CASE p = Front
        BY <3>1, <1>b
    <3>2. CASE p # Front
      <4>1. \A i \in DOMAIN open : open[i] # p
          BY <1>0, <1>b, <3>2
      <4> QED
          BY <4>1 DEF SearchInv, ExpandedCompletely
    <3> QED
        BY <3>1, <3>2
  <2> QED
      BY <1>b, <2>1 DEF SearchInv, PathsMatch, Progress
<1>1. CASE StartMissing
  <2>1. open # <<>>
    <3>1. open = <<Origin(start)>>
        BY <1>1 DEF StartMissing, TypeInv
    <3> QED
        BY <3>1
  <2> QED
      BY <1>1, <2>1, <1>b DEF StartMissing, Pop, TypeInv
<1>2. CASE StartIsAnswer
    BY <1>2, <1>a DEF StartIsAnswer
<1>3. CASE EnterLoop
    BY <1>3, <1>a DEF EnterLoop
<1>4. CASE Exhausted
    BY <1>4, <1>a DEF Exhausted
<1>5. CASE ExpandFirst
  <2>1. open # <<>> /\ start \in Nodes
      BY <1>5 DEF ExpandFirst, TypeInv
  <2>2. CASE Outgoing = <<>>
    <3>1. \A q \in Product : ~Step(Front, q)
        BY <2>2 DEF Step, Outgoing
    <3> QED
        BY <1>5, <2>1, <2>2, <3>1, <1>b DEF ExpandFirst, Pop
  <2>3. CASE Outgoing # <<>>
    <3>1. /\ UNCHANGED <<start, visited, open>> /\ current_transition' = 1
          /\ iter' = GetIterator(Outgoing[1], Front[2])
        BY <1>5, <2>3 DEF ExpandFirst
    <3>2. Progress'
        BY <3>1 DEF Progress, Front, Outgoing
    <3> QED
        BY <3>1, <3>2 DEF SearchInv, PathsMatch, ExpandedCompletely
  <2> QED
      BY <2>2, <2>3
<1>6. CASE ExpandResume
    BY <1>6, <1>a DEF ExpandResume
<1>7. CASE Visit
  <2>1. PICK r \in iter : Visit!2!(r)
      BY <1>7 DEF Visit
  <2> DEFINE p == <<Outgoing[current_transition].to, r.node>>
  <2>2. /\ open # <<>> /\ start \in Nodes /\ ~at_end
        /\ current_transition \in 1 .. Len(Outgoing)
        /\ r \in GetIterator(Outgoing[current_transition], Front[2])
      BY <1>7 DEF Visit, TypeInv, Expanding
  <2>3. iter' = iter \ {r} /\ UNCHANGED <<start, at_end, current_transition>>
      BY <1>7, <2>1 DEF Visit
  <2>4. CASE p \in DOMAIN visited
    <3>1. UNCHANGED <<visited, open>>
        BY <2>1, <2>4
    <3>2. Progress'
        BY <2>3, <2>4, <3>1 DEF SearchInv, Progress, Front, Outgoing
    <3> QED
        BY <2>3, <3>1, <3>2 DEF SearchInv, PathsMatch, ExpandedCompletely
  <2>5. CASE p \notin DOMAIN visited
    <3>1. /\ visited' = [x \in DOMAIN visited \cup {p} |-> IF x = p THEN Front ELSE visited[x]]
          /\ open' = Append(open, p)
        BY <2>1, <2>5 DEF Push
    <3>2. p \in Product /\ p \in SearchStates
      <4>1. Outgoing[current_transition] \in Transition
          BY <1>0, <2>2
      <4>2. Outgoing[current_transition].to \in States
          BY <4>1 DEF Transition
      <4> QED
          BY <4>2 DEF TypeInv, TypeOK, Product, SearchStates
    <3>3. Step(Front, p)
        BY <1>0, <2>2 DEF Step, Outgoing
    <3>4. /\ Front' = Front /\ Outgoing' = Outgoing
          /\ \A i \in DOMAIN open : i \in DOMAIN open' /\ open'[i] = open[i]
          /\ \E i \in DOMAIN open' : open'[i] = p
      <4>1. /\ Head(Append(open, p)) = Head(open)
            /\ \A i \in DOMAIN open : i \in DOMAIN Append(open, p) /\ Append(open, p)[i] = open[i]
            /\ Len(open) + 1 \in DOMAIN Append(open, p) /\ Append(open, p)[Len(open) + 1] = p
          BY <2>2, <3>2, QueueBack DEF TypeInv, TypeOK
      <4> QED
          BY <3>1, <4>1 DEF Front, Outgoing
    <3>5. PathsMatch'
      <4>1. Front # Null /\ Front \in DOMAIN visited /\ p # Origin(start)
          BY <1>0, <2>2, <2>5, NotNull DEF SearchInv
      <4> QED
          BY <2>3, <3>1, <3>3, <4>1 DEF SearchInv, PathsMatch
    <3>6. DOMAIN visited' \subseteq Reachable[start]
        BY <1>0, <2>2, <3>1, <3>2, <3>3, ReachableStep DEF SearchInv
    <3>7. ExpandedCompletely'
        BY <2>3, <3>1, <3>4 DEF SearchInv, ExpandedCompletely
    <3>8. Progress'
        BY <2>3, <3>1, <3>4 DEF SearchInv, Progress
    <3> QED
        BY <2>3, <3>1, <3>5, <3>6, <3>7, <3>8 DEF SearchInv
  <2> QED
      BY <2>4, <2>5
<1>8. CASE NextTransition
  <2>1. /\ open # <<>> /\ start \in Nodes /\ ~at_end /\ iter = {}
        /\ current_transition \in 1 .. Len(Outgoing)
      BY <1>8 DEF NextTransition, MoreTransitions, TypeInv, Expanding
  <2>2. \A i \in 1 .. current_transition : \A r \in GetIterator(Outgoing[i], Front[2]) :
            <<Outgoing[i].to, r.node>> \in DOMAIN visited
      BY <2>1 DEF SearchInv, Progress
  <2>3. CASE current_transition < Len(Outgoing)
    <3>1. /\ UNCHANGED <<start, visited, open, at_end>>
          /\ current_transition' = current_transition + 1
          /\ iter' = GetIterator(Outgoing[current_transition + 1], Front[2])
        BY <1>8, <2>3 DEF NextTransition, MoreTransitions
    <3>2. \A i \in 1 .. current_transition + 1 : i \in 1 .. current_transition \/ i = current_transition + 1
        BY <2>1
    <3>3. Progress'
        BY <2>2, <3>1, <3>2 DEF Progress, Front, Outgoing
    <3> QED
        BY <3>1, <3>3 DEF SearchInv, PathsMatch, ExpandedCompletely
  <2>4. CASE ~(current_transition < Len(Outgoing))
    <3>1. UNCHANGED <<start, visited>> /\ open' = Tail(open) /\ at_end' = TRUE
        BY <1>8, <2>4 DEF NextTransition, MoreTransitions, Pop
    <3>2. start \in Nodes /\ \A q \in Product : Step(Front, q) => q \in DOMAIN visited
        BY <1>8, <2>4, FrontExpanded DEF MoreTransitions
    <3> QED
        BY <2>1, <3>1, <3>2, <1>b
  <2> QED
      BY <2>3, <2>4
<1>9. CASE Interrupt
    BY <1>9, <1>a DEF Interrupt
<1>10. CASE \E n \in NodeIds : Reset(n)
  <2>1. PICK n \in NodeIds : Reset(n)
      BY <1>10
  <2>2. /\ start' = n /\ DOMAIN visited' = {Origin(n)} /\ visited'[Origin(n)] = Null
        /\ open' = <<Origin(n)>> /\ open'[1] = Origin(n) /\ 1 \in DOMAIN open' /\ at_end' = TRUE
      BY <2>1 DEF Reset, StartAt, ResetOpen
  <2>3. PathsMatch'
      BY <2>2 DEF PathsMatch
  <2>4. ExpandedCompletely'
      BY <2>2 DEF ExpandedCompletely
  <2> QED
      BY <2>2, <2>3, <2>4, ReachableOrigin DEF SearchInv, Progress
<1>11. CASE UNCHANGED vars
    BY <1>11, <1>a DEF vars
<1> QED
    BY <1>1, <1>2, <1>3, <1>4, <1>5, <1>6, <1>7, <1>8, <1>9, <1>10, <1>11 DEF Next, Search

-----------------------------------------------------------------------------
(* The answers: a node is reported when the first SearchState that reaches *)
(* it in a final state is visited, and only then.                          *)

ReportInv ==
    /\ first_next => results = <<>> /\ reached_final = {} /\ DOMAIN visited = {Origin(start)}
    /\ start \notin Nodes => results = <<>>
    /\ MultipleFinal => reached_final = Reported
    /\ \A i \in DOMAIN results : IsFinal(results[i])
    /\ ~first_next /\ start \in Nodes =>
           \A p \in DOMAIN visited : IsFinal(p) => p[2] \in Reported
    /\ NoNodeTwice

LEMMA ReportedEmpty == results = <<>> => Reported = {} /\ NoNodeTwice
BY DEF Reported, NoNodeTwice

\* Handing out a SearchState of a node not reported yet.
LEMMA ReturnNew ==
    ASSUME TypeOK, NoNodeTwice, \A i \in DOMAIN results : IsFinal(results[i]),
           NEW p \in SearchStates, IsFinal(p), p[2] \notin Reported,
           results' = Append(results, p)
    PROVE  /\ Reported' = Reported \cup {p[2]} /\ NoNodeTwice'
           /\ \A i \in DOMAIN results' : IsFinal(results'[i])
<1>1. /\ \A i \in DOMAIN results : i \in DOMAIN results' /\ results'[i] = results[i]
      /\ \A i \in DOMAIN results' :
             (i \in DOMAIN results /\ results'[i] = results[i])
                 \/ (i = Len(results) + 1 /\ results'[i] = p)
      /\ Len(results) + 1 \in DOMAIN results' /\ results'[Len(results) + 1] = p
    BY QueueBack DEF TypeOK
<1>2. Reported' = Reported \cup {p[2]}
    BY <1>1 DEF Reported
<1>3. NoNodeTwice'
  <2> SUFFICES ASSUME NEW i \in DOMAIN results', NEW j \in DOMAIN results',
                      results'[i][2] = results'[j][2]
               PROVE  i = j
      BY DEF NoNodeTwice
  <2>1. \A k \in DOMAIN results : results[k][2] \in Reported
      BY DEF Reported
  <2>2. CASE i \in DOMAIN results /\ j \in DOMAIN results
      BY <1>1, <2>2 DEF NoNodeTwice
  <2>3. CASE ~(i \in DOMAIN results /\ j \in DOMAIN results)
      BY <1>1, <2>1, <2>3
  <2> QED
      BY <2>2, <2>3
<1>4. \A i \in DOMAIN results' : IsFinal(results'[i])
    BY <1>1
<1> QED
    BY <1>2, <1>3, <1>4

\* An unvisited pair that IsAnswer accepts has a node not reported yet: with one
\* final state the node was never reached in it, with several reached_final says so.
LEMMA AnswerIsNew ==
    ASSUME TypeInv, SearchInv, ReportInv, NEW p \in SearchStates,
           p \notin DOMAIN visited, IsAnswer(p)
    PROVE  p[2] \notin Reported
<1>1. CASE MultipleFinal
    BY <1>1 DEF IsAnswer, ReportInv
<1>2. CASE ~MultipleFinal
  <2> SUFFICES ASSUME NEW i \in DOMAIN results, results[i][2] = p[2] PROVE FALSE
      BY DEF Reported
  <2>1. results[i] \in DOMAIN visited /\ results[i] \in SearchStates /\ IsFinal(results[i])
      BY DEF TypeInv, TypeOK, ReportInv
  <2>2. results[i][1] = p[1]
      BY <2>1, <1>2 DEF IsFinal, MultipleFinal, IsAnswer
  <2>3. results[i] = p
      BY <2>1, <2>2 DEF SearchStates
  <2> QED
      BY <2>1, <2>3
<1> QED
    BY <1>1, <1>2

\* The pair Visit looks at.
LEMMA VisitedPair ==
    ASSUME TypeInv, pc = "expand", NEW r \in iter
    PROVE  <<Outgoing[current_transition].to, r.node>> \in SearchStates
<1>1. Front[1] \in States
    BY QueueFront DEF TypeInv, TypeOK, Expanding, Front, SearchStates
<1>2. Outgoing[current_transition] \in Transition
    BY <1>1, TransitionType DEF Outgoing, TypeInv, Expanding
<1>3. Outgoing[current_transition].to \in States
    BY <1>2 DEF Transition
<1> QED
    BY <1>3 DEF TypeInv, TypeOK, SearchStates

LEMMA ReportInit == Init => ReportInv
BY ReportedEmpty DEF Init, ReportInv

LEMMA ReportStep ==
    TypeInv /\ SearchInv /\ ReportInv /\ [Next]_vars => ReportInv'
<1> SUFFICES ASSUME TypeInv, SearchInv, ReportInv, [Next]_vars PROVE ReportInv'
    OBVIOUS
<1>a. ASSUME UNCHANGED <<start, visited, reached_final, results>>, first_next' = first_next
      PROVE  ReportInv'
    BY <1>a DEF ReportInv, Reported, NoNodeTwice
<1>1. CASE StartMissing
    BY <1>1 DEF StartMissing, ReportInv, Reported, NoNodeTwice
<1>2. CASE StartIsAnswer
  <2>1. /\ open = <<Origin(start)>> /\ results = <<>> /\ reached_final = {}
        /\ DOMAIN visited = {Origin(start)} /\ start \in Nodes /\ StartState \in FinalStates
      BY <1>2 DEF StartIsAnswer, TypeInv, ReportInv
  <2>2. Front = Origin(start) /\ IsFinal(Front) /\ Front \in SearchStates
      BY <2>1 DEF Front, IsFinal, Origin, SearchStates
  <2>3. Reported = {} /\ NoNodeTwice
      BY <2>1, ReportedEmpty
  <2>4. /\ results' = Append(results, Front) /\ UNCHANGED <<start, visited>> /\ first_next' = FALSE
        /\ MultipleFinal => reached_final' = reached_final \cup {Front[2]}
      BY <1>2 DEF StartIsAnswer, Return, Report
  <2>5. /\ Reported' = Reported \cup {Front[2]} /\ NoNodeTwice'
        /\ \A i \in DOMAIN results' : IsFinal(results'[i])
      BY <2>2, <2>3, <2>4, ReturnNew DEF TypeInv, ReportInv
  <2> QED
      BY <2>1, <2>2, <2>3, <2>4, <2>5 DEF ReportInv
<1>3. CASE EnterLoop
  <2>1. UNCHANGED <<start, visited, reached_final, results>> /\ first_next' = FALSE
      BY <1>3 DEF EnterLoop
  <2>2. first_next /\ start \in Nodes => ~IsFinal(Origin(start))
      BY <1>3 DEF EnterLoop, TypeInv, IsFinal, Origin
  <2> QED
      BY <2>1, <2>2 DEF ReportInv, Reported, NoNodeTwice
<1>4. CASE Exhausted
    BY <1>4, <1>a DEF Exhausted
<1>5. CASE ExpandFirst
    BY <1>5, <1>a DEF ExpandFirst
<1>6. CASE ExpandResume
    BY <1>6, <1>a DEF ExpandResume
<1>7. CASE Visit
  <2>1. PICK r \in iter : Visit!2!(r)
      BY <1>7 DEF Visit
  <2> DEFINE p == <<Outgoing[current_transition].to, r.node>>
  <2>2. /\ open # <<>> /\ start \in Nodes /\ ~first_next
        /\ current_transition \in 1 .. Len(Outgoing)
      BY <1>7 DEF Visit, TypeInv, Expanding
  <2>3. UNCHANGED <<start, first_next>>
      BY <1>7 DEF Visit
  <2>4. CASE p \in DOMAIN visited
      BY <2>1, <2>3, <2>4, <1>a
  <2>5. CASE p \notin DOMAIN visited
    <3>1. /\ DOMAIN visited' = DOMAIN visited \cup {p}
          /\ IF IsAnswer(p) THEN Report(p) /\ Return(p) ELSE UNCHANGED <<reached_final, results, pc>>
        BY <2>1, <2>5
    <3>2. p \in SearchStates
        BY <1>7, VisitedPair DEF Visit
    <3>3. CASE IsAnswer(p)
      <4>1. IsFinal(p)
          BY <3>3 DEF IsAnswer
      <4>2. p[2] \notin Reported
          BY <2>5, <3>2, <3>3, AnswerIsNew
      <4>3. /\ results' = Append(results, p)
            /\ MultipleFinal => reached_final' = reached_final \cup {p[2]}
          BY <3>1, <3>3 DEF Return, Report
      <4>4. /\ Reported' = Reported \cup {p[2]} /\ NoNodeTwice'
            /\ \A i \in DOMAIN results' : IsFinal(results'[i])
          BY <3>2, <4>1, <4>2, <4>3, ReturnNew DEF TypeInv, ReportInv
      <4> QED
          BY <2>2, <2>3, <3>1, <4>3, <4>4 DEF ReportInv
    <3>4. CASE ~IsAnswer(p)
      <4>1. UNCHANGED <<reached_final, results>>
          BY <3>1, <3>4
      <4>2. IsFinal(p) => p[2] \in Reported
          BY <3>4 DEF IsAnswer, ReportInv
      <4>3. Reported' = Reported /\ (NoNodeTwice' <=> NoNodeTwice)
          BY <4>1 DEF Reported, NoNodeTwice
      <4> QED
          BY <2>2, <2>3, <3>1, <4>1, <4>2, <4>3 DEF ReportInv
    <3> QED
        BY <3>3, <3>4
  <2> QED
      BY <2>4, <2>5
<1>8. CASE NextTransition
    BY <1>8, <1>a DEF NextTransition, MoreTransitions
<1>9. CASE Interrupt
    BY <1>9, <1>a DEF Interrupt
<1>10. CASE \E n \in NodeIds : Reset(n)
  <2>1. PICK n \in NodeIds : Reset(n)
      BY <1>10
  <2>2. /\ results' = <<>> /\ reached_final' = {} /\ first_next' = TRUE
        /\ DOMAIN visited' = {Origin(n)} /\ start' = n
      BY <2>1 DEF Reset, StartAt
  <2>3. Reported' = {} /\ NoNodeTwice'
      BY <2>2 DEF Reported, NoNodeTwice
  <2> QED
      BY <2>2, <2>3 DEF ReportInv
<1>11. CASE UNCHANGED vars
    BY <1>11, <1>a DEF vars
<1> QED
    BY <1>1, <1>2, <1>3, <1>4, <1>5, <1>6, <1>7, <1>8, <1>9, <1>10, <1>11 DEF Next, Search

-----------------------------------------------------------------------------
(* The paths: depths grow along the queue, so that a pair is visited over a *)
(* shortest walk.                                                          *)

LayerInv ==
    /\ start \in Nodes => Layers(visited, open, start)
    /\ ShortestPaths

LEMMA LayerInit == Init => LayerInv
<1> SUFFICES ASSUME Init PROVE LayerInv
    OBVIOUS
<1>1. visited = [p \in {Origin(start)} |-> <<>>] /\ open = <<Origin(start)>> /\ results = <<>>
    BY DEF Init, Null
<1>2. start \in Nodes => Layers(visited, open, start)
    BY <1>1, LayersOrigin
<1> QED
    BY <1>1, <1>2 DEF LayerInv, ShortestPaths

\* Handing out a SearchState as deep as its answer is far.
LEMMA ReturnShortest ==
    ASSUME TypeOK, ShortestPaths, UNCHANGED start, NEW p \in SearchStates,
           results' = Append(results, p),
           \A x \in DOMAIN visited : Depth(visited')[x] = Depth(visited)[x],
           Depth(visited')[p] = AnswerDistance[start][p[2]]
    PROVE  ShortestPaths'
<1>1. \A i \in DOMAIN results' :
          (i \in DOMAIN results /\ results'[i] = results[i]) \/ results'[i] = p
    BY QueueBack DEF TypeOK
<1>2. \A i \in DOMAIN results : results[i] \in DOMAIN visited
    BY DEF TypeOK
<1> QED
    BY <1>1, <1>2 DEF ShortestPaths

LEMMA LayerStep ==
    TypeInv /\ SearchInv /\ ReportInv /\ LayerInv /\ [Next]_vars => LayerInv'
<1> SUFFICES ASSUME TypeInv, SearchInv, ReportInv, LayerInv, [Next]_vars PROVE LayerInv'
    OBVIOUS
<1>a. ASSUME UNCHANGED <<start, visited, open, results>> PROVE LayerInv'
    BY <1>a DEF LayerInv, ShortestPaths
<1>b. ASSUME UNCHANGED <<start, visited, results>>, open # <<>>, open' = Tail(open),
             start \in Nodes => \A q \in Product : Step(Front, q) => q \in DOMAIN visited
      PROVE  LayerInv'
  <2>1. Front = open[1]
      BY <1>b, QueueFront DEF TypeInv, TypeOK, Front
  <2>2. start \in Nodes => Layers(visited, Tail(open), start)
      BY <1>b, <2>1, LayersPop DEF LayerInv
  <2> QED
      BY <1>b, <2>2 DEF LayerInv, ShortestPaths
<1>1. CASE StartMissing
  <2>1. open = <<Origin(start)>>
      BY <1>1 DEF StartMissing, TypeInv
  <2>2. open # <<>>
      BY <2>1
  <2> QED
      BY <1>1, <2>2, <1>b DEF StartMissing, Pop
<1>2. CASE StartIsAnswer
  <2>1. /\ open = <<Origin(start)>> /\ DOMAIN visited = {Origin(start)}
        /\ start \in Nodes /\ StartState \in FinalStates
      BY <1>2 DEF StartIsAnswer, TypeInv, ReportInv
  <2>2. Layers(visited, open, start)
      BY <2>1 DEF LayerInv
  <2>3. Depth(visited)[Origin(start)] = 0
      BY <2>1, <2>2, OriginDepth
  <2>4. Front = Origin(start) /\ Front \in SearchStates /\ Front[2] = start
      BY <2>1 DEF Front, Origin, SearchStates, TypeInv, TypeOK
  <2>5. /\ results' = Append(results, Front)
        /\ UNCHANGED <<start, visited, open>>
      BY <1>2 DEF StartIsAnswer, Return
  <2>6. Depth(visited')[Front] = AnswerDistance[start][Front[2]]
      BY <2>1, <2>3, <2>4, <2>5, OriginIsShortest
  <2>7. ShortestPaths'
      BY <2>4, <2>5, <2>6, ReturnShortest DEF LayerInv, TypeInv
  <2> QED
      BY <2>2, <2>5, <2>7 DEF LayerInv
<1>3. CASE EnterLoop
    BY <1>3, <1>a DEF EnterLoop
<1>4. CASE Exhausted
    BY <1>4, <1>a DEF Exhausted
<1>5. CASE ExpandFirst
  <2>1. CASE Outgoing = <<>>
    <3>1. \A q \in Product : ~Step(Front, q)
        BY <2>1 DEF Step, Outgoing
    <3> QED
        BY <1>5, <2>1, <3>1, <1>b DEF ExpandFirst, Pop
  <2>2. CASE Outgoing # <<>>
      BY <1>5, <2>2, <1>a DEF ExpandFirst
  <2> QED
      BY <2>1, <2>2
<1>6. CASE ExpandResume
    BY <1>6, <1>a DEF ExpandResume
<1>7. CASE Visit
  <2>1. PICK r \in iter : Visit!2!(r)
      BY <1>7 DEF Visit
  <2> DEFINE p == <<Outgoing[current_transition].to, r.node>>
  <2>2. /\ open # <<>> /\ start \in Nodes /\ ~first_next /\ UNCHANGED start
        /\ current_transition \in 1 .. Len(Outgoing)
        /\ r \in GetIterator(Outgoing[current_transition], Front[2])
      BY <1>7 DEF Visit, TypeInv, Expanding
  <2>3. p \in SearchStates /\ p \in Product
    <3>1. p \in SearchStates
        BY <1>7, VisitedPair DEF Visit
    <3> QED
        BY <3>1 DEF SearchStates, Product, TypeInv, TypeOK
  <2>4. CASE p \in DOMAIN visited
      BY <2>1, <2>2, <2>4, <1>a
  <2>5. CASE p \notin DOMAIN visited
    <3>1. /\ visited' = [x \in DOMAIN visited \cup {p} |-> IF x = p THEN Front ELSE visited[x]]
          /\ open' = Append(open, p)
          /\ IF IsAnswer(p) THEN Report(p) /\ Return(p) ELSE UNCHANGED <<reached_final, results, pc>>
        BY <2>1, <2>5 DEF Push
    <3>2. Front = open[1] /\ Front[1] \in States /\ Outgoing \in Seq(Transition)
        BY <2>2, QueueFront DEF TypeInv, TypeOK, Front, SearchStates, Outgoing
    <3>3. Step(Front, p)
      <4>1. current_transition \in DOMAIN Outgoing
          BY <2>2, <3>2
      <4>2. p[1] = Outgoing[current_transition].to /\ p[2] = r.node
          OBVIOUS
      <4> HIDE DEF p
      <4> QED
          BY <2>2, <4>1, <4>2 DEF Step, Outgoing
    <3>4. visited' = Extended(visited, p, open[1]) /\ Step(open[1], p) /\ Layers(visited, open, start)
        BY <2>2, <3>1, <3>2, <3>3 DEF Extended, LayerInv
    <3> HIDE DEF p
    <3>5. /\ Layers(visited', Append(open, p), start)
          /\ Depth(visited')[p] = Depth(visited)[open[1]] + 1
          /\ \A x \in DOMAIN visited : Depth(visited')[x] = Depth(visited)[x]
        BY <2>2, <2>3, <2>5, <3>4, LayersPush
    <3>6. CASE IsAnswer(p)
      <4>1. IsFinal(p) /\ p[2] \notin Reported
          BY <2>3, <2>5, <3>6, AnswerIsNew DEF IsAnswer
      <4>2. \A q \in DOMAIN visited : IsFinal(q) => q[2] # p[2]
          BY <2>2, <4>1 DEF ReportInv
      <4>3. Depth(visited')[p] = AnswerDistance[start][p[2]]
          BY <2>2, <2>3, <2>5, <3>4, <3>5, <4>1, <4>2, AnswerIsShortest
      <4>4. results' = Append(results, p)
          BY <3>1, <3>6 DEF Return
      <4>5. ShortestPaths'
          BY <2>2, <2>3, <3>5, <4>3, <4>4, ReturnShortest DEF LayerInv, TypeInv
      <4> QED
          BY <2>2, <3>1, <3>5, <4>5 DEF LayerInv
    <3>7. CASE ~IsAnswer(p)
      <4>1. UNCHANGED results
          BY <3>1, <3>7
      <4>2. \A i \in DOMAIN results : results[i] \in DOMAIN visited
          BY DEF TypeInv, TypeOK
      <4>3. ShortestPaths'
          BY <2>2, <3>5, <4>1, <4>2 DEF LayerInv, ShortestPaths
      <4> QED
          BY <2>2, <3>1, <3>5, <4>3 DEF LayerInv
    <3> QED
        BY <3>6, <3>7
  <2> QED
      BY <2>4, <2>5
<1>8. CASE NextTransition
  <2>1. CASE MoreTransitions
      BY <1>8, <2>1, <1>a DEF NextTransition
  <2>2. CASE ~MoreTransitions
      BY <1>8, <2>2, FrontExpanded, <1>b DEF NextTransition, Pop
  <2> QED
      BY <2>1, <2>2
<1>9. CASE Interrupt
    BY <1>9, <1>a DEF Interrupt
<1>10. CASE \E n \in NodeIds : Reset(n)
  <2>1. PICK n \in NodeIds : Reset(n)
      BY <1>10
  <2>2. /\ start' = n /\ visited' = [x \in {Origin(n)} |-> <<>>]
        /\ open' = <<Origin(n)>> /\ results' = <<>>
      BY <2>1 DEF Reset, StartAt, ResetOpen, Null
  <2>3. n \in Nodes => Layers(visited', open', n)
      BY <2>2, LayersOrigin
  <2> QED
      BY <2>2, <2>3 DEF LayerInv, ShortestPaths
<1>11. CASE UNCHANGED vars
    BY <1>11, <1>a DEF vars
<1> QED
    BY <1>1, <1>2, <1>3, <1>4, <1>5, <1>6, <1>7, <1>8, <1>9, <1>10, <1>11 DEF Next, Search

-----------------------------------------------------------------------------
Inv == TypeInv /\ SearchInv /\ ReportInv /\ LayerInv

LEMMA InvInit == Init => Inv
BY TypeInit, SearchInit, ReportInit, LayerInit DEF Inv

LEMMA InvStep == Inv /\ [Next]_vars => Inv'
BY TypeStep, SearchStep, ReportStep, LayerStep DEF Inv

\* What is printed for an answer is a path of the graph that the query matches.
THEOREM PathsCorrect == Spec => []PathsMatch
<1>1. Inv => PathsMatch
    BY DEF Inv, SearchInv
<1> QED
    BY <1>1, InvInit, InvStep, PTL DEF Spec

\* A state that left the queue has no successor left to visit, however often
\* next() returned in the middle of its expansion.
THEOREM ExpansionCorrect == Spec => []ExpandedCompletely
<1>1. Inv => ExpandedCompletely
    BY DEF Inv, SearchInv
<1> QED
    BY <1>1, InvInit, InvStep, PTL DEF Spec

\* No node is handed out twice, also when several final states reach it.
THEOREM NoneTwiceCorrect == Spec => []NoNodeTwice
<1>1. Inv => NoNodeTwice
    BY DEF Inv, ReportInv
<1> QED
    BY <1>1, InvInit, InvStep, PTL DEF Spec

\* The path handed out for a node is as long as a shortest walk of the product
\* that ends at the node in a final state.
THEOREM ShortestCorrect == Spec => []ShortestPaths
<1>1. Inv => ShortestPaths
    BY DEF Inv, LayerInv
<1> QED
    BY <1>1, InvInit, InvStep, PTL DEF Spec

\* Only answers are reported.
LEMMA ReportedSound == Inv => Reported \subseteq Answers[start]
<1> SUFFICES ASSUME Inv, NEW i \in DOMAIN results PROVE results[i][2] \in Answers[start]
    BY DEF Reported
<1>1. start \in Nodes
    BY DEF Inv, ReportInv
<1>2. results[i] \in Reachable[start] /\ IsFinal(results[i])
    BY <1>1 DEF Inv, SearchInv, ReportInv, TypeInv, TypeOK
<1> QED
    BY <1>1, <1>2 DEF Answers

\* When the queue runs empty every answer was reported.
LEMMA ReportedComplete == Inv /\ open = <<>> => Reported = Answers[start]
<1> SUFFICES ASSUME Inv, open = <<>> PROVE Reported = Answers[start]
    OBVIOUS
<1>1. start \in NodeIds /\ ~first_next
  <2>1. <<Origin(start)>> # <<>>
      OBVIOUS
  <2> QED
      BY <2>1 DEF Inv, TypeInv, TypeOK
<1>2. CASE start \notin Nodes
  <2>1. Reported = {}
      BY <1>2, ReportedEmpty DEF Inv, ReportInv
  <2> QED
      BY <1>1, <1>2, <2>1 DEF Answers
<1>3. CASE start \in Nodes
  <2>1. DOMAIN visited \in SUBSET Product /\ Origin(start) \in DOMAIN visited
      BY <1>3 DEF Inv, TypeInv, SearchInv
  <2>2. \A p \in DOMAIN visited : \A q \in Product : Step(p, q) => q \in DOMAIN visited
      BY <1>3 DEF Inv, SearchInv, ExpandedCompletely
  <2>3. Reachable[start] \subseteq DOMAIN visited
      BY <1>3, <2>1, <2>2, ReachableLeast
  <2>4. \A p \in Reachable[start] : IsFinal(p) => p[2] \in Reported
      BY <1>1, <1>3, <2>3 DEF Inv, ReportInv
  <2>5. Answers[start] \subseteq Reported
      BY <1>1, <1>3, <2>4 DEF Answers
  <2> QED
      BY <2>5, ReportedSound
<1> QED
    BY <1>2, <1>3

-----------------------------------------------------------------------------
(* Refinement: AnyShortest implements Enumeration.                         *)

LEMMA PromiseInit == Init => Promise!Init
<1> SUFFICES ASSUME Init PROVE Promise!Init
    OBVIOUS
<1>1. open # <<>> /\ pc = "ready" /\ start \in NodeIds /\ results = <<>>
    BY DEF Init
<1> QED
    BY <1>1, ReportedEmpty DEF Promise!Init, Status

\* The same two facts about the state after a step.
LEMMA ReportedSoundNext == Inv' => (Reported \subseteq Answers[start])'
BY ReportedSound, PTL

LEMMA ReportedCompleteNext == (Inv /\ open = <<>>)' => (Reported = Answers[start])'
BY ReportedComplete, PTL

\* Reporting a node that was not reported before.
LEMMA PromiseReport ==
    ASSUME Inv, Inv', UNCHANGED start, open # <<>>, open' # <<>>,
           pc # "interrupted", pc' # "interrupted",
           NEW a, a \notin Reported, Reported' = Reported \cup {a}
    PROVE  Promise!Next
<1>1. Status = "open" /\ Status' = "open"
    BY DEF Status
<1>2. a \in Answers[start]
    BY ReportedSoundNext
<1> QED
    BY <1>1, <1>2 DEF Promise!Next, Promise!Report

\* A step that neither reports nor restarts may only empty the queue.
LEMMA PromiseQuiet ==
    ASSUME Inv, Inv', UNCHANGED <<start, results>>,
           open = <<>> => open' = <<>>, pc # "interrupted", pc' # "interrupted"
    PROVE  Promise!Next \/ UNCHANGED Promise!vars
<1>1. UNCHANGED <<start, Reported>>
    BY DEF Reported
<1>2. CASE open # <<>> /\ open' = <<>>
  <2>1. Status = "open" /\ Status' = "done"
      BY <1>2 DEF Status
  <2>3. Reported = Answers[start]
      BY <1>1, <1>2, ReportedCompleteNext
  <2> QED
      BY <1>1, <2>1, <2>3 DEF Promise!Next, Promise!Finish
<1>3. CASE ~(open # <<>> /\ open' = <<>>)
    BY <1>1, <1>3 DEF Status, Promise!vars
<1> QED
    BY <1>2, <1>3

LEMMA PromiseStep == Inv /\ Inv' /\ [Next]_vars => [Promise!Next]_(Promise!vars)
<1> SUFFICES ASSUME Inv, Inv', [Next]_vars PROVE Promise!Next \/ UNCHANGED Promise!vars
    OBVIOUS
<1>0. ASSUME open # <<>> PROVE Front \in SearchStates
    BY <1>0, QueueFront DEF Inv, TypeInv, TypeOK, Front
<1>1. CASE StartMissing
  <2>1. open = <<Origin(start)>>
      BY <1>1 DEF StartMissing, Inv, TypeInv
  <2>2. open # <<>>
      BY <2>1
  <2> QED
      BY <1>1, <2>2, PromiseQuiet DEF StartMissing
<1>2. CASE StartIsAnswer
  <2>1. open = <<Origin(start)>> /\ results = <<>>
      BY <1>2 DEF StartIsAnswer, Inv, TypeInv, ReportInv
  <2>2. open # <<>> /\ Front = Origin(start)
      BY <2>1 DEF Front
  <2>3. results' = <<Front>> /\ Reported = {}
      BY <1>2, <2>1, ReportedEmpty DEF StartIsAnswer, Return
  <2>4. DOMAIN results' = {1} /\ results'[1] = Front
      BY <2>3
  <2>5. Reported' = {} \cup {Front[2]}
      BY <2>4 DEF Reported
  <2> QED
      BY <1>2, <2>2, <2>3, <2>5, PromiseReport DEF StartIsAnswer, Return
<1>3. CASE EnterLoop
    BY <1>3, PromiseQuiet DEF EnterLoop
<1>4. CASE Exhausted
    BY <1>4, PromiseQuiet DEF Exhausted
<1>5. CASE ExpandFirst
  <2>1. UNCHANGED <<start, results>> /\ open # <<>> /\ pc = "loop" /\ pc' \in {"loop", "expand"}
      BY <1>5 DEF ExpandFirst
  <2> QED
      BY <2>1, PromiseQuiet
<1>6. CASE ExpandResume
    BY <1>6, PromiseQuiet DEF ExpandResume
<1>7. CASE Visit
  <2>1. PICK r \in iter : Visit!2!(r)
      BY <1>7 DEF Visit
  <2> DEFINE p == <<Outgoing[current_transition].to, r.node>>
  <2>2. /\ open # <<>> /\ pc = "expand" /\ UNCHANGED start
      BY <1>7 DEF Visit, Inv, TypeInv, Expanding
  <2>3. CASE results' = results
    <3>1. pc' # "interrupted"
        BY <2>1, <2>2 DEF Return
    <3> QED
        BY <2>2, <2>3, <3>1, PromiseQuiet
  <2>4. CASE results' # results
    <3>1. p \notin DOMAIN visited /\ IsAnswer(p)
        BY <2>1, <2>4
    <3>2. open' = Append(open, p) /\ results' = Append(results, p) /\ pc' = "ready"
        BY <2>1, <3>1 DEF Push, Return
    <3>3. p \in SearchStates /\ p[2] \notin Reported
        BY <2>2, <3>1, VisitedPair, AnswerIsNew DEF Inv
    <3>4. Reported' = Reported \cup {p[2]}
        BY <3>1, <3>2, <3>3, ReturnNew DEF Inv, TypeInv, ReportInv, IsAnswer
    <3>5. open' # <<>>
        BY <3>2, <3>3, QueueBack DEF Inv, TypeInv, TypeOK
    <3> QED
        BY <2>2, <3>2, <3>3, <3>4, <3>5, PromiseReport
  <2> QED
      BY <2>3, <2>4
<1>8. CASE NextTransition
  <2>1. UNCHANGED <<start, results>> /\ open # <<>> /\ pc = "expand" /\ pc' \in {"loop", "expand"}
      BY <1>8 DEF NextTransition, MoreTransitions, Inv, TypeInv, Expanding
  <2> QED
      BY <2>1, PromiseQuiet
<1>9. CASE Interrupt
  <2>1. UNCHANGED <<start, Reported>> /\ Status' = "aborted"
      BY <1>9 DEF Interrupt, Status, Reported
  <2> QED
      BY <2>1 DEF Promise!Next, Promise!Abort
<1>10. CASE \E n \in NodeIds : Reset(n)
  <2>1. PICK n \in NodeIds : Reset(n)
      BY <1>10
  <2>2. /\ start' = n /\ results' = <<>> /\ open' = <<Origin(n)>> /\ pc' = "ready"
        /\ pc # "interrupted"
      BY <2>1 DEF Reset, StartAt, ResetOpen
  <2>3. Reported' = {} /\ Status' = "open" /\ Status # "aborted"
      BY <2>2 DEF Reported, Status
  <2> QED
      BY <2>2, <2>3 DEF Promise!Next, Promise!Restart
<1>11. CASE UNCHANGED vars
  <2>1. UNCHANGED <<start, Reported, Status>>
      BY <1>11 DEF vars, Reported, Status
  <2> QED
      BY <2>1 DEF Promise!vars
<1> QED
    BY <1>1, <1>2, <1>3, <1>4, <1>5, <1>6, <1>7, <1>8, <1>9, <1>10, <1>11 DEF Next, Search

\* For every graph and automaton the operator hands out each node the query
\* reaches exactly once, and returns false only when none is missing.
THEOREM Refinement == Spec => EnumeratesAnswers
<1>1. Inv /\ [Next]_vars => Inv'
    BY InvStep
<1> QED
    BY <1>1, InvInit, PromiseInit, PromiseStep, PTL DEF Spec, EnumeratesAnswers, Promise!Spec
=============================================================================
