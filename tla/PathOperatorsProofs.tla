------------------------ MODULE PathOperatorsProofs ------------------------
(***************************************************************************)
(* Proofs about PathOperators, for every graph and every automaton: the    *)
(* depth-first searches keep one trail or simple path on their stack, the  *)
(* breadth-first ones keep their queue in the order of the lengths,        *)
(* without a path twice, and both hand out every answer, none twice and    *)
(* nothing else.                                                           *)
(***************************************************************************)
EXTENDS PathOperators, BreadthFirst, TLAPS

USE GraphAssumption, AutomatonAssumption

-----------------------------------------------------------------------------
(* Stacks of frames.                                                       *)

EdgeIds == {e.edge : e \in Edges} \cup {NoEdge}
Records == UNION {GetIterator(t, n) : t \in Transition, n \in NodeIds}

Frames == [automaton_state : States, transition : Nat, iter : SUBSET Records, at_end : BOOLEAN,
           node : NodeIds, edge : EdgeIds, inverse : BOOLEAN]

OutgoingFrom(f) == Connections[f.automaton_state]

\* A frame is at its first transition until it is expanded, or past the last one
\* when it closed a cycle.
FrameInv(f, closing) ==
    /\ f.at_end => \/ f.transition = 1
                   \/ closing /\ f.transition = Len(OutgoingFrom(f)) + 1
    /\ ~f.at_end => /\ f.transition \in 1 .. Len(OutgoingFrom(f))
                    /\ f.iter \subseteq GetIterator(OutgoingFrom(f)[f.transition], f.node)

\* g was found by the transition f is at.
Follows(f, g) ==
    LET below == Connections[f.automaton_state][f.transition]
    IN  /\ g.automaton_state = below.to
        /\ [node |-> g.node, edge |-> g.edge] \in GetIterator(below, f.node)

StackInv(stack, closing) ==
    /\ stack \in Seq(Frames)
    /\ \A i \in DOMAIN stack : FrameInv(stack[i], closing)
    /\ \A i \in 1 .. Len(stack) - 1 : Follows(stack[i], stack[i + 1])

\* The path of the stack is a trail, or without a cycle, or closes one with its top.
EdgesOnce(stack) == \A i, j \in DOMAIN stack : stack[i].edge = stack[j].edge => i = j
NodesOnce(stack) == \A i, j \in DOMAIN stack : stack[i].node = stack[j].node => i = j
NodesOnceBelow(stack) ==
    \A i, j \in 1 .. Len(stack) - 1 : stack[i].node = stack[j].node => i = j

\* No frame holds this edge, or this node.
NewEdge(stack, e) == \A i \in DOMAIN stack : stack[i].edge # e
NewNode(stack, v) == \A i \in DOMAIN stack : stack[i].node # v

\* The frames of changed hold the steps of those of stack.
SameSteps(changed, stack) ==
    /\ DOMAIN changed = DOMAIN stack
    /\ Len(changed) = Len(stack)
    /\ \A i \in DOMAIN stack : changed[i].node = stack[i].node /\ changed[i].edge = stack[i].edge

LEMMA RecordType ==
    ASSUME NEW t \in Transition, NEW n, NEW r \in GetIterator(t, n)
    PROVE  /\ r.node \in Nodes /\ r.node \in NodeIds /\ r.edge \in EdgeIds
           /\ r = [node |-> r.node, edge |-> r.edge]
BY DEF GetIterator, Transition, EdgeIds

LEMMA TopOf ==
    ASSUME NEW closing, NEW stack, StackInv(stack, closing), stack # <<>>
    PROVE  /\ Len(stack) \in DOMAIN stack /\ stack[Len(stack)] \in Frames
           /\ FrameInv(stack[Len(stack)], closing)
           /\ OutgoingFrom(stack[Len(stack)]) \in Seq(Transition)
<1> DEFINE f == stack[Len(stack)]
<1>1. Len(stack) \in DOMAIN stack /\ f \in Frames
    BY StackTop DEF StackInv
<1>2. FrameInv(f, closing)
    BY <1>1 DEF StackInv
<1> HIDE DEF f
<1>3. f.automaton_state \in States
    BY <1>1 DEF Frames
<1>4. OutgoingFrom(f) \in Seq(Transition)
    BY <1>3 DEF OutgoingFrom
<1> QED BY <1>1, <1>2, <1>4 DEF f

LEMMA PopStack ==
    ASSUME NEW closing, NEW stack, StackInv(stack, closing), stack # <<>>,
           NEW rest, rest = SubSeq(stack, 1, Len(stack) - 1)
    PROVE  /\ StackInv(rest, closing)
           /\ EdgesOnce(stack) => EdgesOnce(rest)
           /\ NodesOnce(stack) => NodesOnceBelow(stack)
           /\ NodesOnceBelow(stack) => NodesOnce(rest)
<1> DEFINE n == Len(stack)
<1>1. /\ n \in Nat \ {0} /\ DOMAIN stack = 1 .. n /\ stack \in Seq(Frames)
      /\ rest \in Seq(Frames) /\ Len(rest) = n - 1
      /\ \A i \in 1 .. n - 1 : rest[i] = stack[i]
    BY StackTop DEF StackInv
<1>2. DOMAIN rest = 1 .. n - 1
    BY <1>1
<1>3. /\ \A i \in DOMAIN stack : FrameInv(stack[i], closing)
      /\ \A i \in 1 .. n - 1 : Follows(stack[i], stack[i + 1])
    BY DEF StackInv
<1> HIDE DEF n
<1>4. \A i \in 1 .. n - 1 : i \in 1 .. n
    BY <1>1
<1>5. ASSUME NEW i \in 1 .. Len(rest) - 1 PROVE Follows(rest[i], rest[i + 1])
    <2>1. i \in 1 .. n - 1 /\ i + 1 \in 1 .. n - 1
        BY <1>1
    <2> QED BY <1>1, <1>3, <2>1
<1>6. StackInv(rest, closing)
    BY <1>1, <1>2, <1>3, <1>4, <1>5 DEF StackInv
<1>7. EdgesOnce(stack) => EdgesOnce(rest)
    BY <1>1, <1>2, <1>4 DEF EdgesOnce
<1>8. NodesOnceBelow(stack) <=>
          \A i, j \in 1 .. n - 1 : stack[i].node = stack[j].node => i = j
    BY DEF NodesOnceBelow, n
<1>9. NodesOnce(stack) => NodesOnceBelow(stack)
    BY <1>1, <1>4, <1>8 DEF NodesOnce
<1>10. NodesOnceBelow(stack) => NodesOnce(rest)
    BY <1>1, <1>2, <1>8 DEF NodesOnce
<1> QED BY <1>6, <1>7, <1>9, <1>10

\* Another frame with the same step on top.
Retopped(stack, f) == [stack EXCEPT ![Len(stack)] = f]

LEMMA RetopStack ==
    ASSUME NEW closing, NEW stack, StackInv(stack, closing), stack # <<>>,
           NEW f \in Frames, FrameInv(f, closing),
           f.automaton_state = stack[Len(stack)].automaton_state,
           f.node = stack[Len(stack)].node, f.edge = stack[Len(stack)].edge,
           NEW changed, changed = Retopped(stack, f)
    PROVE  /\ StackInv(changed, closing)
           /\ SameSteps(changed, stack)
           /\ changed # <<>> /\ changed[Len(changed)] = f
<1> DEFINE n == Len(stack)
<1>1. n \in Nat \ {0} /\ DOMAIN stack = 1 .. n /\ stack \in Seq(Frames) /\ n \in DOMAIN stack
    BY StackTop DEF StackInv
<1>2. changed \in Seq(Frames) /\ Len(changed) = n
    BY <1>1 DEF Retopped
<1>3. /\ \A i \in DOMAIN stack : FrameInv(stack[i], closing)
      /\ \A i \in 1 .. n - 1 : Follows(stack[i], stack[i + 1])
    BY DEF StackInv
<1> HIDE DEF n
<1>4. /\ DOMAIN changed = 1 .. n /\ changed[n] = f
      /\ \A i \in 1 .. n : i # n => changed[i] = stack[i]
    BY <1>1, ExceptFacts DEF n, Retopped
<1>5. \A i \in 1 .. n : /\ changed[i].node = stack[i].node /\ changed[i].edge = stack[i].edge
                        /\ changed[i].automaton_state = stack[i].automaton_state
    BY <1>4 DEF n
<1>6. ASSUME NEW i \in 1 .. n PROVE FrameInv(changed[i], closing)
    BY <1>1, <1>3, <1>4
<1>7. ASSUME NEW i \in 1 .. n - 1 PROVE Follows(changed[i], changed[i + 1])
    <2>1. i \in 1 .. n /\ i # n /\ i + 1 \in 1 .. n
        BY <1>1
    <2>2. changed[i] = stack[i] /\ Follows(stack[i], stack[i + 1])
        BY <1>3, <1>4, <2>1
    <2> QED BY <1>5, <2>1, <2>2 DEF Follows
<1>8. StackInv(changed, closing)
    BY <1>2, <1>4, <1>6, <1>7 DEF StackInv
<1>9. changed # <<>>
    BY <1>1, <1>2
<1> QED BY <1>1, <1>2, <1>4, <1>5, <1>8, <1>9 DEF SameSteps, n

\* A frame found from the one on top.
Pushed(stack, f) == Append(stack, f)

LEMMA PushStack ==
    ASSUME NEW closing, NEW stack, StackInv(stack, closing), stack # <<>>,
           NEW f \in Frames, FrameInv(f, closing), Follows(stack[Len(stack)], f),
           NEW longer, longer = Pushed(stack, f)
    PROVE  /\ StackInv(longer, closing)
           /\ longer # <<>> /\ longer[Len(longer)] = f /\ Len(longer) > 1
           /\ EdgesOnce(stack) /\ NewEdge(stack, f.edge) => EdgesOnce(longer)
           /\ NodesOnce(stack) /\ NewNode(stack, f.node) => NodesOnce(longer)
           /\ NodesOnce(stack) => NodesOnceBelow(longer)
           /\ longer[1] = stack[1]
<1> DEFINE n == Len(stack)
<1>1. n \in Nat \ {0} /\ DOMAIN stack = 1 .. n /\ stack \in Seq(Frames)
    BY StackTop DEF StackInv
<1>2. /\ longer \in Seq(Frames) /\ Len(longer) = n + 1
      /\ \A i \in 1 .. n : longer[i] = stack[i]
      /\ longer[n + 1] = f
    BY <1>1, AppendProperties DEF Pushed
<1>3. DOMAIN longer = 1 .. n + 1
    BY <1>2
<1>4. /\ \A i \in DOMAIN stack : FrameInv(stack[i], closing)
      /\ \A i \in 1 .. n - 1 : Follows(stack[i], stack[i + 1])
      /\ Follows(stack[n], f)
    BY DEF StackInv
<1> HIDE DEF n
<1>5. \A i \in 1 .. n + 1 : i \in 1 .. n \/ i = n + 1
    BY <1>1
<1>6. ASSUME NEW i \in 1 .. n + 1 PROVE FrameInv(longer[i], closing)
    BY <1>1, <1>2, <1>4, <1>5
<1>7. ASSUME NEW i \in 1 .. (n + 1) - 1 PROVE Follows(longer[i], longer[i + 1])
    <2>1. CASE i = n
        BY <1>1, <1>2, <1>4, <2>1
    <2>2. CASE i # n
        <3>1. i \in 1 .. n - 1 /\ longer[i] = stack[i] /\ longer[i + 1] = stack[i + 1]
            BY <1>1, <1>2, <2>2
        <3> QED BY <1>4, <3>1
    <2> QED BY <2>1, <2>2
<1>8. StackInv(longer, closing)
    BY <1>2, <1>3, <1>6, <1>7 DEF StackInv
<1>9. Len(longer) > 1 /\ longer # <<>> /\ longer[1] = stack[1]
    BY <1>1, <1>2
<1>10. (n + 1) - 1 = n
    BY <1>1
<1>11. ASSUME NodesOnce(stack) PROVE NodesOnceBelow(longer)
  <2> SUFFICES ASSUME NEW i \in 1 .. n, NEW j \in 1 .. n, longer[i].node = longer[j].node
               PROVE  i = j
      BY <1>2, <1>10 DEF NodesOnceBelow
  <2>1. stack[i].node = stack[j].node /\ i \in DOMAIN stack /\ j \in DOMAIN stack
      BY <1>1, <1>2
  <2> QED BY <1>11, <2>1 DEF NodesOnce
<1>12. ASSUME EdgesOnce(stack), NewEdge(stack, f.edge)
       PROVE  EdgesOnce(longer)
    BY <1>1, <1>2, <1>3, <1>5, <1>12 DEF EdgesOnce, NewEdge
<1>13. ASSUME NodesOnce(stack), NewNode(stack, f.node)
       PROVE  NodesOnce(longer)
    BY <1>1, <1>2, <1>3, <1>5, <1>13 DEF NodesOnce, NewNode
<1> QED BY <1>2, <1>8, <1>9, <1>11, <1>12, <1>13

\* What a stack keeps from one with the same steps.
LEMMA SameKept ==
    ASSUME NEW stack, NEW changed, SameSteps(changed, stack)
    PROVE  /\ EdgesOnce(stack) => EdgesOnce(changed)
           /\ NodesOnce(stack) => NodesOnce(changed)
BY DEF SameSteps, EdgesOnce, NodesOnce

-----------------------------------------------------------------------------
(* What expand_neighbors() does to a stack.                                *)

\* The frame set_iter() leaves on top.
AtTransition(f, k) ==
    [f EXCEPT !.transition = k, !.iter = GetIterator(OutgoingFrom(f)[k], f.node), !.at_end = FALSE]

LEMMA StackNames ==
    /\ \A t, n : Stack!GetIterator(t, n) = GetIterator(t, n)
    /\ \A path, e : Stack!is_trail(path, e) <=> is_trail(path, e)
    /\ \A path, n : Stack!is_simple_path(path, n) <=> is_simple_path(path, n)
    /\ Stack!NoEdge = NoEdge
BY DEF Stack!GetIterator, GetIterator, Stack!is_trail, is_trail, Stack!is_simple_path, is_simple_path,
       Stack!NoEdge, NoEdge

LEMMA SetIterTop ==
    ASSUME NEW stack \in Seq(Frames), stack # <<>>, NEW k \in Nat
    PROVE  Stack!SetIter([stack EXCEPT ![Len(stack)].transition = k]) =
               [stack EXCEPT ![Len(stack)] = AtTransition(stack[Len(stack)], k)]
<1> DEFINE n == Len(stack)
           f == stack[n]
           moved == [stack EXCEPT ![n].transition = k]
           records == GetIterator(OutgoingFrom(f)[k], f.node)
<1>1. n \in Nat \ {0} /\ DOMAIN stack = 1 .. n /\ n \in DOMAIN stack /\ f \in Frames
    BY StackTop
<1>2. DOMAIN moved = 1 .. n /\ moved[n] = [f EXCEPT !.transition = k]
    <2> HIDE DEF n
    <2> QED BY <1>1, ExceptFacts
<1>3. Len(moved) = n
    BY <1>1, <1>2
<1>4. /\ moved[n].automaton_state = f.automaton_state
      /\ moved[n].transition = k /\ moved[n].node = f.node
    BY <1>1, <1>2 DEF Frames
<1> HIDE DEF moved
<1>5. Stack!SetIter(moved) = [moved EXCEPT ![n].iter = records, ![n].at_end = FALSE]
    BY <1>3, <1>4, StackNames DEF Stack!SetIter, OutgoingFrom
<1>6. Stack!SetIter(moved) =
          [moved EXCEPT ![n] = [moved[n] EXCEPT !.iter = records, !.at_end = FALSE]]
    BY <1>1, <1>2, <1>5
<1>7. Stack!SetIter(moved) = [moved EXCEPT ![n] = AtTransition(f, k)]
    BY <1>2, <1>6 DEF AtTransition
<1>8. [moved EXCEPT ![n] = AtTransition(f, k)] = [stack EXCEPT ![n] = AtTransition(f, k)]
    BY DEF moved
<1> QED BY <1>7, <1>8 DEF moved

\* set_iter() for a transition of the state on top.
MovedTo(stack, k) == Stack!SetIter([stack EXCEPT ![Len(stack)].transition = k])

LEMMA StackMove ==
    ASSUME NEW closing, NEW stack, StackInv(stack, closing), stack # <<>>,
           NEW k \in 1 .. Len(OutgoingFrom(stack[Len(stack)])),
           NEW moved, moved = MovedTo(stack, k)
    PROVE  /\ StackInv(moved, closing) /\ SameSteps(moved, stack)
           /\ moved # <<>> /\ ~moved[Len(moved)].at_end
<1> DEFINE f == stack[Len(stack)]
           g == AtTransition(f, k)
<1>1. f \in Frames /\ OutgoingFrom(f) \in Seq(Transition) /\ stack \in Seq(Frames)
    BY TopOf DEF StackInv
<1>2. k \in Nat /\ k \in DOMAIN OutgoingFrom(f)
    BY <1>1
<1>3. OutgoingFrom(f)[k] \in Transition /\ f.node \in NodeIds
    BY <1>1, <1>2 DEF Frames
<1> HIDE DEF f
<1>4. GetIterator(OutgoingFrom(f)[k], f.node) \subseteq Records
    BY <1>3 DEF Records
<1>5. /\ g \in Frames /\ g.automaton_state = f.automaton_state /\ g.node = f.node
      /\ g.edge = f.edge /\ ~g.at_end /\ g.transition = k
      /\ g.iter = GetIterator(OutgoingFrom(f)[k], f.node)
    BY <1>1, <1>2, <1>4 DEF AtTransition, Frames
<1>6. OutgoingFrom(g) = OutgoingFrom(f)
    BY <1>5 DEF OutgoingFrom
<1> HIDE DEF g
<1>7. k \in 1 .. Len(OutgoingFrom(f))
    BY DEF f
<1>8. FrameInv(g, closing)
    BY <1>5, <1>6, <1>7 DEF FrameInv
<1>9. moved = Retopped(stack, g)
    BY <1>1, <1>2, SetIterTop DEF f, g, Retopped, MovedTo
<1>10. /\ g.automaton_state = stack[Len(stack)].automaton_state
       /\ g.node = stack[Len(stack)].node /\ g.edge = stack[Len(stack)].edge
    BY <1>5 DEF f
<1>11. /\ StackInv(moved, closing) /\ SameSteps(moved, stack)
       /\ moved # <<>> /\ moved[Len(moved)] = g
    BY <1>5, <1>8, <1>9, <1>10, RetopStack
<1> QED BY <1>5, <1>11

\* The record r is taken from the iterator of the frame on top.
Consumed(stack, r) == [stack EXCEPT ![Len(stack)].iter = @ \ {r}]

LEMMA StackConsume ==
    ASSUME NEW closing, NEW stack, StackInv(stack, closing), stack # <<>>,
           ~stack[Len(stack)].at_end, NEW r
    PROVE  LET consumed == Consumed(stack, r)
               f == stack[Len(stack)]
               g == consumed[Len(consumed)]
           IN  /\ StackInv(consumed, closing) /\ SameSteps(consumed, stack)
               /\ consumed # <<>> /\ ~g.at_end
               /\ g.automaton_state = f.automaton_state /\ g.transition = f.transition
               /\ g.node = f.node
<1> DEFINE f == stack[Len(stack)]
           g == [f EXCEPT !.iter = @ \ {r}]
<1>1. f \in Frames /\ FrameInv(f, closing) /\ ~f.at_end
    BY TopOf
<1> HIDE DEF f
<1>2. /\ g \in Frames /\ g.automaton_state = f.automaton_state /\ g.node = f.node
      /\ g.edge = f.edge /\ ~g.at_end /\ g.transition = f.transition
      /\ g.iter \subseteq f.iter
    BY <1>1 DEF Frames
<1>3. OutgoingFrom(g) = OutgoingFrom(f)
    BY <1>2 DEF OutgoingFrom
<1>4. Consumed(stack, r) = [stack EXCEPT ![Len(stack)] = g]
    BY DEF Consumed, f
<1> HIDE DEF g
<1>5. FrameInv(g, closing)
    BY <1>1, <1>2, <1>3 DEF FrameInv
<1>6. /\ g.automaton_state = stack[Len(stack)].automaton_state
      /\ g.node = stack[Len(stack)].node /\ g.edge = stack[Len(stack)].edge
    BY <1>2 DEF f
<1> DEFINE consumed == Consumed(stack, r)
<1> HIDE DEF consumed
<1>7. /\ StackInv(consumed, closing) /\ SameSteps(consumed, stack)
      /\ consumed # <<>> /\ consumed[Len(consumed)] = g
  <2>1. consumed = Retopped(stack, g)
      BY <1>4 DEF consumed, Retopped
  <2> QED BY <1>2, <1>5, <1>6, <2>1, RetopStack
<1>8. /\ StackInv(consumed, closing) /\ SameSteps(consumed, stack)
      /\ consumed # <<>> /\ ~consumed[Len(consumed)].at_end
      /\ consumed[Len(consumed)].automaton_state = f.automaton_state
      /\ consumed[Len(consumed)].transition = f.transition
      /\ consumed[Len(consumed)].node = f.node
    BY <1>2, <1>7
<1> QED BY <1>8 DEF consumed, f

\* A frame for the record r of transition t, at its transition m.
NewFrame(t, r, m) ==
    [automaton_state |-> t.to, transition |-> m, iter |-> {}, at_end |-> TRUE,
     node |-> r.node, edge |-> r.edge, inverse |-> t.inverse]

\* Where a new frame can be: only a closed cycle is marked.
StartsAt(t, m, closing) == m = 1 \/ (closing /\ m = Len(Connections[t.to]) + 1)

\* The record is taken and leads to a new frame, which may close a cycle.
Grown(stack, r, t, m) == Append(Consumed(stack, r), NewFrame(t, r, m))

\* r was found by the top, which t is the transition of.
Found(closing, stack, r, t, m) ==
    /\ StackInv(stack, closing) /\ stack # <<>>
    /\ ~stack[Len(stack)].at_end /\ r \in stack[Len(stack)].iter
    /\ t = OutgoingFrom(stack[Len(stack)])[stack[Len(stack)].transition]
    /\ StartsAt(t, m, closing)

GrowsTo(closing, stack, r, f, longer) ==
    /\ StackInv(longer, closing)
    /\ longer # <<>> /\ Len(longer) > 1 /\ longer[Len(longer)] = f
    /\ longer[1].node = stack[1].node
    /\ EdgesOnce(stack) /\ NewEdge(stack, r.edge) => EdgesOnce(longer)
    /\ NodesOnce(stack) /\ NewNode(stack, r.node) => NodesOnce(longer)
    /\ NodesOnce(stack) => NodesOnceBelow(longer)

LEMMA StackReach ==
    ASSUME NEW closing, NEW stack, NEW r, NEW t, NEW m, Found(closing, stack, r, t, m),
           NEW longer, longer = Grown(stack, r, t, m)
    PROVE  GrowsTo(closing, stack, r, NewFrame(t, r, m), longer)
<1>0. /\ StackInv(stack, closing) /\ stack # <<>>
      /\ ~stack[Len(stack)].at_end /\ r \in stack[Len(stack)].iter
      /\ t = OutgoingFrom(stack[Len(stack)])[stack[Len(stack)].transition]
      /\ StartsAt(t, m, closing)
    BY DEF Found
<1> DEFINE f == stack[Len(stack)]
           consumed == Consumed(stack, r)
           g == consumed[Len(consumed)]
           h == NewFrame(t, r, m)
<1>1. /\ f \in Frames /\ FrameInv(f, closing) /\ ~f.at_end /\ OutgoingFrom(f) \in Seq(Transition)
    BY <1>0, TopOf
<1>2. /\ StackInv(consumed, closing) /\ SameSteps(consumed, stack) /\ consumed # <<>>
      /\ g.automaton_state = f.automaton_state /\ g.transition = f.transition /\ g.node = f.node
    BY <1>0, StackConsume
<1>3. r \in f.iter /\ t = OutgoingFrom(f)[f.transition] /\ longer = Append(consumed, h)
    BY <1>0 DEF Grown
<1>4. 1 \in DOMAIN stack
    <2>1. Len(stack) \in Nat \ {0} /\ DOMAIN stack = 1 .. Len(stack)
        BY <1>0, StackTop DEF StackInv
    <2> QED BY <2>1
<1> HIDE DEF f, consumed, g, h
<1>5. t \in Transition /\ r \in GetIterator(t, f.node) /\ f.node \in NodeIds
    <2>1. f.transition \in DOMAIN OutgoingFrom(f) /\ f.iter \subseteq GetIterator(OutgoingFrom(f)[f.transition], f.node)
        BY <1>1 DEF FrameInv
    <2>2. f.node \in NodeIds
        BY <1>1 DEF Frames
    <2> QED BY <1>1, <1>3, <2>1, <2>2
<1>6. r.node \in NodeIds /\ r.edge \in EdgeIds /\ [node |-> r.node, edge |-> r.edge] \in GetIterator(t, f.node)
    BY <1>5, RecordType
<1>7. t.to \in States /\ t.inverse \in BOOLEAN /\ Connections[t.to] \in Seq(Transition)
    BY <1>5 DEF Transition
<1>8. m \in Nat
    BY <1>0, <1>7 DEF StartsAt
<1>9. /\ h \in Frames /\ h.automaton_state = t.to /\ h.transition = m /\ h.at_end
      /\ h.node = r.node /\ h.edge = r.edge
    BY <1>6, <1>7, <1>8 DEF h, NewFrame, Frames
<1>10. FrameInv(h, closing)
    BY <1>0, <1>9 DEF FrameInv, OutgoingFrom, StartsAt
<1>11. Follows(g, h)
    <2>1. Connections[g.automaton_state][g.transition] = t
        BY <1>2, <1>3 DEF OutgoingFrom
    <2> QED BY <1>2, <1>6, <1>9, <2>1 DEF Follows
<1>12. /\ StackInv(longer, closing)
       /\ longer # <<>> /\ longer[Len(longer)] = h /\ Len(longer) > 1
       /\ EdgesOnce(consumed) /\ NewEdge(consumed, h.edge) => EdgesOnce(longer)
       /\ NodesOnce(consumed) /\ NewNode(consumed, h.node) => NodesOnce(longer)
       /\ NodesOnce(consumed) => NodesOnceBelow(longer)
       /\ longer[1] = consumed[1]
  <2>1. Follows(consumed[Len(consumed)], h) /\ longer = Pushed(consumed, h)
      BY <1>3, <1>11 DEF g, Pushed
  <2>2. StackInv(consumed, closing) /\ consumed # <<>> /\ h \in Frames /\ FrameInv(h, closing)
      BY <1>2, <1>9, <1>10
  <2> QED BY <2>1, <2>2, PushStack
<1>13. longer[1].node = stack[1].node
    BY <1>2, <1>4, <1>12 DEF SameSteps
<1>14. /\ EdgesOnce(stack) => EdgesOnce(consumed)
       /\ NodesOnce(stack) => NodesOnce(consumed)
       /\ NewEdge(stack, h.edge) => NewEdge(consumed, h.edge)
       /\ NewNode(stack, h.node) => NewNode(consumed, h.node)
    BY <1>2 DEF SameSteps, EdgesOnce, NodesOnce, NewEdge, NewNode
<1>15. longer[Len(longer)] = NewFrame(t, r, m)
    BY <1>12 DEF h
<1> QED BY <1>9, <1>12, <1>13, <1>14, <1>15 DEF GrowsTo

-----------------------------------------------------------------------------
(* The depth-first searches keep one path on their stack.                  *)

\* Only an enumeration of SIMPLE paths marks the frame that closed a cycle.
Closing == class.walks # "trails" /\ class.cyclic /\ ~class.check

\* The top closes a cycle, and is not expanded before it is dropped.
ClosedTop ==
    /\ class.cyclic
    /\ Len(open) > 1
    /\ open[Len(open)].node = start /\ open[Len(open)].at_end
    /\ NodesOnceBelow(open)
    /\ IF class.check THEN open[Len(open)].node = end
       ELSE open[Len(open)].transition = Len(OutgoingFrom(open[Len(open)])) + 1

DfsInv ==
    /\ start \in NodeIds
    /\ StackInv(open, Closing)
    /\ open # <<>> => open[1].node = start
    /\ first_next => pc = "ready" /\ open # <<>>
    /\ pc = "expand" => open # <<>> /\ ~open[Len(open)].at_end
    /\ IF class.walks = "trails" THEN EdgesOnce(open) ELSE NodesOnce(open) \/ ClosedTop

LEMMA OneElement ==
    ASSUME NEW S, NEW x \in S
    PROVE  /\ <<x>> \in Seq(S) /\ Len(<<x>>) = 1 /\ DOMAIN <<x>> = {1} /\ <<x>>[1] = x
           /\ <<x>> # <<>>
BY OneNotEmpty

\* The stack of the start node, and the empty one.
LEMMA StartStack ==
    ASSUME NEW closing, NEW n \in NodeIds, NEW stack,
           stack = <<Stack!Frame(StartState, n, Stack!NoEdge, FALSE)>>
    PROVE  /\ StackInv(stack, closing) /\ EdgesOnce(stack) /\ NodesOnce(stack)
           /\ stack # <<>> /\ stack[1].node = n
<1> DEFINE f == Stack!Frame(StartState, n, Stack!NoEdge, FALSE)
<1>1. f \in Frames /\ f.at_end /\ f.transition = 1 /\ f.node = n
    BY StackNames DEF Stack!Frame, Frames, EdgeIds
<1> HIDE DEF f
<1>2. /\ stack \in Seq(Frames) /\ Len(stack) = 1 /\ DOMAIN stack = {1} /\ stack[1] = f
      /\ stack # <<>>
  <2>1. stack = <<f>>
      BY DEF f
  <2>2. /\ <<f>> \in Seq(Frames) /\ Len(<<f>>) = 1 /\ DOMAIN <<f>> = {1} /\ <<f>>[1] = f
        /\ <<f>> # <<>>
      BY <1>1, OneElement
  <2> QED BY ONLY <2>1, <2>2
<1>3. FrameInv(stack[1], closing)
    BY <1>1, <1>2 DEF FrameInv
<1>4. 1 .. Len(stack) - 1 = {}
    BY <1>2
<1> QED BY <1>1, <1>2, <1>3, <1>4 DEF StackInv, EdgesOnce, NodesOnce

LEMMA EmptyStack ==
    ASSUME NEW closing
    PROVE  StackInv(<<>>, closing) /\ EdgesOnce(<<>>) /\ NodesOnce(<<>>)
<1>1. <<>> \in Seq(Frames) /\ DOMAIN <<>> = {} /\ 1 .. Len(<<>>) - 1 = {}
    OBVIOUS
<1> QED BY <1>1 DEF StackInv, EdgesOnce, NodesOnce

LEMMA DfsInit == Stack!Init => DfsInv
<1> SUFFICES ASSUME Stack!Init PROVE DfsInv
    OBVIOUS
<1>1. /\ start \in NodeIds /\ pc = "ready"
      /\ open = <<Stack!Frame(StartState, start, Stack!NoEdge, FALSE)>>
    BY DEF Stack!Init
<1>2. /\ StackInv(open, Closing) /\ EdgesOnce(open) /\ NodesOnce(open)
      /\ open # <<>> /\ open[1].node = start
    BY <1>1, StartStack
<1> QED BY <1>1, <1>2 DEF DfsInv

\* A frame leaves the stack.
LEMMA DfsPop ==
    ASSUME DfsInv, open # <<>>, open' = SubSeq(open, 1, Len(open) - 1),
           UNCHANGED <<class, start>>, ~first_next', pc' # "expand"
    PROVE  DfsInv'
<1>1. /\ StackInv(open', Closing)
      /\ EdgesOnce(open) => EdgesOnce(open')
      /\ NodesOnce(open) => NodesOnceBelow(open)
      /\ NodesOnceBelow(open) => NodesOnce(open')
    BY PopStack DEF DfsInv
<1>2. open' # <<>> => open'[1].node = start'
  <2>1. /\ open \in Seq(Frames) /\ Len(open) \in Nat \ {0} /\ Len(open') = Len(open) - 1
        /\ \A i \in 1 .. Len(open) - 1 : open'[i] = open[i]
      BY StackTop DEF DfsInv, StackInv
  <2>2. open' # <<>> => 1 \in 1 .. Len(open) - 1
    <3>1. ASSUME Len(open) = 1 PROVE open' = <<>>
        BY <2>1, <3>1
    <3> QED BY <2>1, <3>1
  <2> QED BY <2>1, <2>2 DEF DfsInv
<1>3. IF class.walks = "trails" THEN EdgesOnce(open') ELSE NodesOnce(open')
    BY <1>1 DEF DfsInv, ClosedTop
<1>4. Closing' = Closing
    BY DEF Closing
<1> QED BY <1>1, <1>2, <1>3, <1>4 DEF DfsInv

\* Only the top changes, to a frame with the same step, which is being expanded.
LEMMA DfsRetop ==
    ASSUME DfsInv, open # <<>>, NodesOnce(open) \/ class.walks = "trails",
           StackInv(open', Closing), SameSteps(open', open), open' # <<>>,
           ~open'[Len(open')].at_end, UNCHANGED <<class, start>>, ~first_next'
    PROVE  DfsInv'
<1>1. 1 \in DOMAIN open
    BY StackTop DEF DfsInv, StackInv
<1>2. open'[1].node = start'
    BY <1>1 DEF DfsInv, SameSteps
<1>3. IF class.walks = "trails" THEN EdgesOnce(open') ELSE NodesOnce(open')
    BY SameKept DEF DfsInv
<1>4. Closing' = Closing
    BY DEF Closing
<1> QED BY <1>2, <1>3, <1>4 DEF DfsInv

\* Steps that leave the stack alone, and those that drop all of it.
LEMMA DfsKeep ==
    ASSUME DfsInv, UNCHANGED <<class, start, end, open>>, ~first_next',
           pc' = "expand" => open # <<>> /\ ~open[Len(open)].at_end
    PROVE  DfsInv'
<1>1. Closing' = Closing /\ (ClosedTop => ClosedTop')
    BY DEF Closing, ClosedTop
<1> QED BY <1>1 DEF DfsInv

LEMMA DfsClear ==
    ASSUME DfsInv, UNCHANGED <<class, start>>, open' = <<>>, ~first_next', pc' # "expand"
    PROVE  DfsInv'
<1>1. Closing' = Closing
    BY DEF Closing
<1> QED BY <1>1, EmptyStack DEF DfsInv

LEMMA DfsReset == ASSUME DfsInv, NEW n \in NodeIds, NEW e, Stack!Reset(n, e) PROVE DfsInv'
<1>1. /\ start' = n /\ pc' = "ready" /\ class' = class
      /\ open' = <<Stack!Frame(StartState, n, Stack!NoEdge, FALSE)>>
    BY DEF Stack!Reset
<1>2. /\ StackInv(open', Closing) /\ EdgesOnce(open') /\ NodesOnce(open')
      /\ open' # <<>> /\ open'[1].node = n
    BY <1>1, StartStack
<1>3. Closing' = Closing
    BY <1>1 DEF Closing
<1> QED BY <1>1, <1>2, <1>3 DEF DfsInv

\* The first set_iter() of a frame that is at its first transition.
LEMMA FirstMove ==
    ASSUME NEW closing, NEW stack, StackInv(stack, closing), stack # <<>>,
           stack[Len(stack)].transition = 1, OutgoingFrom(stack[Len(stack)]) # <<>>
    PROVE  Stack!SetIter(stack) = MovedTo(stack, 1) /\ 1 \in 1 .. Len(OutgoingFrom(stack[Len(stack)]))
<1> DEFINE n == Len(stack)
           f == stack[n]
<1>1. n \in DOMAIN stack /\ f \in Frames /\ OutgoingFrom(f) \in Seq(Transition)
    BY TopOf
<1>2. f = [f EXCEPT !.transition = 1]
  <2> HIDE DEF f
  <2>1. f.transition = 1 /\ f \in Frames
      BY <1>1 DEF f
  <2> QED BY <2>1 DEF Frames
<1>3. 1 \in 1 .. Len(OutgoingFrom(f))
    BY <1>1
<1> HIDE DEF n
<1>4. stack \in Seq(Frames)
    BY DEF StackInv
<1>5. stack = [stack EXCEPT ![n] = f]
    BY <1>1, <1>4 DEF n
<1>6. stack = [stack EXCEPT ![n].transition = 1]
    BY <1>2, <1>5
<1> QED BY <1>3, <1>6 DEF MovedTo, n

\* What is on top when a frame is expanded, and what set_iter() makes of it.
LEMMA AtFirst ==
    ASSUME DfsInv, NEW popped, Stack!ExpandFirst(popped),
           class.walks # "trails" => (popped <=> Stack!NotExpanded)
    PROVE  /\ open[Len(open)].transition = 1
           /\ OutgoingFrom(open[Len(open)]) \in Seq(Transition) /\ open \in Seq(Frames)
<1>0. /\ open # <<>> /\ open[Len(open)].at_end /\ ~popped
    BY DEF Stack!ExpandFirst, Stack!Top
<1>1. /\ FrameInv(open[Len(open)], Closing) /\ OutgoingFrom(open[Len(open)]) \in Seq(Transition)
      /\ open \in Seq(Frames)
    BY <1>0, TopOf DEF DfsInv, StackInv
<1>2. CASE Closing /\ open[Len(open)].transition = Len(OutgoingFrom(open[Len(open)])) + 1
  <2>1. Stack!NotExpanded
    <3>1. open[Len(open)].transition > Len(OutgoingFrom(open[Len(open)]))
        BY <1>1, <1>2
    <3> QED BY <1>2, <3>1 DEF Closing, Stack!NotExpanded, Stack!CycleOnTop, Stack!Check,
                              Stack!Cyclic, Stack!Top, OutgoingFrom
  <2> QED BY <1>0, <1>2, <2>1 DEF Closing
<1> QED BY <1>0, <1>1, <1>2 DEF FrameInv

LEMMA DfsExpandFirst ==
    ASSUME DfsInv, NEW popped, Stack!ExpandFirst(popped),
           class.walks # "trails" => (popped <=> Stack!NotExpanded)
    PROVE  DfsInv'
<1>1. /\ open # <<>> /\ open[Len(open)].at_end /\ ~popped /\ pc = "loop"
      /\ UNCHANGED <<class, start, first_next>> /\ ~first_next
    BY DEF Stack!ExpandFirst, Stack!Top, DfsInv
<1>2. ~ClosedTop \/ class.walks = "trails"
  <2> SUFFICES ASSUME ClosedTop, class.walks # "trails" PROVE FALSE
      OBVIOUS
  <2>1. OutgoingFrom(open[Len(open)]) \in Seq(Transition)
      BY <1>1, TopOf DEF DfsInv
  <2>2. Stack!NotExpanded
    <3>1. CASE class.check
        BY <3>1 DEF ClosedTop, Stack!NotExpanded, Stack!EndOnTop, Stack!Check, Stack!Any,
                    Stack!AnyCheckStops, Stack!AllCheckStops, Stack!Top
    <3>2. CASE ~class.check
      <4>1. open[Len(open)].transition > Len(OutgoingFrom(open[Len(open)]))
          BY <2>1, <3>2 DEF ClosedTop
      <4> QED BY <3>2, <4>1 DEF ClosedTop, Stack!NotExpanded, Stack!CycleOnTop, Stack!Check,
                                Stack!Cyclic, Stack!Top, OutgoingFrom
    <3> QED BY <3>1, <3>2
  <2> QED BY <1>1, <2>2
<1>3. /\ open[Len(open)].transition = 1
      /\ OutgoingFrom(open[Len(open)]) \in Seq(Transition) /\ open \in Seq(Frames)
    BY AtFirst
<1>4. CASE OutgoingFrom(open[Len(open)]) = <<>>
  <2>1. open' = SubSeq(open, 1, Len(open) - 1) /\ pc' = "loop"
      BY <1>1, <1>4 DEF Stack!ExpandFirst, Stack!Pop, Stack!Top, OutgoingFrom
  <2> QED BY <1>1, <2>1, DfsPop
<1>5. CASE OutgoingFrom(open[Len(open)]) # <<>>
  <2>1. open' = Stack!SetIter(open)
      BY <1>1, <1>5 DEF Stack!ExpandFirst, Stack!Top, OutgoingFrom
  <2>2. open' = MovedTo(open, 1) /\ 1 \in 1 .. Len(OutgoingFrom(open[Len(open)]))
      BY <1>1, <1>3, <1>5, <2>1, FirstMove DEF DfsInv
  <2>3. /\ StackInv(open', Closing) /\ SameSteps(open', open)
        /\ open' # <<>> /\ ~open'[Len(open')].at_end
    <3>1. StackInv(open, Closing)
        BY DEF DfsInv
    <3> QED BY <1>1, <2>2, <3>1, StackMove
  <2>4. NodesOnce(open) \/ class.walks = "trails"
      BY <1>2 DEF DfsInv
  <2> QED BY <1>1, <2>3, <2>4, DfsRetop
<1> QED BY <1>4, <1>5

LEMMA DfsNextTransition == ASSUME DfsInv, Stack!NextTransition PROVE DfsInv'
<1>1. /\ open # <<>> /\ ~open[Len(open)].at_end /\ pc = "expand" /\ ~first_next
      /\ UNCHANGED <<class, start, first_next>>
    BY DEF Stack!NextTransition, DfsInv
<1>2. StackInv(open, Closing) /\ (NodesOnce(open) \/ class.walks = "trails")
    BY <1>1 DEF DfsInv, ClosedTop
<1>3. /\ FrameInv(open[Len(open)], Closing) /\ open[Len(open)] \in Frames
      /\ OutgoingFrom(open[Len(open)]) \in Seq(Transition) /\ Len(open) \in DOMAIN open
    BY <1>1, TopOf DEF DfsInv
<1>4. open[Len(open)].transition \in 1 .. Len(OutgoingFrom(open[Len(open)]))
    BY <1>1, <1>3 DEF FrameInv
<1>5. CASE Stack!MoreTransitions
  <2>1. open[Len(open)].transition + 1 \in 1 .. Len(OutgoingFrom(open[Len(open)]))
      BY <1>3, <1>4, <1>5 DEF Stack!MoreTransitions, Stack!Top, OutgoingFrom
  <2>2. open' = MovedTo(open, open[Len(open)].transition + 1)
      BY <1>3, <1>5 DEF Stack!NextTransition, MovedTo
  <2>3. /\ StackInv(open', Closing) /\ SameSteps(open', open)
        /\ open' # <<>> /\ ~open'[Len(open')].at_end
    <3>1. StackInv(open, Closing)
        BY DEF DfsInv
    <3> QED BY <1>1, <2>1, <2>2, <3>1, StackMove
  <2> QED BY <1>1, <1>2, <2>3, DfsRetop
<1>6. CASE ~Stack!MoreTransitions
  <2>1. open' = SubSeq(open, 1, Len(open) - 1) /\ pc' = "loop"
      BY <1>6 DEF Stack!NextTransition, Stack!Pop
  <2> QED BY <1>1, <2>1, DfsPop
<1> QED BY <1>5, <1>6

\* A record that does not lead on is dropped.
LEMMA DfsConsume ==
    ASSUME DfsInv, pc = "expand", NEW r, open' = Consumed(open, r),
           UNCHANGED <<class, start, first_next>>
    PROVE  DfsInv'
<1>1. /\ open # <<>> /\ ~open[Len(open)].at_end /\ ~first_next /\ StackInv(open, Closing)
      /\ NodesOnce(open) \/ class.walks = "trails"
    BY DEF DfsInv, ClosedTop
<1>2. /\ StackInv(open', Closing) /\ SameSteps(open', open)
      /\ open' # <<>> /\ ~open'[Len(open')].at_end
    BY <1>1, StackConsume
<1> QED BY <1>1, <1>2, DfsRetop

\* The frame FrameOf makes of a record, and the one that closes a cycle.
LEMMA FramesFound ==
    ASSUME DfsInv, pc = "expand", NEW r \in open[Len(open)].iter
    PROVE  LET t == OutgoingFrom(open[Len(open)])[open[Len(open)].transition]
           IN  /\ Stack!FrameOf(r) = NewFrame(t, r, 1)
               /\ Stack!ClosingFrame(Stack!FrameOf(r)) =
                      NewFrame(t, r, IF class.check THEN 1 ELSE Len(Connections[t.to]) + 1)
<1> DEFINE t == OutgoingFrom(open[Len(open)])[open[Len(open)].transition]
<1>1. Stack!FrameOf(r) = NewFrame(t, r, 1)
    BY DEF Stack!FrameOf, Stack!Frame, Stack!TopTransition, Stack!Top, NewFrame, OutgoingFrom
<1> HIDE DEF t
<1>2. Stack!ClosingFrame(NewFrame(t, r, 1)) =
          NewFrame(t, r, IF class.check THEN 1 ELSE Len(Connections[t.to]) + 1)
    BY DEF Stack!ClosingFrame, Stack!Check, NewFrame
<1> QED BY <1>1, <1>2 DEF t

LEMMA DfsVisitTrail == ASSUME DfsInv, Stack!VisitTrail PROVE DfsInv'
<1>1. /\ pc = "expand" /\ open # <<>> /\ ~open[Len(open)].at_end /\ ~first_next
      /\ UNCHANGED <<class, start, first_next>> /\ StackInv(open, Closing)
      /\ class.walks = "trails"
    BY DEF Stack!VisitTrail, Stack!SelectsTrails, DfsInv
<1>2. PICK r \in open[Len(open)].iter :
          LET f == Stack!FrameOf(r)
          IN  IF ~Stack!ExtendsTrail(Stack!PathOf(open), r.edge)
              THEN open' = Consumed(open, r) /\ pc' = pc
              ELSE open' = Append(Consumed(open, r), f) /\ pc' # "expand"
    BY DEF Stack!VisitTrail, Stack!Top, Stack!Return, Stack!Consumed, Consumed
<1>3. CASE ~Stack!ExtendsTrail(Stack!PathOf(open), r.edge)
    BY <1>1, <1>2, <1>3, DfsConsume
<1>4. CASE Stack!ExtendsTrail(Stack!PathOf(open), r.edge)
  <2> DEFINE t == OutgoingFrom(open[Len(open)])[open[Len(open)].transition]
  <2>1. open' = Grown(open, r, t, 1) /\ pc' # "expand"
      BY <1>1, <1>2, <1>4, FramesFound DEF Grown
  <2>2. NewEdge(open, r.edge)
      BY <1>4, StackNames DEF Stack!ExtendsTrail, Stack!PathOf, is_trail, NewEdge
  <2>3. /\ StackInv(open', Closing) /\ open' # <<>> /\ open'[1].node = open[1].node
        /\ EdgesOnce(open) => EdgesOnce(open')
    <3>1. Found(Closing, open, r, t, 1)
        BY <1>1, <1>2 DEF Found, StartsAt
    <3>2. GrowsTo(Closing, open, r, NewFrame(t, r, 1), open')
        BY <2>1, <3>1, StackReach
    <3> QED BY <2>2, <3>2 DEF GrowsTo
  <2>4. Closing' = Closing
      BY <1>1 DEF Closing
  <2> QED BY <1>1, <2>1, <2>3, <2>4 DEF DfsInv
<1> QED BY <1>3, <1>4

LEMMA DfsVisitSimple == ASSUME DfsInv, Stack!VisitSimple PROVE DfsInv'
<1>1. /\ pc = "expand" /\ open # <<>> /\ ~open[Len(open)].at_end /\ ~first_next
      /\ UNCHANGED <<class, start, end, first_next>> /\ StackInv(open, Closing)
      /\ class.walks = "simple" /\ NodesOnce(open)
    BY DEF Stack!VisitSimple, Stack!SelectsSimple, DfsInv, ClosedTop
<1>2. PICK r \in open[Len(open)].iter :
          LET f == Stack!FrameOf(r)
              simple == Stack!IsSimple(Stack!PathOf(open), r.node)
          IN  \/ simple /\ Stack!Reach(r, f)
              \/ ~simple /\ Stack!ClosesCycle(f) /\ Stack!Reach(r, Stack!ClosingFrame(f))
              \/ open' = Consumed(open, r)
    BY DEF Stack!VisitSimple, Stack!Top, Stack!Consumed, Consumed
<1> DEFINE t == OutgoingFrom(open[Len(open)])[open[Len(open)].transition]
<1>3. /\ Stack!FrameOf(r) = NewFrame(t, r, 1)
      /\ Stack!ClosingFrame(Stack!FrameOf(r)) =
             NewFrame(t, r, IF class.check THEN 1 ELSE Len(Connections[t.to]) + 1)
    BY <1>1, FramesFound
<1>4. Closing' = Closing
    BY <1>1 DEF Closing
<1>5. CASE open' = Consumed(open, r)
    BY <1>1, <1>5, DfsConsume
<1>6. CASE Stack!IsSimple(Stack!PathOf(open), r.node) /\ Stack!Reach(r, Stack!FrameOf(r))
  <2>1. open' = Grown(open, r, t, 1) /\ pc' # "expand"
      BY <1>3, <1>6 DEF Stack!Reach, Stack!Return, Stack!Consumed, Consumed, Grown
  <2>2. NewNode(open, r.node)
      BY <1>6, StackNames DEF Stack!IsSimple, Stack!PathOf, is_simple_path, NewNode
  <2>3. /\ StackInv(open', Closing) /\ open' # <<>> /\ open'[1].node = open[1].node
        /\ NodesOnce(open')
    <3>1. Found(Closing, open, r, t, 1)
        BY <1>1, <1>2 DEF Found, StartsAt
    <3>2. GrowsTo(Closing, open, r, NewFrame(t, r, 1), open')
        BY <2>1, <3>1, StackReach
    <3> QED BY <1>1, <2>2, <3>2 DEF GrowsTo
  <2> QED BY <1>1, <1>4, <2>1, <2>3 DEF DfsInv
<1>7. CASE Stack!ClosesCycle(Stack!FrameOf(r)) /\ Stack!Reach(r, Stack!ClosingFrame(Stack!FrameOf(r)))
  <2> DEFINE m == IF class.check THEN 1 ELSE Len(Connections[t.to]) + 1
  <2>1. open' = Grown(open, r, t, m) /\ pc' # "expand"
      BY <1>3, <1>7 DEF Stack!Reach, Stack!Return, Stack!Consumed, Consumed, Grown
  <2>2. class.cyclic /\ r.node = start /\ (class.check => start = end)
    <3>1. Stack!FrameOf(r).node = r.node
        BY <1>3 DEF NewFrame
    <3> QED BY <1>7, <3>1 DEF Stack!ClosesCycle, Stack!Cyclic, Stack!Check, Stack!AllEnumCloses,
               Stack!AllCheckCloses, Stack!AnyEnumCloses, Stack!AnyCheckCloses
  <2>3. StartsAt(t, m, Closing)
      BY <1>1, <2>2 DEF Closing, StartsAt
  <2>4. /\ StackInv(open', Closing) /\ open' # <<>> /\ open'[1].node = open[1].node
        /\ Len(open') > 1 /\ open'[Len(open')] = NewFrame(t, r, m) /\ NodesOnceBelow(open')
    <3> HIDE DEF m
    <3>1. Found(Closing, open, r, t, m)
        BY <1>1, <1>2, <2>3 DEF Found
    <3>2. GrowsTo(Closing, open, r, NewFrame(t, r, m), open')
        BY <2>1, <3>1, StackReach
    <3> QED BY <1>1, <3>2 DEF GrowsTo
  <2>5. ClosedTop'
    <3>1. /\ open'[Len(open')].node = start /\ open'[Len(open')].at_end
          /\ open'[Len(open')].automaton_state = t.to /\ open'[Len(open')].transition = m
      <4> DEFINE f == NewFrame(t, r, m)
      <4>1. f.node = r.node /\ f.at_end /\ f.automaton_state = t.to /\ f.transition = m
          BY DEF NewFrame
      <4> HIDE DEF f, m
      <4> QED BY <2>2, <2>4, <4>1 DEF f
    <3>2. IF class.check THEN start = end ELSE m = Len(Connections[t.to]) + 1
        BY <2>2
    <3> HIDE DEF t, m
    <3>3. UNCHANGED <<class, start, end>>
        BY <1>1
    <3> QED BY <2>2, <2>4, <3>1, <3>2, <3>3 DEF ClosedTop, OutgoingFrom
  <2> QED BY <1>1, <1>4, <2>1, <2>4, <2>5 DEF DfsInv
<1> QED BY <1>2, <1>5, <1>6, <1>7

LEMMA DfsStep ==
    ASSUME DfsInv,
           \/ Stack!Pipeline \/ Stack!TrailStep \/ Stack!SimpleStep \/ Stack!Interrupt
           \/ \E n \in NodeIds : \E e \in EndsOf(class) : Stack!Reset(n, e)
    PROVE  DfsInv'
<1>1. CASE Stack!StartMissing
  <2>1. /\ open # <<>> /\ open' = SubSeq(open, 1, Len(open) - 1)
        /\ UNCHANGED <<class, start>> /\ ~first_next' /\ pc' # "expand"
      BY <1>1 DEF Stack!StartMissing, Stack!Pop, DfsInv
  <2> QED BY <2>1, DfsPop
<1>2. CASE Stack!ReturnStart
    BY <1>2, DfsKeep DEF Stack!ReturnStart, Stack!Return
<1>3. CASE Stack!Exhausted
    BY <1>3, DfsKeep DEF Stack!Exhausted, DfsInv
<1>4. CASE Stack!NextTransition
    BY <1>4, DfsNextTransition
<1>5. CASE Stack!StopAfterAnswer \/ Stack!NoAnswerAtEnd \/ Stack!StopAtEnd
  <2>1. open' = <<>> /\ UNCHANGED <<class, start>> /\ ~first_next' /\ pc' # "expand"
      BY <1>5 DEF Stack!StopAfterAnswer, Stack!NoAnswerAtEnd, Stack!StopAtEnd, Stack!Clear, DfsInv
  <2> QED BY <2>1, DfsClear
<1>6. CASE Stack!VisitTrail
    BY <1>6, DfsVisitTrail
<1>7. CASE Stack!VisitSimple
    BY <1>7, DfsVisitSimple
<1>8. ASSUME NEW decided, Stack!EnterLoop(decided) PROVE DfsInv'
    BY <1>8, DfsKeep DEF Stack!EnterLoop
<1>9. ASSUME NEW popped, Stack!ExpandResume(popped) PROVE DfsInv'
    BY <1>9, DfsKeep DEF Stack!ExpandResume, Stack!Top, DfsInv
<1>10. CASE Stack!SelectsTrails /\ Stack!ExpandFirst(Stack!AnswerOnTop)
    BY <1>10, DfsExpandFirst DEF Stack!SelectsTrails
<1>11. CASE Stack!SelectsSimple /\ Stack!ExpandFirst(Stack!NotExpanded)
    BY <1>11, DfsExpandFirst
<1>12. CASE Stack!DropCycle
  <2>1. /\ open # <<>> /\ open' = SubSeq(open, 1, Len(open) - 1)
        /\ UNCHANGED <<class, start>> /\ ~first_next' /\ pc' # "expand"
      BY <1>12 DEF Stack!DropCycle, Stack!Pop, DfsInv
  <2> QED BY <2>1, DfsPop
<1>13. CASE Stack!Interrupt
    BY <1>13, DfsKeep DEF Stack!Interrupt, DfsInv
<1>14. CASE \E n \in NodeIds : \E e \in EndsOf(class) : Stack!Reset(n, e)
    BY <1>14, DfsReset
<1> QED BY <1>1, <1>2, <1>3, <1>4, <1>5, <1>6, <1>7, <1>8, <1>9, <1>10, <1>11, <1>12, <1>13, <1>14
        DEF Stack!Pipeline, Stack!TrailStep, Stack!SimpleStep

\* What is on the stack is the path printed for it.
LEMMA DfsIsPath == DfsInv /\ ~breadth_first => StackIsPath
<1> SUFFICES ASSUME DfsInv PROVE StackIsPath
    BY DEF StackIsPath
<1> DEFINE path == Stack!PathOf(open)
           n == Len(open)
<1>1. /\ open \in Seq(Frames)
      /\ \A i \in 1 .. n - 1 : Follows(open[i], open[i + 1])
    BY DEF DfsInv, StackInv
<1>2. n \in Nat /\ DOMAIN open = 1 .. n
    BY <1>1
<1>3. /\ DOMAIN path = 1 .. n
      /\ \A i \in 1 .. n : path[i].node = open[i].node /\ path[i].edge = open[i].edge
    BY <1>2 DEF Stack!PathOf
<1>4. path \in Seq([node : NodeIds, edge : EdgeIds, inverse : BOOLEAN]) /\ Len(path) = n
  <2> DEFINE S == [node : NodeIds, edge : EdgeIds, inverse : BOOLEAN]
             step(f) == [node |-> f.node, edge |-> f.edge, inverse |-> f.inverse]
  <2>1. \A f \in Frames : step(f) \in S
      BY DEF Frames
  <2>2. \A i \in 1 .. n : open[i] \in Frames
      BY <1>1, <1>2
  <2>3. path = [i \in 1 .. n |-> step(open[i])]
      BY <1>2 DEF Stack!PathOf
  <2> HIDE DEF path, n, step, S
  <2>4. path \in Seq(S) /\ Len(path) = n
      BY <1>2, <2>1, <2>2, <2>3
  <2> QED BY <2>4 DEF S
<1> HIDE DEF path, n
<1>5. ASSUME EdgesOnce(open) PROVE IsTrail(path)
    BY <1>2, <1>3, <1>5 DEF EdgesOnce, IsTrail
<1>6. ASSUME NodesOnce(open) PROVE IsAcyclic(path)
    BY <1>2, <1>3, <1>6 DEF NodesOnce, IsAcyclic
<1>7. ASSUME ClosedTop PROVE class.cyclic /\ IsCycle(path)
  <2>1. class.cyclic /\ n > 1 /\ open[n].node = start /\ open[1].node = start
    <3>1. open # <<>>
        BY <1>1, <1>7 DEF ClosedTop
    <3> QED BY <1>7, <3>1 DEF ClosedTop, DfsInv, n
  <2>2. LastNode(path) = path[1].node
      BY <1>2, <1>3, <1>4, <2>1 DEF LastNode
  <2> DEFINE below == SubSeq(path, 1, n - 1)
  <2>3. /\ DOMAIN below = 1 .. n - 1 /\ \A i \in 1 .. n - 1 : below[i] = path[i]
      BY <1>2, <1>4, <2>1
  <2>4. \A i, j \in 1 .. n - 1 : open[i].node = open[j].node => i = j
      BY <1>7 DEF ClosedTop, NodesOnceBelow, n
  <2> HIDE DEF below
  <2>5. \A i \in 1 .. n - 1 : i \in 1 .. n
      BY <1>2
  <2>6. IsAcyclic(below)
      BY <1>3, <2>3, <2>4, <2>5 DEF IsAcyclic
  <2> QED BY <1>4, <2>1, <2>2, <2>6 DEF IsCycle, below
<1>8. IF class.walks = "trails" THEN IsTrail(path)
      ELSE IsAcyclic(path) \/ (class.cyclic /\ IsCycle(path))
    BY <1>5, <1>6, <1>7 DEF DfsInv
<1> QED BY <1>1, <1>8 DEF StackIsPath, Follows, path, n

-----------------------------------------------------------------------------
(* The breadth-first searches keep their queue in the order of the lengths *)
(* of its paths, none of which they queue twice: two paths with the same   *)
(* last step have different beginnings, or come from the same one by two   *)
(* transitions or two records.                                             *)

Steps == [node : NodeIds, edge : EdgeIds, inverse : BOOLEAN]
Entries == [path : Seq(Steps) \ {<<>>}, automaton_state : States]

Sorted(queue) ==
    \A i, j \in DOMAIN queue :
        /\ i < j => Len(queue[i].path) <= Len(queue[j].path)
        /\ Len(queue[j].path) <= Len(queue[1].path) + 1

PathsOnce(queue) == \A i, j \in DOMAIN queue : queue[i].path = queue[j].path => i = j

\* Only the front was expanded so far,
OnlyFront(queue) ==
    \A i, j \in DOMAIN queue : \A x \in Steps :
        queue[i].path = Append(queue[j].path, x) => j = 1

\* and with no more than the paths that were taken from it.
FromFront(queue, taken) ==
    \A i \in DOMAIN queue : \A x \in Steps :
        queue[i].path = Append(queue[1].path, x) => queue[i].path \in taken

QueueInv(queue) ==
    queue \in Seq(Entries) /\ Sorted(queue) /\ PathsOnce(queue) /\ OnlyFront(queue)

LEMMA BeginningSame ==
    ASSUME NEW s \in Seq(Steps), NEW t \in Seq(Steps), NEW x \in Steps, NEW y \in Steps,
           Append(s, x) = Append(t, y)
    PROVE  s = t /\ x = y
BY AppendInjective

LEMMA QueueFront ==
    ASSUME NEW queue, QueueInv(queue), queue # <<>>
    PROVE  /\ queue \in Seq(Entries) /\ 1 \in DOMAIN queue /\ queue[1] \in Entries
           /\ Head(queue) = queue[1]
           /\ queue[1].path \in Seq(Steps) /\ queue[1].path # <<>>
           /\ Len(queue[1].path) \in Nat \ {0}
           /\ LastNode(queue[1].path) \in NodeIds
           /\ OutgoingOf(queue[1]) \in Seq(Transition)
<1>1. /\ queue \in Seq(Entries) /\ 1 \in DOMAIN queue /\ queue[1] \in Entries
      /\ Head(queue) = queue[1]
    BY DEF QueueInv
<1> DEFINE w == queue[1]
<1> HIDE DEF w
<1>2. w.path \in Seq(Steps) /\ w.path # <<>> /\ w.automaton_state \in States
    BY <1>1 DEF Entries, w
<1>3. Len(w.path) \in Nat \ {0} /\ w.path[Len(w.path)] \in Steps
    BY <1>2, StackTop
<1>4. LastNode(w.path) \in NodeIds
    BY <1>3 DEF LastNode, Steps
<1>5. OutgoingOf(w) \in Seq(Transition)
    BY <1>2 DEF OutgoingOf
<1> QED BY <1>1, <1>2, <1>3, <1>4, <1>5 DEF w

Dequeued(queue) == Tail(queue)

Among(rest, queue) == \A i \in DOMAIN rest : \E j \in DOMAIN queue : rest[i] = queue[j]

LEMMA QueuePop ==
    ASSUME NEW queue, QueueInv(queue), queue # <<>>, NEW rest, rest = Dequeued(queue)
    PROVE  QueueInv(rest) /\ FromFront(rest, {}) /\ Among(rest, queue)
<1>1. queue \in Seq(Entries) /\ 1 \in DOMAIN queue
    BY QueueFront
<1>2. /\ rest \in Seq(Entries)
      /\ \A i \in DOMAIN rest : i + 1 \in DOMAIN queue /\ rest[i] = queue[i + 1] /\ i \in Nat \ {0}
      /\ rest # <<>> => 1 \in DOMAIN rest
      /\ rest = <<>> => DOMAIN rest = {}
    BY <1>1 DEF Dequeued
<1>3. \A i \in DOMAIN queue : Len(queue[i].path) \in Nat
  <2> SUFFICES ASSUME NEW i \in DOMAIN queue PROVE Len(queue[i].path) \in Nat
      OBVIOUS
  <2>1. queue[i] \in Entries
      BY <1>1
  <2>2. queue[i].path \in Seq(Steps)
      BY <2>1 DEF Entries
  <2> QED BY <2>2
<1>4. Sorted(rest)
  <2> SUFFICES ASSUME NEW i \in DOMAIN rest, NEW j \in DOMAIN rest
               PROVE  /\ i < j => Len(rest[i].path) <= Len(rest[j].path)
                      /\ Len(rest[j].path) <= Len(rest[1].path) + 1
      BY DEF Sorted
  <2>1. 1 \in DOMAIN rest /\ rest[1] = queue[2] /\ 2 \in DOMAIN queue
    <3>1. 1 \in DOMAIN rest
        BY <1>2
    <3>2. 1 + 1 \in DOMAIN queue /\ rest[1] = queue[1 + 1]
        BY <1>2, <3>1
    <3> QED BY <3>1, <3>2
  <2>2. /\ i + 1 \in DOMAIN queue /\ rest[i] = queue[i + 1]
        /\ j + 1 \in DOMAIN queue /\ rest[j] = queue[j + 1]
        /\ i < j => i + 1 < j + 1
      BY <1>2
  <2>3. /\ i < j => Len(queue[i + 1].path) <= Len(queue[j + 1].path)
        /\ Len(queue[j + 1].path) <= Len(queue[1].path) + 1
        /\ Len(queue[1].path) <= Len(queue[2].path)
      BY <1>1, <2>1, <2>2 DEF QueueInv, Sorted
  <2> QED BY <1>1, <1>3, <2>1, <2>2, <2>3
<1>5. PathsOnce(rest)
  <2> SUFFICES ASSUME NEW i \in DOMAIN rest, NEW j \in DOMAIN rest, rest[i].path = rest[j].path
               PROVE  i = j
      BY DEF PathsOnce
  <2>1. /\ i + 1 \in DOMAIN queue /\ rest[i] = queue[i + 1] /\ i \in Nat
        /\ j + 1 \in DOMAIN queue /\ rest[j] = queue[j + 1] /\ j \in Nat
      BY <1>2
  <2>2. i + 1 = j + 1
      BY <2>1 DEF QueueInv, PathsOnce
  <2> QED BY <2>1, <2>2
<1>6. \A i, j \in DOMAIN rest : \A x \in Steps : rest[i].path # Append(rest[j].path, x)
  <2> SUFFICES ASSUME NEW i \in DOMAIN rest, NEW j \in DOMAIN rest, NEW x \in Steps,
                      rest[i].path = Append(rest[j].path, x)
               PROVE  FALSE
      OBVIOUS
  <2>1. /\ i + 1 \in DOMAIN queue /\ rest[i] = queue[i + 1]
        /\ j + 1 \in DOMAIN queue /\ rest[j] = queue[j + 1] /\ j + 1 # 1
      BY <1>2
  <2> QED BY <2>1 DEF QueueInv, OnlyFront
<1>7. OnlyFront(rest) /\ FromFront(rest, {})
  <2>1. FromFront(rest, {})
    <3>1. ASSUME NEW i \in DOMAIN rest PROVE 1 \in DOMAIN rest
        BY <1>2, <3>1
    <3> QED BY <1>6, <3>1 DEF FromFront
  <2> QED BY <1>6, <2>1 DEF OnlyFront
<1>8. Among(rest, queue)
    BY <1>2 DEF Among
<1> QED BY <1>2, <1>4, <1>5, <1>7, <1>8 DEF QueueInv

\* A path one step longer than the front, which was not taken before.
Enqueued(queue, w) == Append(queue, w)

OneMore(longer, queue, w) ==
    \A i \in DOMAIN longer : longer[i] = w \/ \E j \in DOMAIN queue : longer[i] = queue[j]

LEMMA QueuePush ==
    ASSUME NEW queue, QueueInv(queue), queue # <<>>,
           NEW taken, FromFront(queue, taken),
           NEW w \in Entries, NEW x \in Steps, w.path = Append(queue[1].path, x),
           w.path \notin taken,
           NEW longer, longer = Enqueued(queue, w)
    PROVE  /\ QueueInv(longer) /\ FromFront(longer, taken \cup {w.path})
           /\ longer # <<>> /\ longer[1] = queue[1]
           /\ OneMore(longer, queue, w)
<1> DEFINE n == Len(queue)
<1>1. /\ queue \in Seq(Entries) /\ 1 \in DOMAIN queue /\ queue[1] \in Entries
      /\ queue[1].path \in Seq(Steps) /\ Len(queue[1].path) \in Nat
    BY QueueFront
<1>2. longer \in Seq(Entries \cup {w}) /\ Entries \cup {w} = Entries
    BY <1>1, AppendFacts DEF Enqueued
<1>3. /\ longer # <<>> /\ longer[1] = queue[1]
      /\ \A i \in DOMAIN queue : i \in DOMAIN longer /\ longer[i] = queue[i] /\ queue[i] \in Entries
      /\ \A i \in DOMAIN longer :
             \/ i \in DOMAIN queue /\ longer[i] = queue[i]
             \/ i = n + 1 /\ longer[i] = w
      /\ \A i \in DOMAIN queue : i \in Nat /\ i < n + 1 /\ n \in Nat
    BY <1>1, AppendFacts DEF Enqueued
<1> HIDE DEF n
<1>4. Len(w.path) = Len(queue[1].path) + 1 /\ w.path \in Seq(Steps)
    BY <1>1, AppendProperties
<1>5. \A i \in DOMAIN queue : Len(queue[i].path) \in Nat /\ queue[i].path \in Seq(Steps)
  <2> SUFFICES ASSUME NEW i \in DOMAIN queue
               PROVE  Len(queue[i].path) \in Nat /\ queue[i].path \in Seq(Steps)
      OBVIOUS
  <2>1. queue[i].path \in Seq(Steps)
      BY <1>3 DEF Entries
  <2> QED BY <2>1
<1>6. \A i \in DOMAIN queue : Len(queue[i].path) <= Len(w.path)
    BY <1>1, <1>4 DEF QueueInv, Sorted
\* Nothing in the queue is a step longer than w,
<1>7. ASSUME NEW i \in DOMAIN longer, NEW y \in Steps PROVE longer[i].path # Append(w.path, y)
  <2>1. Len(Append(w.path, y)) = Len(w.path) + 1
      BY <1>4, AppendProperties
  <2>2. Len(w.path) \in Nat
      BY <1>4
  <2>3. Len(longer[i].path) <= Len(w.path) /\ Len(longer[i].path) \in Nat
    <3>1. CASE i \in DOMAIN queue /\ longer[i] = queue[i]
        BY <1>5, <1>6, <3>1
    <3>2. CASE longer[i] = w
        BY <2>2, <3>2
    <3> QED BY <1>3, <3>1, <3>2
  <2>4. Len(longer[i].path) # Len(w.path) + 1
      BY <2>2, <2>3
  <2> QED BY <2>1, <2>4
\* and only the front is a step shorter.
<1>8. ASSUME NEW j \in DOMAIN queue, NEW y \in Steps, w.path = Append(queue[j].path, y)
      PROVE  j = 1
  <2> DEFINE p == queue[1].path
             q == queue[j].path
  <2>1. p \in Seq(Steps) /\ q \in Seq(Steps)
      BY <1>1, <1>5
  <2>2. Append(p, x) = Append(q, y)
      BY <1>8
  <2> HIDE DEF p, q
  <2>3. p = q
      BY <2>1, <2>2, BeginningSame
  <2> QED BY <1>1, <2>3 DEF QueueInv, PathsOnce, p, q
<1>9. \A i \in DOMAIN queue : queue[i].path # w.path
    BY DEF FromFront
<1>10. Sorted(longer)
  <2> SUFFICES ASSUME NEW i \in DOMAIN longer, NEW j \in DOMAIN longer
               PROVE  /\ i < j => Len(longer[i].path) <= Len(longer[j].path)
                      /\ Len(longer[j].path) <= Len(longer[1].path) + 1
      BY DEF Sorted
  <2>1. CASE j \in DOMAIN queue /\ longer[j] = queue[j]
    <3>1. Len(longer[j].path) <= Len(longer[1].path) + 1
        BY <1>1, <1>3, <2>1 DEF QueueInv, Sorted
    <3>2. i < j => i \in DOMAIN queue /\ longer[i] = queue[i]
      <4>1. j \in Nat /\ n \in Nat /\ j < n + 1
          BY <1>3, <2>1
      <4>2. i = n + 1 => ~(i < j)
          BY <4>1
      <4>3. (i \in DOMAIN queue /\ longer[i] = queue[i]) \/ i = n + 1
          BY <1>3
      <4> QED BY <4>2, <4>3
    <3> QED BY <2>1, <3>1, <3>2 DEF QueueInv, Sorted
  <2>2. CASE j = n + 1 /\ longer[j] = w
    <3>1. Len(longer[j].path) <= Len(longer[1].path) + 1
        BY <1>1, <1>3, <1>4, <2>2
    <3>2. i < j => i \in DOMAIN queue /\ longer[i] = queue[i]
      <4>1. n \in Nat
          BY <1>1, <1>3
      <4>2. i = n + 1 => ~(i < j)
          BY <2>2, <4>1
      <4>3. (i \in DOMAIN queue /\ longer[i] = queue[i]) \/ i = n + 1
          BY <1>3
      <4> QED BY <4>2, <4>3
    <3> QED BY <1>6, <2>2, <3>1, <3>2
  <2> QED BY <1>3, <2>1, <2>2
<1>11. PathsOnce(longer)
  <2> SUFFICES ASSUME NEW i \in DOMAIN longer, NEW j \in DOMAIN longer,
                      longer[i].path = longer[j].path
               PROVE  i = j
      BY DEF PathsOnce
  <2> QED BY <1>3, <1>9 DEF QueueInv, PathsOnce
<1>12. OnlyFront(longer)
  <2> SUFFICES ASSUME NEW i \in DOMAIN longer, NEW j \in DOMAIN longer, NEW y \in Steps,
                      longer[i].path = Append(longer[j].path, y)
               PROVE  j = 1
      BY DEF OnlyFront
  <2>1. j \in DOMAIN queue /\ longer[j] = queue[j]
      BY <1>3, <1>7
  <2>2. CASE i \in DOMAIN queue /\ longer[i] = queue[i]
      BY <2>1, <2>2 DEF QueueInv, OnlyFront
  <2>3. CASE longer[i] = w
      BY <1>8, <2>1, <2>3
  <2> QED BY <1>3, <2>2, <2>3
<1>13. FromFront(longer, taken \cup {w.path})
    BY <1>3 DEF FromFront
<1>14. OneMore(longer, queue, w)
    BY <1>3 DEF OneMore
<1> QED BY <1>2, <1>3, <1>10, <1>11, <1>12, <1>13, <1>14 DEF QueueInv

\* The queue of the start node, and the empty one.
LEMMA StartEntry ==
    ASSUME NEW n \in NodeIds
    PROVE  /\ FirstSearchState(n) \in Entries /\ Len(FirstSearchState(n).path) = 1
           /\ IsTrail(FirstSearchState(n).path) /\ IsAcyclic(FirstSearchState(n).path)
<1> DEFINE step == [node |-> n, edge |-> NoEdge, inverse |-> FALSE]
           path == <<step>>
<1>1. step \in Steps
    BY DEF Steps, EdgeIds
<1> HIDE DEF step
<1>2. path \in Seq(Steps) /\ Len(path) = 1 /\ DOMAIN path = {1} /\ path # <<>>
    BY <1>1, OneElement
<1>3. FirstSearchState(n) = [path |-> path, automaton_state |-> StartState]
    BY DEF FirstSearchState, First, step
<1> HIDE DEF path
<1> QED BY <1>2, <1>3 DEF Entries, IsTrail, IsAcyclic

LEMMA StartQueue ==
    ASSUME NEW n \in NodeIds, NEW queue, queue = <<FirstSearchState(n)>>, NEW taken
    PROVE  /\ QueueInv(queue) /\ FromFront(queue, taken) /\ queue # <<>>
           /\ \A i \in DOMAIN queue : queue[i] = FirstSearchState(n)
<1> DEFINE w == FirstSearchState(n)
<1>1. w \in Entries /\ Len(w.path) = 1 /\ w.path \in Seq(Steps)
    BY StartEntry DEF Entries
<1> HIDE DEF w
<1>2. /\ <<w>> \in Seq(Entries) /\ Len(<<w>>) = 1 /\ DOMAIN <<w>> = {1} /\ <<w>>[1] = w
      /\ <<w>> # <<>>
    BY <1>1, OneElement
<1>3. queue = <<w>>
    BY DEF w
<1>4. /\ queue \in Seq(Entries) /\ DOMAIN queue = {1} /\ queue[1] = w /\ queue # <<>>
    BY ONLY <1>2, <1>3
<1>5. \A x \in Steps : w.path # Append(w.path, x)
  <2> DEFINE p == w.path
  <2> HIDE DEF p
  <2>1. p \in Seq(Steps) /\ Len(p) = 1
      BY <1>1 DEF p
  <2>2. ASSUME NEW x \in Steps PROVE Len(Append(p, x)) = 2
    <3>1. Len(Append(p, x)) = Len(p) + 1
        BY <2>1, AppendProperties
    <3> QED BY <2>1, <3>1
  <2>3. ASSUME NEW x \in Steps PROVE p # Append(p, x)
    <3>1. Len(Append(p, x)) # Len(p)
        BY <2>1, <2>2
    <3> QED BY <3>1
  <2> QED BY <2>3 DEF p
<1>6. Sorted(queue) /\ PathsOnce(queue) /\ OnlyFront(queue) /\ FromFront(queue, taken)
    BY <1>1, <1>4, <1>5 DEF Sorted, PathsOnce, OnlyFront, FromFront
<1> QED BY <1>4, <1>6 DEF QueueInv, w

LEMMA EmptyQueue ==
    ASSUME NEW taken
    PROVE  QueueInv(<<>>) /\ FromFront(<<>>, taken) /\ DOMAIN <<>> = {}
<1>1. <<>> \in Seq(Entries) /\ DOMAIN <<>> = {}
    OBVIOUS
<1> QED BY <1>1 DEF QueueInv, Sorted, PathsOnce, OnlyFront, FromFront

\* One step further than w.
StepTo(t, r) == [node |-> r.node, edge |-> r.edge, inverse |-> t.inverse]

LEMMA LongerEntry ==
    ASSUME NEW w \in Entries, NEW t \in Transition, NEW n, NEW r \in GetIterator(t, n)
    PROVE  /\ NextSearchState(w, t, r) \in Entries /\ StepTo(t, r) \in Steps
           /\ NextSearchState(w, t, r).path = Append(w.path, StepTo(t, r))
           /\ Extend(w.path, t, r) = Append(w.path, StepTo(t, r))
           /\ IsTrail(w.path) /\ is_trail(w.path, r.edge) => IsTrail(NextSearchState(w, t, r).path)
           /\ IsAcyclic(w.path) /\ is_simple_path(w.path, r.node) =>
                  IsAcyclic(NextSearchState(w, t, r).path)
           /\ LastNode(NextSearchState(w, t, r).path) = r.node
<1> DEFINE v == NextSearchState(w, t, r)
           x == StepTo(t, r)
<1>1. /\ x \in Steps /\ x.node = r.node /\ x.edge = r.edge
      /\ v = [path |-> Append(w.path, x), automaton_state |-> t.to]
      /\ t.to \in States
    BY RecordType DEF NextSearchState, Extend, StepTo, Steps, Transition
<1>2. w.path \in Seq(Steps) /\ w.path # <<>>
    BY DEF Entries
<1> DEFINE p == w.path
           m == Len(p)
<1> HIDE DEF x, v, p
<1>3. p \in Seq(Steps) /\ p # <<>>
    BY <1>2 DEF p
<1>4. /\ v.path \in Seq(Steps) /\ Len(v.path) = m + 1 /\ v.path # <<>>
      /\ \A i \in 1 .. m : v.path[i] = p[i]
      /\ v.path[m + 1] = x
      /\ m \in Nat \ {0} /\ DOMAIN p = 1 .. m
  <2>1. v.path = Append(p, x) /\ x \in Steps
      BY <1>1 DEF p
  <2>2. m \in Nat \ {0} /\ DOMAIN p = 1 .. m
      BY <1>3, StackTop
  <2> DEFINE longer == v.path
  <2>3. longer = Append(p, x)
      BY <2>1
  <2> HIDE DEF longer
  <2>4. /\ longer \in Seq(Steps) /\ Len(longer) = m + 1 /\ longer # <<>>
        /\ \A i \in 1 .. m : longer[i] = p[i]
        /\ longer[m + 1] = x
      BY <1>3, <2>1, <2>3, AppendProperties
  <2> HIDE DEF m
  <2> QED BY <2>2, <2>4 DEF longer
<1> HIDE DEF m
<1>5. v \in Entries
    BY <1>1, <1>4 DEF Entries
<1>6. DOMAIN v.path = 1 .. m + 1
    BY <1>4
<1>7. \A i \in 1 .. m + 1 : i \in 1 .. m \/ i = m + 1
    BY <1>4
<1>8. ASSUME IsTrail(p), is_trail(p, r.edge) PROVE IsTrail(v.path)
    BY <1>1, <1>4, <1>6, <1>7, <1>8 DEF IsTrail, is_trail
<1>9. ASSUME IsAcyclic(p), is_simple_path(p, r.node) PROVE IsAcyclic(v.path)
    BY <1>1, <1>4, <1>6, <1>7, <1>9 DEF IsAcyclic, is_simple_path
<1>10. LastNode(v.path) = r.node
    BY <1>1, <1>4 DEF LastNode
<1>11. Extend(w.path, t, r) = Append(w.path, x)
    BY DEF Extend, x, StepTo
<1>12. v.path = Append(w.path, x)
    BY <1>1
<1> QED BY <1>1, <1>5, <1>8, <1>9, <1>10, <1>11, <1>12 DEF v, x, p

\* The paths taken from w when its transition current has these records left.
TakenFrom(w, current, left) ==
    UNION {{Extend(w.path, OutgoingOf(w)[k], r) :
                r \in {x \in GetIterator(OutgoingOf(w)[k], LastNode(w.path)) :
                           k = current => x \notin left}} : k \in 1 .. current}

LEMMA TakenNext ==
    ASSUME NEW w, NEW current \in Nat, NEW left
    PROVE  TakenFrom(w, current, {}) \subseteq TakenFrom(w, current + 1, left)
<1> DEFINE records(k) == GetIterator(OutgoingOf(w)[k], LastNode(w.path))
           path(k, r) == Extend(w.path, OutgoingOf(w)[k], r)
<1>1. TakenFrom(w, current, {}) =
          UNION {{path(k, r) : r \in {x \in records(k) : k = current => x \notin {}}} : k \in 1 .. current}
    BY DEF TakenFrom
<1>2. TakenFrom(w, current + 1, left) =
          UNION {{path(k, r) : r \in {x \in records(k) : k = current + 1 => x \notin left}} :
                     k \in 1 .. current + 1}
    BY DEF TakenFrom
<1>3. \A k \in 1 .. current : k \in 1 .. current + 1 /\ k # current + 1
    OBVIOUS
<1> HIDE DEF records, path
<1> QED BY <1>1, <1>2, <1>3

LEMMA TakenRecord ==
    ASSUME NEW w, NEW current \in Nat \ {0}, NEW left,
           left \subseteq GetIterator(OutgoingOf(w)[current], LastNode(w.path)), NEW r \in left
    PROVE  TakenFrom(w, current, left) \cup {Extend(w.path, OutgoingOf(w)[current], r)}
               \subseteq TakenFrom(w, current, left \ {r})
<1>1. current \in 1 .. current
    OBVIOUS
<1>2. Extend(w.path, OutgoingOf(w)[current], r) \in TakenFrom(w, current, left \ {r})
    BY <1>1 DEF TakenFrom
<1>3. TakenFrom(w, current, left) \subseteq TakenFrom(w, current, left \ {r})
    BY DEF TakenFrom
<1> QED BY <1>2, <1>3

\* An edge and a direction are enough to tell the transition that took it.
LEMMA TakenNew ==
    ASSUME Deterministic, UniqueEdges, NEW w \in Entries,
           NEW current \in 1 .. Len(OutgoingOf(w)), NEW left,
           left \subseteq GetIterator(OutgoingOf(w)[current], LastNode(w.path)), NEW r \in left
    PROVE  Extend(w.path, OutgoingOf(w)[current], r) \notin TakenFrom(w, current, left)
<1> SUFFICES ASSUME NEW k \in 1 .. current,
                    NEW x \in GetIterator(OutgoingOf(w)[k], LastNode(w.path)),
                    k = current => x \notin left,
                    Extend(w.path, OutgoingOf(w)[current], r) = Extend(w.path, OutgoingOf(w)[k], x)
             PROVE  FALSE
    BY DEF TakenFrom
<1> DEFINE n == LastNode(w.path)
           t == OutgoingOf(w)[current]
           u == OutgoingOf(w)[k]
<1>1. w.automaton_state \in States /\ OutgoingOf(w) \in Seq(Transition) /\ w.path \in Seq(Steps)
    BY DEF Entries, OutgoingOf
<1>2. current \in DOMAIN OutgoingOf(w) /\ k \in DOMAIN OutgoingOf(w)
    BY <1>1
<1>3. t \in Transition /\ u \in Transition /\ r \in GetIterator(t, n) /\ x \in GetIterator(u, n)
    BY <1>1, <1>2
<1> HIDE DEF n, t, u
<1>4. StepTo(t, r) = StepTo(u, x)
  <2>1. /\ StepTo(t, r) \in Steps /\ StepTo(u, x) \in Steps
        /\ Extend(w.path, t, r) = Append(w.path, StepTo(t, r))
        /\ Extend(w.path, u, x) = Append(w.path, StepTo(u, x))
      BY <1>3, LongerEntry
  <2>2. Append(w.path, StepTo(t, r)) = Append(w.path, StepTo(u, x))
      BY <2>1 DEF t, u
  <2> DEFINE p == w.path
             y == StepTo(t, r)
             z == StepTo(u, x)
  <2> HIDE DEF p, y, z
  <2>3. y = z
      BY <1>1, <2>1, <2>2, BeginningSame DEF p, y, z
  <2> QED BY <2>3 DEF y, z
<1>5. r.node = x.node /\ r.edge = x.edge /\ t.inverse = u.inverse
    BY <1>4 DEF StepTo
<1>6. r = x
  <2>1. r = [node |-> r.node, edge |-> r.edge] /\ x = [node |-> x.node, edge |-> x.edge]
      BY <1>3, RecordType
  <2> QED BY <1>5, <2>1
<1>7. t.type = u.type
  <2>1. /\ \E e \in Edges : e.type = t.type /\ e.edge = r.edge
        /\ \E e \in Edges : e.type = u.type /\ e.edge = x.edge
      BY <1>3 DEF GetIterator
  <2> QED BY <1>5, <2>1 DEF UniqueEdges
<1>8. current = k
    BY <1>1, <1>2, <1>5, <1>7 DEF Deterministic, OutgoingOf, t, u
<1> QED BY <1>6, <1>8

LEMMA QueueNames ==
    /\ \A t, n : Queue!GetIterator(t, n) = GetIterator(t, n)
    /\ \A path, e : Queue!is_trail(path, e) <=> is_trail(path, e)
    /\ \A path, n : Queue!is_simple_path(path, n) <=> is_simple_path(path, n)
    /\ \A path : Queue!LastNode(path) = LastNode(path)
    /\ \A w : Queue!OutgoingOf(w) = OutgoingOf(w)
    /\ \A w, t, r : Queue!NextSearchState(w, t, r) = NextSearchState(w, t, r)
    /\ \A n : Queue!FirstSearchState(n) = FirstSearchState(n)
BY DEF Queue!GetIterator, GetIterator, Queue!is_trail, is_trail, Queue!is_simple_path, is_simple_path,
       Queue!LastNode, LastNode, Queue!OutgoingOf, OutgoingOf, Queue!NextSearchState, NextSearchState,
       Queue!Extend, Extend, Queue!FirstSearchState, FirstSearchState, Queue!First, First,
       Queue!NoEdge, NoEdge

\* A path in the queue can still grow.
Grows(path) ==
    IF class.walks = "trails" THEN IsTrail(path)
    ELSE IsAcyclic(path) /\ (class.check /\ Len(path) > 1 => LastNode(path) # end)

Taken == IF at_end THEN {} ELSE TakenFrom(open[1], current_transition, iter)

\* The iterator is over what the current transition leads to from the front.
Expanding ==
    /\ current_transition \in 1 .. Len(OutgoingOf(open[1]))
    /\ iter \subseteq GetIterator(OutgoingOf(open[1])[current_transition], LastNode(open[1].path))

BfsInv ==
    /\ start \in NodeIds
    /\ QueueInv(open)
    /\ FromFront(open, Taken)
    /\ \A i \in DOMAIN open : Grows(open[i].path)
    /\ open # <<>> /\ ~at_end => Expanding
    /\ pc = "expand" => open # <<>> /\ ~at_end
    /\ first_next => pc \in {"ready", "undefined"} /\ open # <<>> /\ at_end

LEMMA BfsInit == Queue!Init => BfsInv
<1> SUFFICES ASSUME Queue!Init PROVE BfsInv
    OBVIOUS
<1>1. /\ start \in NodeIds /\ pc = "ready" /\ at_end
      /\ open = <<FirstSearchState(start)>>
    BY QueueNames DEF Queue!Init
<1>2. /\ QueueInv(open) /\ FromFront(open, Taken) /\ open # <<>>
      /\ \A i \in DOMAIN open : open[i] = FirstSearchState(start)
    BY <1>1, StartQueue
<1> DEFINE p == FirstSearchState(start).path
<1>3. Len(p) = 1 /\ IsTrail(p) /\ IsAcyclic(p)
    BY <1>1, StartEntry
<1> HIDE DEF p
<1>4. Grows(p)
    BY <1>3 DEF Grows
<1> QED BY <1>1, <1>2, <1>4 DEF BfsInv, p

\* Steps that leave the queue alone, and those that drop all of it.
LEMMA BfsKeep ==
    ASSUME BfsInv, UNCHANGED <<class, start, end, open, iter, at_end, current_transition>>,
           ~first_next', pc' = "expand" => open # <<>> /\ ~at_end
    PROVE  BfsInv'
BY DEF BfsInv, Taken, Expanding, Grows

LEMMA BfsClear ==
    ASSUME BfsInv, UNCHANGED start, open' = <<>>, ~first_next', pc' # "expand"
    PROVE  BfsInv'
<1>1. start' \in NodeIds
    BY DEF BfsInv
<1> QED BY <1>1, EmptyQueue DEF BfsInv

\* The front is expanded, or has nothing to expand.
LEMMA BfsPop ==
    ASSUME BfsInv, open # <<>>, open' = Tail(open), UNCHANGED <<class, start, end>>,
           at_end', ~first_next', pc' # "expand"
    PROVE  BfsInv'
<1>1. QueueInv(open') /\ FromFront(open', {}) /\ Among(open', open)
  <2>1. open' = Dequeued(open) /\ QueueInv(open)
      BY DEF Dequeued, BfsInv
  <2> QED BY <2>1, QueuePop
<1>2. \A i \in DOMAIN open' : Grows(open[i].path)'
  <2>1. \A path : Grows(path) => Grows(path)'
      BY DEF Grows
  <2> QED BY <1>1, <2>1 DEF BfsInv, Among
<1>3. Taken' = {}
    BY DEF Taken
<1> QED BY <1>1, <1>2, <1>3 DEF BfsInv

LEMMA BfsReset == ASSUME BfsInv, NEW n \in NodeIds, NEW e, Queue!Reset(n, e) PROVE BfsInv'
<1>1. CASE Queue!StartAt(n, e)
  <2>1. /\ start' = n /\ pc' = "ready" /\ at_end' /\ open' = <<FirstSearchState(n)>>
      BY <1>1, QueueNames DEF Queue!StartAt
  <2>2. /\ QueueInv(open') /\ FromFront(open', Taken') /\ open' # <<>>
        /\ \A i \in DOMAIN open' : open'[i] = FirstSearchState(n)
      BY <2>1, StartQueue
  <2> DEFINE p == FirstSearchState(n).path
  <2>3. Len(p) = 1 /\ IsTrail(p) /\ IsAcyclic(p)
      BY StartEntry
  <2> HIDE DEF p
  <2>4. Grows(p)'
      BY <2>3 DEF Grows, p
  <2>5. \A i \in DOMAIN open' : Grows(open[i].path)'
      BY <2>2, <2>4 DEF p
  <2> QED BY <2>1, <2>2, <2>5 DEF BfsInv
<1>2. CASE /\ pc' = "undefined"
           /\ UNCHANGED <<class, start, end, open, iter, at_end, current_transition, first_next>>
           /\ pc \in {"ready", "done"}
  <2>1. CASE ~first_next
      BY <1>2, <2>1, BfsKeep
  <2>2. CASE first_next
      BY <1>2, <2>2 DEF BfsInv, Taken, Expanding, Grows
  <2> QED BY <2>1, <2>2
<1> QED BY <1>1, <1>2 DEF Queue!Reset

\* The transition and the record of the step being looked at.
CurrentTransition == OutgoingOf(open[1])[current_transition]
NextState(r) == NextSearchState(open[1], CurrentTransition, r)

LEMMA CurrentFacts ==
    ASSUME BfsInv, pc = "expand"
    PROVE  /\ QueueInv(open) /\ open # <<>> /\ open[1] \in Entries /\ Head(open) = open[1]
           /\ 1 \in DOMAIN open /\ Grows(open[1].path) /\ ~at_end /\ ~first_next
           /\ FromFront(open, TakenFrom(open[1], current_transition, iter))
           /\ current_transition \in 1 .. Len(OutgoingOf(open[1]))
           /\ current_transition \in Nat \ {0}
           /\ CurrentTransition \in Transition
           /\ iter \subseteq GetIterator(CurrentTransition, LastNode(open[1].path))
<1>1. /\ QueueInv(open) /\ open # <<>> /\ ~at_end /\ ~first_next /\ Expanding
      /\ FromFront(open, TakenFrom(open[1], current_transition, iter))
    BY DEF BfsInv, Taken
<1>2. /\ 1 \in DOMAIN open /\ open[1] \in Entries /\ Head(open) = open[1]
      /\ OutgoingOf(open[1]) \in Seq(Transition)
    BY <1>1, QueueFront
<1>3. Grows(open[1].path)
    BY <1>2 DEF BfsInv
<1> DEFINE outgoing == OutgoingOf(open[1])
<1> HIDE DEF outgoing
<1>4. outgoing \in Seq(Transition) /\ current_transition \in 1 .. Len(outgoing)
    BY <1>1, <1>2 DEF Expanding, outgoing
<1>5. outgoing[current_transition] \in Transition /\ current_transition \in Nat \ {0}
    BY <1>4
<1>6. iter \subseteq GetIterator(CurrentTransition, LastNode(open[1].path))
    BY <1>1 DEF Expanding, CurrentTransition
<1> QED BY <1>1, <1>2, <1>3, <1>4, <1>5, <1>6 DEF CurrentTransition, outgoing

\* A record that is not queued.
LEMMA BfsSkip ==
    ASSUME BfsInv, pc = "expand", NEW r \in iter, iter' = iter \ {r},
           UNCHANGED <<class, start, end, open, at_end, current_transition, first_next>>
    PROVE  BfsInv'
<1> USE CurrentFacts
<1>1. TakenFrom(open[1], current_transition, iter) \subseteq
          TakenFrom(open[1], current_transition, iter \ {r})
  <2> DEFINE w == open[1]
  <2>1. iter \subseteq GetIterator(OutgoingOf(w)[current_transition], LastNode(w.path))
      BY DEF CurrentTransition
  <2> HIDE DEF w
  <2> QED BY <2>1, TakenRecord DEF w
<1>2. FromFront(open', Taken')
    BY <1>1 DEF FromFront, Taken
<1>3. Expanding'
    BY DEF BfsInv, Expanding
<1>4. \A i \in DOMAIN open' : Grows(open[i].path)'
    BY DEF BfsInv, Grows
<1> QED BY <1>2, <1>3, <1>4 DEF BfsInv

LEMMA NextEntry ==
    ASSUME NEW w \in Entries, NEW t \in Transition, NEW n, NEW r \in GetIterator(t, n),
           NEW v, v = NextSearchState(w, t, r)
    PROVE  /\ v \in Entries /\ StepTo(t, r) \in Steps /\ v.path = Append(w.path, StepTo(t, r))
           /\ Extend(w.path, t, r) = v.path
BY LongerEntry

\* A record that leads to a longer path in the queue.
LEMMA BfsEnqueue ==
    ASSUME Deterministic, UniqueEdges, BfsInv, pc = "expand", NEW r \in iter, iter' = iter \ {r},
           UNCHANGED <<class, start, end, at_end, current_transition, first_next>>,
           open' = Append(open, NextState(r)), Grows(NextState(r).path)
    PROVE  BfsInv'
<1> DEFINE front == open[1]
           t == CurrentTransition
           w == NextState(r)
           taken == TakenFrom(front, current_transition, iter)
<1>1. /\ QueueInv(open) /\ open # <<>> /\ front \in Entries /\ ~at_end /\ ~first_next
      /\ FromFront(open, taken) /\ t \in Transition
      /\ current_transition \in 1 .. Len(OutgoingOf(front)) /\ current_transition \in Nat \ {0}
      /\ iter \subseteq GetIterator(t, LastNode(front.path)) /\ r \in iter
      /\ t = OutgoingOf(front)[current_transition]
    BY CurrentFacts DEF CurrentTransition
<1> HIDE DEF front, t, taken
<1>2. /\ w \in Entries /\ StepTo(t, r) \in Steps /\ w.path = Append(front.path, StepTo(t, r))
      /\ Extend(front.path, t, r) = w.path
  <2>1. r \in GetIterator(t, LastNode(front.path))
      BY <1>1
  <2>2. w = NextSearchState(front, t, r)
      BY DEF NextState, front, t
  <2>3. front \in Entries /\ t \in Transition
      BY <1>1
  <2> HIDE DEF w
  <2> QED BY ONLY <2>1, <2>2, <2>3, NextEntry
<1>3. w.path \notin taken /\ taken \cup {w.path} \subseteq TakenFrom(front, current_transition, iter \ {r})
  <2> DEFINE n == Len(OutgoingOf(front))
             path == Extend(front.path, OutgoingOf(front)[current_transition], r)
  <2>1. /\ front \in Entries /\ current_transition \in 1 .. n /\ r \in iter
        /\ iter \subseteq GetIterator(OutgoingOf(front)[current_transition], LastNode(front.path))
        /\ current_transition \in Nat \ {0}
      BY <1>1
  <2>2. path \notin taken
      BY ONLY <2>1, Deterministic, UniqueEdges, TakenNew DEF taken
  <2>3. taken \cup {path} \subseteq TakenFrom(front, current_transition, iter \ {r})
      BY ONLY <2>1, TakenRecord DEF taken
  <2>4. path = w.path
      BY <1>1, <1>2
  <2> HIDE DEF path, w
  <2> QED BY <2>2, <2>3, <2>4
<1> HIDE DEF w
<1>4. /\ QueueInv(open') /\ FromFront(open', taken \cup {w.path}) /\ open' # <<>>
      /\ open'[1] = open[1] /\ OneMore(open', open, w)
  <2> DEFINE x == StepTo(t, r)
             longer == open'
             queue == open
  <2>1. longer = Enqueued(queue, w)
      BY DEF Enqueued, w
  <2>2. x \in Steps /\ w \in Entries /\ w.path = Append(queue[1].path, x)
      BY <1>2 DEF front
  <2>3. QueueInv(queue) /\ queue # <<>> /\ FromFront(queue, taken) /\ w.path \notin taken
      BY <1>1, <1>3
  <2> HIDE DEF x, longer, queue
  <2>4. /\ QueueInv(longer) /\ FromFront(longer, taken \cup {w.path}) /\ longer # <<>>
        /\ longer[1] = queue[1] /\ OneMore(longer, queue, w)
      BY ONLY <2>1, <2>2, <2>3, QueuePush
  <2> QED BY <2>4 DEF longer, queue
<1>5. FromFront(open', Taken')
  <2>1. Taken' = TakenFrom(front, current_transition, iter \ {r})
      BY <1>1, <1>4 DEF Taken, front
  <2> QED BY <1>3, <1>4, <2>1 DEF FromFront
<1>6. Expanding'
    BY <1>1, <1>4 DEF Expanding, front, t
<1>7. \A i \in DOMAIN open' : Grows(open[i].path)'
  <2>1. \A path : Grows(path) => Grows(path)'
      BY DEF Grows
  <2>2. Grows(w.path)
      BY DEF w
  <2> QED BY <1>4, <2>1, <2>2 DEF BfsInv, OneMore
<1>8. start' \in NodeIds
    BY DEF BfsInv
<1> QED BY <1>1, <1>4, <1>5, <1>6, <1>7, <1>8 DEF BfsInv

\* A trail that takes a new edge grows, and so does a path without a cycle
\* that comes to a new node before the end.
LEMMA NextGrows ==
    ASSUME BfsInv, pc = "expand", NEW r \in iter
    PROVE  /\ class.walks = "trails" /\ is_trail(open[1].path, r.edge) => Grows(NextState(r).path)
           /\ /\ class.walks = "simple" /\ is_simple_path(open[1].path, r.node)
              /\ class.check => LastNode(NextState(r).path) # end
              => Grows(NextState(r).path)
<1> DEFINE front == open[1]
           t == CurrentTransition
           v == NextState(r)
<1>1. /\ front \in Entries /\ t \in Transition /\ Grows(front.path)
      /\ r \in GetIterator(t, LastNode(front.path))
    BY CurrentFacts
<1>2. v = NextSearchState(front, t, r)
    BY DEF NextState
<1> HIDE DEF front, t, v
<1>3. /\ IsTrail(front.path) /\ is_trail(front.path, r.edge) => IsTrail(v.path)
      /\ IsAcyclic(front.path) /\ is_simple_path(front.path, r.node) => IsAcyclic(v.path)
  <2> DEFINE next == NextSearchState(front, t, r)
  <2>1. /\ IsTrail(front.path) /\ is_trail(front.path, r.edge) => IsTrail(next.path)
        /\ IsAcyclic(front.path) /\ is_simple_path(front.path, r.node) => IsAcyclic(next.path)
      BY ONLY <1>1, LongerEntry
  <2> HIDE DEF next
  <2>2. v = next
      BY <1>2 DEF next
  <2> QED BY <2>1, <2>2
<1> QED BY <1>1, <1>3 DEF Grows, front, v

\* A record of the iterator, by whichever operator: its path is queued, the
\* queue is dropped, or nothing happens to it.
LEMMA BfsVisit ==
    ASSUME Deterministic, UniqueEdges, BfsInv, pc = "expand", NEW r \in iter, iter' = iter \ {r},
           UNCHANGED <<class, start, end, at_end, current_transition, first_next>>,
           \/ open' = Append(open, NextState(r)) /\ Grows(NextState(r).path)
           \/ open' = <<>> /\ pc' # "expand"
           \/ open' = open
    PROVE  BfsInv'
<1>1. CASE open' = Append(open, NextState(r)) /\ Grows(NextState(r).path)
    BY <1>1, BfsEnqueue
<1>2. CASE open' = <<>> /\ pc' # "expand"
    BY <1>2, CurrentFacts, BfsClear
<1>3. CASE open' = open
    BY <1>3, BfsSkip
<1> QED BY <1>1, <1>2, <1>3

LEMMA BfsVisitTrail == Deterministic /\ UniqueEdges /\ BfsInv /\ Queue!VisitTrail => BfsInv'
<1> SUFFICES ASSUME Deterministic, UniqueEdges, BfsInv, Queue!VisitTrail PROVE BfsInv'
    OBVIOUS
<1>1. pc = "expand" /\ class.walks = "trails"
      /\ UNCHANGED <<class, start, end, at_end, current_transition, first_next>>
    BY DEF Queue!VisitTrail, Queue!SelectsTrails
<1>2. PICK r \in iter :
          /\ iter' = iter \ {r}
          /\ \/ open' = open
             \/ open' = <<>> /\ pc' = "ready"
             \/ open' = Append(open, NextState(r)) /\ is_trail(open[1].path, r.edge)
  <2>1. \A r : Queue!NextSearchState(Queue!Current, Queue!Outgoing[current_transition], r) = NextState(r)
      BY <1>1, CurrentFacts, QueueNames
         DEF Queue!Current, Queue!Outgoing, NextState, CurrentTransition
  <2>2. \A r : Queue!ExtendsTrail(Queue!Current.path, r.edge) <=> is_trail(open[1].path, r.edge)
      BY <1>1, CurrentFacts, QueueNames DEF Queue!Current, Queue!ExtendsTrail
  <2>3. \A w : Queue!TakeTrail(w) \/ Queue!GoOn(w) =>
            \/ open' = open
            \/ open' = <<>> /\ pc' = "ready"
            \/ open' = Append(open, w)
      BY DEF Queue!TakeTrail, Queue!GoOn, Queue!Return, Queue!Clear, Queue!Enqueue
  <2> QED BY <2>1, <2>2, <2>3 DEF Queue!VisitTrail
<1>3. Grows(NextState(r).path) \/ ~is_trail(open[1].path, r.edge)
    BY <1>1, <1>2, NextGrows
<1> QED BY <1>1, <1>2, <1>3, BfsVisit

LEMMA BfsVisitSimple == Deterministic /\ UniqueEdges /\ BfsInv /\ Queue!VisitSimple => BfsInv'
<1> SUFFICES ASSUME Deterministic, UniqueEdges, BfsInv, Queue!VisitSimple PROVE BfsInv'
    OBVIOUS
<1>1. pc = "expand" /\ class.walks = "simple"
      /\ UNCHANGED <<class, start, end, at_end, current_transition, first_next>>
    BY DEF Queue!VisitSimple, Queue!SelectsSimple
<1> DEFINE Extends(r) == /\ is_simple_path(open[1].path, r.node)
                         /\ class.check => LastNode(NextState(r).path) # end
<1>2. PICK r \in iter :
          /\ iter' = iter \ {r}
          /\ \/ open' = open
             \/ open' = <<>> /\ pc' = "ready"
             \/ open' = Append(open, NextState(r)) /\ Extends(r)
  <2>1. \A r : Queue!NextSearchState(Queue!Current, Queue!Outgoing[current_transition], r) = NextState(r)
      BY <1>1, CurrentFacts, QueueNames
         DEF Queue!Current, Queue!Outgoing, NextState, CurrentTransition
  <2>2. \A r : Queue!is_simple_path(Queue!Current.path, r.node) <=> is_simple_path(open[1].path, r.node)
      BY <1>1, CurrentFacts, QueueNames DEF Queue!Current
  <2>3. \A w : Queue!TakeSimple(w) /\ Queue!KeepQueue =>
            \/ open' = open
            \/ open' = <<>> /\ pc' = "ready"
      BY DEF Queue!TakeSimple, Queue!KeepQueue, Queue!Return, Queue!Clear
  <2>4. \A w : ~Queue!ReachesEnd(w) => (class.check => LastNode(w.path) # end)
      BY QueueNames DEF Queue!ReachesEnd, Queue!Check
  <2> QED BY <2>1, <2>2, <2>3, <2>4 DEF Queue!VisitSimple, Queue!Enqueue
<1>3. Grows(NextState(r).path) \/ ~Extends(r)
    BY <1>1, <1>2, NextGrows
<1> QED BY <1>1, <1>2, <1>3, BfsVisit

LEMMA BfsExpandFirst == BfsInv /\ Queue!ExpandFirst => BfsInv'
<1> SUFFICES ASSUME BfsInv, Queue!ExpandFirst PROVE BfsInv'
    OBVIOUS
<1>1. /\ pc = "loop" /\ open # <<>> /\ at_end /\ current_transition' = 1
      /\ UNCHANGED <<class, start, end, first_next>> /\ ~first_next
    BY DEF BfsInv, Queue!ExpandFirst
<1>2. QueueInv(open) /\ Head(open) = open[1] /\ Queue!Outgoing = OutgoingOf(open[1])
      /\ OutgoingOf(open[1]) \in Seq(Transition)
    BY <1>1, QueueFront, QueueNames DEF BfsInv, Queue!Outgoing, Queue!Current
<1>3. CASE Queue!Outgoing = <<>>
  <2>1. open' = Tail(open) /\ UNCHANGED <<at_end, pc>>
      BY <1>3 DEF Queue!ExpandFirst, Queue!Pop
  <2> QED BY <1>1, <2>1, BfsPop
<1>4. CASE Queue!Outgoing # <<>>
  <2>1. /\ open' = open /\ ~at_end' /\ pc' = "expand"
        /\ iter' = GetIterator(OutgoingOf(open[1])[1], LastNode(open[1].path))
      BY <1>2, <1>4, QueueNames DEF Queue!ExpandFirst, Queue!Current
  <2>2. Expanding'
    <3> DEFINE outgoing == OutgoingOf(open[1])
    <3>1. outgoing \in Seq(Transition) /\ outgoing # <<>>
        BY <1>2, <1>4
    <3> HIDE DEF outgoing
    <3>2. 1 \in 1 .. Len(outgoing)
        BY <3>1
    <3> QED BY <1>1, <2>1, <3>2 DEF Expanding, outgoing
  <2>3. FromFront(open', Taken')
    <3>1. Taken = {} /\ FromFront(open, {})
        BY <1>1 DEF BfsInv, Taken
    <3> QED BY <2>1, <3>1 DEF FromFront
  <2>4. \A i \in DOMAIN open' : Grows(open[i].path)'
      BY <1>1, <2>1 DEF BfsInv, Grows
  <2>5. QueueInv(open') /\ start' \in NodeIds
      BY <1>1, <1>2, <2>1 DEF BfsInv
  <2> QED BY <1>1, <2>1, <2>2, <2>3, <2>4, <2>5 DEF BfsInv
<1> QED BY <1>3, <1>4

LEMMA BfsNextTransition == BfsInv /\ Queue!NextTransition => BfsInv'
<1> SUFFICES ASSUME BfsInv, Queue!NextTransition PROVE BfsInv'
    OBVIOUS
<1>1. /\ pc = "expand" /\ iter = {} /\ current_transition' = current_transition + 1
      /\ UNCHANGED <<class, start, end, first_next>>
    BY DEF Queue!NextTransition
<1>2. /\ open # <<>> /\ ~at_end /\ ~first_next /\ QueueInv(open) /\ Head(open) = open[1]
      /\ Queue!Outgoing = OutgoingOf(open[1]) /\ OutgoingOf(open[1]) \in Seq(Transition)
      /\ FromFront(open, TakenFrom(open[1], current_transition, {}))
      /\ current_transition \in 1 .. Len(OutgoingOf(open[1]))
    BY <1>1, CurrentFacts, QueueFront, QueueNames DEF Queue!Outgoing, Queue!Current
<1>3. CASE Queue!MoreTransitions
  <2>1. /\ UNCHANGED <<open, at_end, pc>>
        /\ iter' = GetIterator(OutgoingOf(open[1])[current_transition + 1], LastNode(open[1].path))
      BY <1>2, <1>3, QueueNames DEF Queue!NextTransition, Queue!Current
  <2>2. Expanding'
    <3> DEFINE n == Len(OutgoingOf(open[1]))
    <3>1. n \in Nat /\ current_transition \in 1 .. n /\ current_transition < n
        BY <1>2, <1>3 DEF Queue!MoreTransitions
    <3> HIDE DEF n
    <3>2. current_transition + 1 \in 1 .. n
        BY <3>1
    <3> QED BY <1>1, <2>1, <3>2 DEF Expanding, n
  <2>3. TakenFrom(open[1], current_transition, {})
            \subseteq TakenFrom(open[1], current_transition + 1, iter')
    <3> DEFINE w == open[1]
               left == iter'
    <3>1. current_transition \in Nat
        BY <1>2
    <3> HIDE DEF w, left
    <3> QED BY <3>1, TakenNext DEF w, left
  <2>4. FromFront(open', Taken')
    <3>1. Taken' = TakenFrom(open[1], current_transition + 1, iter')
        BY <1>1, <1>2, <2>1 DEF Taken
    <3> QED BY <1>2, <2>1, <2>3, <3>1 DEF FromFront
  <2>5. \A i \in DOMAIN open' : Grows(open[i].path)'
      BY <1>1, <2>1 DEF BfsInv, Grows
  <2>6. QueueInv(open') /\ start' \in NodeIds
      BY <1>1, <1>2, <2>1 DEF BfsInv
  <2> QED BY <1>1, <1>2, <2>1, <2>2, <2>4, <2>5, <2>6 DEF BfsInv
<1>4. CASE ~Queue!MoreTransitions
  <2>1. open' = Tail(open) /\ at_end' /\ pc' = "loop"
      BY <1>4 DEF Queue!NextTransition, Queue!Pop
  <2> QED BY <1>1, <1>2, <2>1, BfsPop
<1> QED BY <1>3, <1>4

LEMMA BfsPipeline == BfsInv /\ Queue!Pipeline => BfsInv'
<1> SUFFICES ASSUME BfsInv, Queue!Pipeline PROVE BfsInv'
    OBVIOUS
<1>1. CASE Queue!StartMissing
    BY <1>1, BfsPop DEF BfsInv, Queue!StartMissing, Queue!Pop
<1>2. CASE Queue!Exhausted
  <2>1. ~first_next
      BY <1>2 DEF BfsInv, Queue!Exhausted
  <2> QED BY <1>2, <2>1, BfsKeep DEF Queue!Exhausted
<1>3. CASE Queue!ExpandFirst
    BY <1>3, BfsExpandFirst
<1>4. CASE Queue!ExpandResume
  <2>1. ~first_next
      BY <1>4 DEF BfsInv, Queue!ExpandResume
  <2> QED BY <1>4, <2>1, BfsKeep DEF Queue!ExpandResume
<1>5. CASE Queue!NextTransition
    BY <1>5, BfsNextTransition
<1> QED BY <1>1, <1>2, <1>3, <1>4, <1>5 DEF Queue!Pipeline

\* What the calls of next() do with the start node.
LEMMA BfsStart ==
    ASSUME BfsInv, NEW decided,
           Queue!ReturnTrailStart \/ Queue!ReturnSimpleStart \/ Queue!NoAnswerAtEnd
               \/ Queue!EnterLoop(decided)
    PROVE  BfsInv'
<1>1. /\ UNCHANGED <<class, start, end, iter, at_end, current_transition>>
      /\ ~first_next' /\ pc' # "expand"
      /\ open' = open \/ open' = <<>>
    BY DEF Queue!ReturnTrailStart, Queue!ReturnSimpleStart, Queue!NoAnswerAtEnd, Queue!EnterLoop,
           Queue!AllStart, Queue!EnumStart, Queue!CheckStart, Queue!AllEnumStart, Queue!AllCheckStart,
           Queue!Return, Queue!Clear
<1> QED BY <1>1, BfsKeep, BfsClear

LEMMA BfsStep ==
    ASSUME Deterministic, UniqueEdges, BfsInv,
           \/ Queue!Pipeline \/ Queue!TrailStep \/ Queue!SimpleStep \/ Queue!Interrupt
           \/ \E n \in NodeIds, e \in EndsOf(class) : Queue!Reset(n, e)
    PROVE  BfsInv'
<1>1. CASE Queue!Pipeline
    BY <1>1, BfsPipeline
<1>2. CASE Queue!TrailStep
    BY <1>2, BfsStart, BfsVisitTrail DEF Queue!TrailStep
<1>3. CASE Queue!SimpleStep
    BY <1>3, BfsStart, BfsVisitSimple DEF Queue!SimpleStep
<1>4. CASE Queue!Interrupt
  <2>1. ~first_next
      BY <1>4 DEF BfsInv, Queue!Interrupt
  <2> QED BY <1>4, <2>1, BfsKeep DEF Queue!Interrupt
<1>5. CASE \E n \in NodeIds, e \in EndsOf(class) : Queue!Reset(n, e)
    BY <1>5, BfsReset
<1> QED BY <1>1, <1>2, <1>3, <1>4, <1>5

-----------------------------------------------------------------------------
(* No path is handed out twice, depth first.  A path that was handed out   *)
(* does not continue the one on the stack, or does so by a step that was   *)
(* taken from its top; and the same of the frames below the top.           *)

StepOf(f) == [node |-> f.node, edge |-> f.edge, inverse |-> f.inverse]

\* The step s was taken from the frame f.
Behind(f, s) ==
    /\ ~f.at_end
    /\ \E k \in 1 .. f.transition :
           /\ s.inverse = OutgoingFrom(f)[k].inverse
           /\ [node |-> s.node, edge |-> s.edge] \in GetIterator(OutgoingFrom(f)[k], f.node)
           /\ k = f.transition => [node |-> s.node, edge |-> s.edge] \notin f.iter

Agrees(p, stack, n) == \A i \in 1 .. n : p[i] = StepOf(stack[i])

Left(p, stack) ==
    \A n \in 1 .. Len(stack) : n < Len(p) /\ Agrees(p, stack, n) => Behind(stack[n], p[n + 1])

LinksBehind(stack) == \A n \in 1 .. Len(stack) - 1 : Behind(stack[n], StepOf(stack[n + 1]))

LEMMA PathOfStack ==
    ASSUME NEW stack \in Seq(Frames)
    PROVE  LET p == Stack!PathOf(stack)
           IN  /\ p \in Seq(Steps) /\ Len(p) = Len(stack)
               /\ \A i \in 1 .. Len(stack) : p[i] = StepOf(stack[i])
<1>1. /\ DOMAIN stack = 1 .. Len(stack) /\ Len(stack) \in Nat
      /\ \A i \in 1 .. Len(stack) : stack[i] \in Frames
    OBVIOUS
<1>2. \A i \in 1 .. Len(stack) : StepOf(stack[i]) \in Steps
    BY <1>1 DEF StepOf, Steps, Frames
<1>3. Stack!PathOf(stack) = [i \in 1 .. Len(stack) |-> StepOf(stack[i])]
    BY <1>1 DEF Stack!PathOf, StepOf
<1>4. [i \in 1 .. Len(stack) |-> StepOf(stack[i])] \in [1 .. Len(stack) -> Steps]
    BY <1>2
<1> QED BY <1>1, <1>3, <1>4

\* What comes from the transition and the record that are being looked at was
\* not taken before.
LEMMA NotBehind ==
    ASSUME Deterministic, UniqueEdges, NEW closing, NEW f \in Frames, FrameInv(f, closing), ~f.at_end,
           NEW r \in f.iter
    PROVE  LET t == OutgoingFrom(f)[f.transition] IN ~Behind(f, StepTo(t, r))
<1> DEFINE t == OutgoingFrom(f)[f.transition]
<1>1. /\ OutgoingFrom(f) \in Seq(Transition) /\ f.transition \in 1 .. Len(OutgoingFrom(f))
      /\ f.iter \subseteq GetIterator(t, f.node) /\ f.automaton_state \in States
    BY DEF FrameInv, Frames, OutgoingFrom
<1>2. f.transition \in DOMAIN OutgoingFrom(f) /\ t \in Transition /\ r \in GetIterator(t, f.node)
    BY <1>1
<1>3. r = [node |-> r.node, edge |-> r.edge] /\ StepTo(t, r).node = r.node /\ StepTo(t, r).edge = r.edge
      /\ StepTo(t, r).inverse = t.inverse
    BY <1>2, RecordType DEF StepTo
<1> SUFFICES ASSUME NEW k \in 1 .. f.transition, t.inverse = OutgoingFrom(f)[k].inverse,
                    r \in GetIterator(OutgoingFrom(f)[k], f.node),
                    k = f.transition => r \notin f.iter
             PROVE  FALSE
    BY <1>3 DEF Behind
<1> DEFINE u == OutgoingFrom(f)[k]
<1>4. k \in DOMAIN OutgoingFrom(f) /\ k # f.transition
    BY <1>1
<1>5. t.type = u.type
  <2> HIDE DEF t, u
  <2>1. /\ \E e \in Edges : e.type = t.type /\ e.edge = r.edge
        /\ \E e \in Edges : e.type = u.type /\ e.edge = r.edge
      BY <1>2 DEF GetIterator, u
  <2> QED BY <2>1 DEF UniqueEdges
<1> QED BY <1>1, <1>2, <1>4, <1>5 DEF Deterministic, OutgoingFrom

LEMMA LeftPop ==
    ASSUME NEW stack \in Seq(Frames), stack # <<>>, NEW rest, rest = SubSeq(stack, 1, Len(stack) - 1)
    PROVE  /\ \A p : Left(p, stack) => Left(p, rest)
           /\ LinksBehind(stack) => LinksBehind(rest)
<1> DEFINE n == Len(stack)
<1>1. /\ n \in Nat \ {0} /\ Len(rest) = n - 1
      /\ \A i \in 1 .. n - 1 : rest[i] = stack[i]
    BY StackTop
<1> HIDE DEF n
<1>2. \A i \in 1 .. n - 1 : i \in 1 .. n
    BY <1>1
<1>3. ASSUME NEW p, Left(p, stack) PROVE Left(p, rest)
  <2> SUFFICES ASSUME NEW i \in 1 .. n - 1, i < Len(p), Agrees(p, rest, i) PROVE Behind(rest[i], p[i + 1])
      BY <1>1 DEF Left
  <2>1. Agrees(p, stack, i)
    <3>1. \A j \in 1 .. i : j \in 1 .. n - 1
        BY <1>1
    <3> QED BY <1>1, <3>1 DEF Agrees
  <2> QED BY <1>1, <1>2, <1>3, <2>1 DEF Left, n
<1>4. ASSUME LinksBehind(stack), NEW i \in 1 .. (n - 1) - 1 PROVE Behind(rest[i], StepOf(rest[i + 1]))
  <2>1. i \in 1 .. n - 1 /\ i + 1 \in 1 .. n - 1
      BY <1>1
  <2> QED BY <1>1, <1>4, <2>1 DEF LinksBehind, n
<1> QED BY <1>1, <1>3, <1>4 DEF LinksBehind

\* A frame on top from which no less was taken.
LEMMA LeftRetop ==
    ASSUME NEW stack \in Seq(Frames), stack # <<>>, NEW f \in Frames,
           StepOf(f) = StepOf(stack[Len(stack)]),
           \A s : Behind(stack[Len(stack)], s) => Behind(f, s),
           NEW changed, changed = Retopped(stack, f)
    PROVE  /\ \A p : Left(p, stack) => Left(p, changed)
           /\ LinksBehind(stack) => LinksBehind(changed)
           /\ changed \in Seq(Frames) /\ Len(changed) = Len(stack)
           /\ \A i \in 1 .. Len(stack) : StepOf(changed[i]) = StepOf(stack[i])
           /\ changed[Len(stack)] = f
<1> DEFINE n == Len(stack)
<1>1. n \in Nat \ {0} /\ DOMAIN stack = 1 .. n /\ n \in DOMAIN stack
    BY StackTop
<1>2. changed \in Seq(Frames) /\ Len(changed) = n
    BY <1>1 DEF Retopped
<1> HIDE DEF n
<1>3. /\ changed[n] = f
      /\ \A i \in 1 .. n : i # n => changed[i] = stack[i]
    BY <1>1, ExceptFacts DEF n, Retopped
<1>4. \A i \in 1 .. n : StepOf(changed[i]) = StepOf(stack[i])
    BY <1>3 DEF n
<1>5. \A i \in 1 .. n : \A s : Behind(stack[i], s) => Behind(changed[i], s)
    BY <1>3 DEF n
<1>6. ASSUME NEW p, Left(p, stack) PROVE Left(p, changed)
  <2> SUFFICES ASSUME NEW i \in 1 .. n, i < Len(p), Agrees(p, changed, i) PROVE Behind(changed[i], p[i + 1])
      BY <1>2 DEF Left
  <2>1. Agrees(p, stack, i)
    <3>1. \A j \in 1 .. i : j \in 1 .. n
        BY <1>1
    <3> QED BY <1>4, <3>1 DEF Agrees
  <2> QED BY <1>5, <1>6, <2>1 DEF Left, n
<1>7. ASSUME LinksBehind(stack), NEW i \in 1 .. n - 1 PROVE Behind(changed[i], StepOf(changed[i + 1]))
  <2>1. i \in 1 .. n /\ i + 1 \in 1 .. n
      BY <1>1
  <2> QED BY <1>4, <1>5, <1>7, <2>1 DEF LinksBehind, n
<1> QED BY <1>2, <1>3, <1>4, <1>6, <1>7 DEF LinksBehind, n

\* A new frame by a step that was not taken from the top, and now is.
LEMMA LeftPush ==
    ASSUME NEW stack \in Seq(Frames), stack # <<>>, NEW changed \in Seq(Frames), Len(changed) = Len(stack),
           \A i \in 1 .. Len(stack) : StepOf(changed[i]) = StepOf(stack[i]),
           NEW f \in Frames, ~Behind(stack[Len(stack)], StepOf(f)), Behind(changed[Len(stack)], StepOf(f)),
           NEW longer, longer = Append(changed, f)
    PROVE  /\ \A p : Left(p, stack) /\ Left(p, changed) => Left(p, longer) /\ p # Stack!PathOf(longer)
           /\ LinksBehind(changed) => LinksBehind(longer)
<1> DEFINE n == Len(stack)
<1>1. n \in Nat \ {0}
    BY StackTop
<1>2. /\ longer \in Seq(Frames) /\ Len(longer) = n + 1 /\ longer[n + 1] = f
      /\ \A i \in 1 .. n : longer[i] = changed[i]
    BY AppendProperties
<1> HIDE DEF n
<1>3. ASSUME NEW p, Left(p, stack), n < Len(p), Agrees(p, longer, n + 1) PROVE FALSE
  <2>1. Agrees(p, stack, n)
    <3>1. \A i \in 1 .. n : i \in 1 .. n + 1
        BY <1>1
    <3> QED BY <1>2, <1>3, <3>1 DEF Agrees, n
  <2>2. p[n + 1] = StepOf(f)
    <3>1. n + 1 \in 1 .. n + 1
        BY <1>1
    <3> QED BY <1>2, <1>3, <3>1 DEF Agrees
  <2>3. n \in 1 .. n
      BY <1>1
  <2>4. Behind(stack[n], p[n + 1])
      BY <1>3, <2>1, <2>3 DEF Left, n
  <2> QED BY <2>2, <2>4 DEF n
<1>4. ASSUME NEW p, Left(p, stack), Left(p, changed) PROVE Left(p, longer)
  <2> SUFFICES ASSUME NEW i \in 1 .. n + 1, i < Len(p), Agrees(p, longer, i) PROVE Behind(longer[i], p[i + 1])
      BY <1>2 DEF Left
  <2>1. CASE i = n + 1
    <3>1. Len(p) > n
        BY <1>1, <2>1
    <3> QED BY <1>3, <1>4, <2>1, <3>1
  <2>2. CASE i # n + 1
    <3>1. i \in 1 .. n /\ \A j \in 1 .. i : j \in 1 .. n
        BY <1>1, <2>2
    <3>2. Agrees(p, changed, i)
        BY <1>2, <3>1 DEF Agrees
    <3> QED BY <1>2, <1>4, <3>1, <3>2 DEF Left, n
  <2> QED BY <2>1, <2>2
<1>5. ASSUME NEW p, Left(p, stack), p = Stack!PathOf(longer) PROVE FALSE
  <2>1. Len(p) = n + 1 /\ \A i \in 1 .. n + 1 : p[i] = StepOf(longer[i])
      BY <1>2, <1>5, PathOfStack
  <2>2. Agrees(p, longer, n + 1)
      BY <2>1 DEF Agrees
  <2>3. n < Len(p)
      BY <1>1, <2>1
  <2> QED BY <1>3, <1>5, <2>2, <2>3
<1>6. ASSUME LinksBehind(changed), NEW i \in 1 .. (n + 1) - 1 PROVE Behind(longer[i], StepOf(longer[i + 1]))
  <2>1. CASE i = n
      BY <1>2, <2>1 DEF n
  <2>2. CASE i # n
    <3>1. i \in 1 .. n - 1 /\ i \in 1 .. n /\ i + 1 \in 1 .. n
        BY <1>1, <2>2
    <3> QED BY <1>2, <1>6, <3>1 DEF LinksBehind, n
  <2> QED BY <2>1, <2>2
<1> QED BY <1>2, <1>4, <1>5, <1>6 DEF LinksBehind

LEMMA LeftPath ==
    ASSUME NEW stack \in Seq(Frames), LinksBehind(stack) PROVE Left(Stack!PathOf(stack), stack)
<1> DEFINE p == Stack!PathOf(stack)
<1>1. Len(p) = Len(stack) /\ \A i \in 1 .. Len(stack) : p[i] = StepOf(stack[i])
    BY PathOfStack
<1> HIDE DEF p
<1> SUFFICES ASSUME NEW n \in 1 .. Len(stack), n < Len(stack) PROVE Behind(stack[n], p[n + 1])
    BY <1>1 DEF Left, p
<1>2. n \in 1 .. Len(stack) - 1 /\ n + 1 \in 1 .. Len(stack)
    OBVIOUS
<1> QED BY <1>1, <1>2 DEF LinksBehind

\* No less was taken from the frames of changed than from those of stack.
NoLess(changed, stack) ==
    /\ \A p : Left(p, stack) => Left(p, changed)
    /\ LinksBehind(stack) => LinksBehind(changed)

LEMMA NoLessSame ==
    ASSUME NEW stack
    PROVE  NoLess(stack, stack)
BY DEF NoLess

LEMMA NoLessEmpty ==
    ASSUME NEW stack, NEW none, none = <<>>
    PROVE  NoLess(none, stack)
<1>1. 1 .. Len(none) = {} /\ 1 .. Len(none) - 1 = {}
    OBVIOUS
<1> QED BY <1>1 DEF NoLess, Left, LinksBehind

AnswerTop == open[Len(open)].node = end /\ open[Len(open)].automaton_state \in FinalStates

\* What was handed out lies behind the search: as paths, by their last nodes if
\* any path will do, and at most one of them in a check.
DfsOnce ==
    /\ results \in Seq(Seq(Steps))
    /\ NoneTwice
    /\ first_next => results = <<>>
    /\ IF class.answers # "any"
       THEN LinksBehind(open) /\ \A i \in DOMAIN results : Left(results[i], open)
       ELSE IF class.check THEN results # <<>> => pc # "expand" /\ (open # <<>> => AnswerTop)
       ELSE \A i \in DOMAIN results : LastNode(results[i]) \in reached_final

\* One more result, with another answer.
LEMMA NoneTwiceMore ==
    ASSUME results \in Seq(Seq(Steps)), NoneTwice, NEW x \in Seq(Steps),
           \A i \in DOMAIN results : AnswerOf(class, results[i]) # AnswerOf(class, x),
           results' = Append(results, x), class' = class
    PROVE  /\ results' \in Seq(Seq(Steps)) /\ NoneTwice'
           /\ \A i \in DOMAIN results' : results'[i] = x \/ \E j \in DOMAIN results : results'[i] = results[j]
<1> DEFINE n == Len(results)
<1>1. /\ n \in Nat /\ DOMAIN results = 1 .. n /\ results' \in Seq(Seq(Steps)) /\ Len(results') = n + 1
      /\ \A i \in 1 .. n : results'[i] = results[i]
      /\ results'[n + 1] = x
    BY AppendProperties
<1> HIDE DEF n
<1>2. DOMAIN results' = 1 .. n + 1 /\ \A i \in 1 .. n + 1 : i \in 1 .. n \/ i = n + 1
    BY <1>1
<1>3. \A i \in DOMAIN results' : results'[i] = x \/ \E j \in DOMAIN results : results'[i] = results[j]
    BY <1>1, <1>2
<1>4. ASSUME NEW i \in 1 .. n + 1, NEW j \in 1 .. n + 1,
             AnswerOf(class, results'[i]) = AnswerOf(class, results'[j])
      PROVE  i = j
    BY <1>1, <1>2, <1>4 DEF NoneTwice
<1>5. NoneTwice'
    BY <1>2, <1>4 DEF NoneTwice, AnswerOf
<1> QED BY <1>1, <1>3, <1>5

LEMMA OnceQuiet ==
    ASSUME DfsOnce, UNCHANGED <<class, end, results, reached_final>>, first_next' => first_next,
           NoLess(open', open),
           class.answers = "any" /\ class.check /\ results # <<>> =>
               pc' # "expand" /\ (open' = open \/ open' = <<>>)
    PROVE  DfsOnce'
<1>1. NoneTwice'
    BY DEF DfsOnce, NoneTwice, AnswerOf
<1>2. class.answers # "any" => LinksBehind(open') /\ \A i \in DOMAIN results : Left(results[i], open')
    BY DEF DfsOnce, NoLess
<1> QED BY <1>1, <1>2 DEF DfsOnce, AnswerTop

\* The path of the stack is handed out.
LEMMA OnceReturn ==
    ASSUME DfsOnce, UNCHANGED <<class, end>>, ~first_next', open' \in Seq(Frames), open' # <<>>,
           class.answers # "any" =>
               /\ LinksBehind(open')
               /\ \A i \in DOMAIN results : Left(results[i], open') /\ results[i] # Stack!PathOf(open'),
           class.answers = "any" /\ class.check => results = <<>>,
           Stack!IsAnswer(open'[Len(open')]), Stack!Remember(open'[Len(open')]), Stack!Return(open')
    PROVE  DfsOnce'
<1> DEFINE p == Stack!PathOf(open')
           f == open'[Len(open')]
<1>1. /\ p \in Seq(Steps) /\ Len(p) = Len(open') /\ p[Len(open')] = StepOf(f)
    BY PathOfStack, StackTop
<1>2. results' = Append(results, p) /\ pc' = "ready"
    BY DEF Stack!Return
<1>3. LastNode(p) = f.node
    BY <1>1 DEF LastNode, StepOf
<1>4. class.answers # "any" => Left(p, open')
    BY LeftPath
<1> HIDE DEF p, f
<1>5. CASE class.answers # "any"
  <2>1. \A i \in DOMAIN results : AnswerOf(class, results[i]) # AnswerOf(class, p)
      BY <1>5 DEF AnswerOf, p
  <2>2. /\ results' \in Seq(Seq(Steps)) /\ NoneTwice'
        /\ \A i \in DOMAIN results' : results'[i] = p \/ \E j \in DOMAIN results : results'[i] = results[j]
      BY <1>1, <1>2, <2>1, NoneTwiceMore DEF DfsOnce
  <2>3. \A i \in DOMAIN results' : Left(results'[i], open')
      BY <1>4, <1>5, <2>2
  <2> QED BY <1>5, <2>2, <2>3 DEF DfsOnce
<1>6. CASE class.answers = "any" /\ class.check
  <2>1. results = <<>> /\ DOMAIN results = {}
      BY <1>6
  <2>2. results' \in Seq(Seq(Steps)) /\ NoneTwice'
      BY <1>1, <1>2, <2>1, NoneTwiceMore DEF DfsOnce
  <2>3. AnswerTop'
      BY <1>6 DEF Stack!IsAnswer, Stack!AnyCheckAnswer, Stack!Final, Stack!Any, Stack!Check, AnswerTop
  <2> QED BY <1>2, <1>6, <2>2, <2>3 DEF DfsOnce
<1>7. CASE class.answers = "any" /\ ~class.check
  <2>1. f.node \notin reached_final /\ reached_final' = reached_final \cup {f.node}
      BY <1>7 DEF Stack!IsAnswer, Stack!AnyEnumAnswer, Stack!Any, Stack!Check, Stack!Remember, f
  <2>2. \A i \in DOMAIN results : LastNode(results[i]) \in reached_final
      BY <1>7 DEF DfsOnce
  <2>3. \A i \in DOMAIN results : AnswerOf(class, results[i]) # AnswerOf(class, p)
      BY <1>3, <1>7, <2>1, <2>2 DEF AnswerOf
  <2>4. /\ results' \in Seq(Seq(Steps)) /\ NoneTwice'
        /\ \A i \in DOMAIN results' : results'[i] = p \/ \E j \in DOMAIN results : results'[i] = results[j]
      BY <1>1, <1>2, <2>3, NoneTwiceMore DEF DfsOnce
  <2>5. \A i \in DOMAIN results' : LastNode(results'[i]) \in reached_final'
      BY <1>3, <2>1, <2>2, <2>4
  <2> QED BY <1>7, <2>4, <2>5 DEF DfsOnce
<1> QED BY <1>5, <1>6, <1>7

\* What leaves the top and changes nothing else of what was handed out.
LEMMA MovedNoLess ==
    ASSUME NEW closing, NEW stack, StackInv(stack, closing), stack # <<>>,
           NEW k \in 1 .. Len(OutgoingFrom(stack[Len(stack)])),
           stack[Len(stack)].at_end \/ k = stack[Len(stack)].transition + 1
    PROVE  NoLess(MovedTo(stack, k), stack)
<1> DEFINE f == stack[Len(stack)]
           g == AtTransition(f, k)
<1>1. f \in Frames /\ OutgoingFrom(f) \in Seq(Transition) /\ stack \in Seq(Frames)
    BY TopOf DEF StackInv
<1>2. k \in Nat /\ k \in DOMAIN OutgoingFrom(f)
    BY <1>1
<1>3. OutgoingFrom(f)[k] \in Transition /\ f.node \in NodeIds
    BY <1>1, <1>2 DEF Frames
<1>4. MovedTo(stack, k) = Retopped(stack, g)
    BY <1>1, <1>2, SetIterTop DEF MovedTo, Retopped
<1>5. f.at_end \/ k = f.transition + 1
    OBVIOUS
<1> HIDE DEF f
<1>6. GetIterator(OutgoingFrom(f)[k], f.node) \subseteq Records
    BY <1>3 DEF Records
<1>7. /\ g \in Frames /\ g.automaton_state = f.automaton_state /\ g.node = f.node
      /\ g.edge = f.edge /\ g.inverse = f.inverse /\ ~g.at_end /\ g.transition = k
    BY <1>1, <1>2, <1>6 DEF AtTransition, Frames
<1>8. OutgoingFrom(g) = OutgoingFrom(f) /\ StepOf(g) = StepOf(f) /\ f.transition \in Nat
    BY <1>1, <1>7 DEF OutgoingFrom, StepOf, Frames
<1> HIDE DEF g
<1>9. ASSUME NEW s, Behind(f, s) PROVE Behind(g, s)
  <2>1. ~f.at_end /\ k = f.transition + 1
      BY <1>5, <1>9 DEF Behind
  <2>2. PICK j \in 1 .. f.transition :
            /\ s.inverse = OutgoingFrom(f)[j].inverse
            /\ [node |-> s.node, edge |-> s.edge] \in GetIterator(OutgoingFrom(f)[j], f.node)
      BY <1>9 DEF Behind
  <2>3. j \in 1 .. g.transition /\ j # g.transition
      BY <1>7, <1>8, <2>1
  <2> QED BY <1>7, <1>8, <2>2, <2>3 DEF Behind
<1>10. NoLess(Retopped(stack, g), stack)
    BY <1>1, <1>7, <1>8, <1>9, LeftRetop DEF NoLess, f
<1> QED BY <1>4, <1>10

\* A record that is taken, and the frame that follows it.
LEMMA ConsumedNoLess ==
    ASSUME Deterministic, UniqueEdges, NEW closing, NEW stack, StackInv(stack, closing), stack # <<>>,
           ~stack[Len(stack)].at_end, NEW r \in stack[Len(stack)].iter, NEW m
    PROVE  LET t == OutgoingFrom(stack[Len(stack)])[stack[Len(stack)].transition]
               longer == Grown(stack, r, t, m)
           IN  /\ NoLess(Consumed(stack, r), stack)
               /\ NewFrame(t, r, m) \in Frames =>
                      /\ NoLess(longer, stack)
                      /\ \A p : Left(p, stack) => p # Stack!PathOf(longer)
<1> DEFINE f == stack[Len(stack)]
           g == [f EXCEPT !.iter = @ \ {r}]
           t == OutgoingFrom(f)[f.transition]
           h == NewFrame(t, r, m)
           changed == Consumed(stack, r)
<1>1. /\ f \in Frames /\ FrameInv(f, closing) /\ ~f.at_end /\ stack \in Seq(Frames) /\ r \in f.iter
      /\ OutgoingFrom(f) \in Seq(Transition)
    BY TopOf DEF StackInv
<1>2. changed = Retopped(stack, g)
    BY DEF Consumed, Retopped
<1> HIDE DEF f
<1>3. /\ g \in Frames /\ g.automaton_state = f.automaton_state /\ g.node = f.node
      /\ g.edge = f.edge /\ g.inverse = f.inverse /\ ~g.at_end /\ g.transition = f.transition
      /\ g.iter = f.iter \ {r}
    BY <1>1 DEF Frames
<1>4. OutgoingFrom(g) = OutgoingFrom(f) /\ StepOf(g) = StepOf(f)
    BY <1>3 DEF OutgoingFrom, StepOf
<1>5. /\ f.transition \in 1 .. Len(OutgoingFrom(f)) /\ f.iter \subseteq GetIterator(t, f.node)
      /\ f.transition \in 1 .. f.transition
    BY <1>1 DEF FrameInv
<1>6. t \in Transition
    BY <1>1, <1>5
<1>7. r = [node |-> r.node, edge |-> r.edge]
    BY <1>1, <1>5, <1>6, RecordType
<1>8. StepOf(h) = StepTo(t, r) /\ StepTo(t, r).node = r.node /\ StepTo(t, r).edge = r.edge
      /\ StepTo(t, r).inverse = t.inverse
    BY DEF StepOf, StepTo, NewFrame
<1> HIDE DEF g, h
<1>9. ASSUME NEW s, Behind(f, s) PROVE Behind(g, s)
    BY <1>3, <1>4, <1>9 DEF Behind
<1>10. /\ NoLess(changed, stack) /\ changed \in Seq(Frames) /\ Len(changed) = Len(stack)
       /\ \A i \in 1 .. Len(stack) : StepOf(changed[i]) = StepOf(stack[i])
       /\ changed[Len(stack)] = g
    BY <1>1, <1>2, <1>3, <1>4, <1>9, LeftRetop DEF NoLess, f
<1>11. ~Behind(f, StepOf(h))
    BY <1>1, <1>8, NotBehind
<1>12. Behind(g, StepOf(h))
    BY <1>1, <1>3, <1>4, <1>5, <1>7, <1>8 DEF Behind
<1> HIDE DEF changed, t
<1>13. ASSUME h \in Frames
       PROVE  /\ NoLess(Append(changed, h), stack)
              /\ \A p : Left(p, stack) => p # Stack!PathOf(Append(changed, h))
  <2>1. /\ \A p : Left(p, stack) /\ Left(p, changed) =>
                      Left(p, Append(changed, h)) /\ p # Stack!PathOf(Append(changed, h))
        /\ LinksBehind(changed) => LinksBehind(Append(changed, h))
      BY <1>1, <1>10, <1>11, <1>12, <1>13, LeftPush DEF f
  <2> QED BY <1>10, <2>1 DEF NoLess
<1> QED BY <1>10, <1>13 DEF Grown, changed, h, t, f

LEMMA OncePop ==
    ASSUME DfsInv, DfsOnce, open # <<>>, open' = SubSeq(open, 1, Len(open) - 1),
           UNCHANGED <<class, end, results, reached_final>>, first_next' => first_next,
           class.answers = "any" /\ class.check => results = <<>>
    PROVE  DfsOnce'
<1>1. NoLess(open', open)
    BY LeftPop DEF NoLess, DfsInv, StackInv
<1> QED BY <1>1, OnceQuiet

LEMMA OnceReset == ASSUME NEW n \in NodeIds, NEW e, Stack!Reset(n, e) PROVE DfsOnce'
<1>1. /\ results' = <<>> /\ <<>> \in Seq(Seq(Steps)) /\ DOMAIN <<>> = {}
      /\ open' = <<Stack!Frame(StartState, n, Stack!NoEdge, FALSE)>>
    BY DEF Stack!Reset
<1>2. 1 .. Len(open') - 1 = {}
    BY <1>1
<1> QED BY <1>1, <1>2 DEF DfsOnce, NoneTwice, LinksBehind

LEMMA OnceInit == Stack!Init => DfsOnce
<1> SUFFICES ASSUME Stack!Init PROVE DfsOnce
    OBVIOUS
<1>1. /\ results = <<>> /\ <<>> \in Seq(Seq(Steps)) /\ DOMAIN <<>> = {}
      /\ open = <<Stack!Frame(StartState, start, Stack!NoEdge, FALSE)>>
    BY DEF Stack!Init
<1>2. 1 .. Len(open) - 1 = {}
    BY <1>1
<1> QED BY <1>1, <1>2 DEF DfsOnce, NoneTwice, LinksBehind

\* While a check for any path is not over, it has found none.
LEMMA NotFoundYet ==
    ASSUME DfsOnce, class.answers = "any", class.check, open # <<>>, ~Stack!AnswerOnTop
    PROVE  results = <<>>
BY DEF DfsOnce, AnswerTop, Stack!AnswerOnTop, Stack!Any, Stack!Check, Stack!Top

LEMMA OnceExpandFirst ==
    ASSUME DfsInv, DfsOnce, NEW popped, Stack!ExpandFirst(popped), Stack!AnswerOnTop => popped,
           class.walks # "trails" => (popped <=> Stack!NotExpanded)
    PROVE  DfsOnce'
<1>1. /\ open # <<>> /\ open[Len(open)].at_end /\ ~popped
      /\ UNCHANGED <<class, end, first_next, results, reached_final>>
      /\ StackInv(open, Closing)
    BY DEF Stack!ExpandFirst, Stack!Top, DfsInv
<1>2. class.answers = "any" /\ class.check => results = <<>>
    BY <1>1, NotFoundYet
<1>3. CASE OutgoingFrom(open[Len(open)]) = <<>>
  <2>1. open' = SubSeq(open, 1, Len(open) - 1)
      BY <1>3 DEF Stack!ExpandFirst, Stack!Pop, Stack!Top, OutgoingFrom
  <2> QED BY <1>1, <1>2, <2>1, OncePop
<1>4. CASE OutgoingFrom(open[Len(open)]) # <<>>
  <2>1. open' = Stack!SetIter(open)
      BY <1>4 DEF Stack!ExpandFirst, Stack!Top, OutgoingFrom
  <2>2. open' = MovedTo(open, 1) /\ 1 \in 1 .. Len(OutgoingFrom(open[Len(open)]))
      BY <1>1, <1>4, <2>1, AtFirst, FirstMove
  <2>3. NoLess(open', open)
      BY <1>1, <2>2, MovedNoLess
  <2> QED BY <1>1, <1>2, <2>3, OnceQuiet
<1> QED BY <1>3, <1>4

LEMMA OnceNextTransition == ASSUME DfsInv, DfsOnce, Stack!NextTransition PROVE DfsOnce'
<1>1. /\ open # <<>> /\ ~open[Len(open)].at_end /\ pc = "expand"
      /\ UNCHANGED <<class, end, first_next, results, reached_final>>
      /\ StackInv(open, Closing)
    BY DEF Stack!NextTransition, DfsInv
<1>2. class.answers = "any" /\ class.check => results = <<>>
    BY <1>1 DEF DfsOnce
<1>3. /\ FrameInv(open[Len(open)], Closing)
      /\ OutgoingFrom(open[Len(open)]) \in Seq(Transition)
    BY <1>1, TopOf
<1>4. open[Len(open)].transition \in 1 .. Len(OutgoingFrom(open[Len(open)]))
    BY <1>1, <1>3 DEF FrameInv
<1>5. CASE Stack!MoreTransitions
  <2>1. open[Len(open)].transition + 1 \in 1 .. Len(OutgoingFrom(open[Len(open)]))
      BY <1>3, <1>4, <1>5 DEF Stack!MoreTransitions, Stack!Top, OutgoingFrom
  <2>2. open' = MovedTo(open, open[Len(open)].transition + 1)
      BY <1>1, <1>5, TopOf DEF Stack!NextTransition, MovedTo
  <2>3. NoLess(open', open)
      BY <1>1, <2>1, <2>2, MovedNoLess
  <2> QED BY <1>1, <1>2, <2>3, OnceQuiet
<1>6. CASE ~Stack!MoreTransitions
  <2>1. open' = SubSeq(open, 1, Len(open) - 1)
      BY <1>6 DEF Stack!NextTransition, Stack!Pop
  <2> QED BY <1>1, <1>2, <2>1, OncePop
<1> QED BY <1>5, <1>6

\* A record that leads to a new frame, which may be an answer.
LEMMA OnceGrown ==
    ASSUME Deterministic, UniqueEdges, DfsInv, DfsOnce, pc = "expand",
           UNCHANGED <<class, end, first_next>>, NEW r \in open[Len(open)].iter, NEW m,
           NEW t, t = OutgoingFrom(open[Len(open)])[open[Len(open)].transition], StartsAt(t, m, Closing),
           open' = Grown(open, r, t, m),
           IF Stack!IsAnswer(NewFrame(t, r, m))
           THEN Stack!Remember(NewFrame(t, r, m)) /\ Stack!Return(open')
           ELSE UNCHANGED <<reached_final, results>>
    PROVE  DfsOnce'
<1> DEFINE f == NewFrame(t, r, m)
<1>1. /\ StackInv(open, Closing) /\ open # <<>> /\ ~open[Len(open)].at_end /\ ~first_next
    BY DEF DfsInv
<1>2. /\ open' \in Seq(Frames) /\ open' # <<>> /\ open'[Len(open')] = f
  <2>1. GrowsTo(Closing, open, r, f, open')
      BY <1>1, StackReach DEF Found
  <2> HIDE DEF f
  <2> QED BY <2>1 DEF GrowsTo, StackInv
<1>3. f \in Frames
    BY <1>2, StackTop
<1>4. /\ NoLess(open', open)
      /\ \A p : Left(p, open) => p # Stack!PathOf(open')
    BY <1>1, <1>3, ConsumedNoLess
<1>5. class.answers = "any" /\ class.check => results = <<>>
    BY DEF DfsOnce
<1>6. CASE Stack!IsAnswer(f)
  <2> HIDE DEF f
  <2>1. class.answers # "any" =>
            /\ LinksBehind(open')
            /\ \A i \in DOMAIN results : Left(results[i], open') /\ results[i] # Stack!PathOf(open')
      BY <1>4 DEF DfsOnce, NoLess
  <2> QED BY <1>1, <1>2, <1>5, <1>6, <2>1, OnceReturn DEF f
<1>7. CASE ~Stack!IsAnswer(f)
    BY <1>1, <1>4, <1>5, <1>7, OnceQuiet
<1> QED BY <1>6, <1>7

LEMMA OnceConsume ==
    ASSUME Deterministic, UniqueEdges, DfsInv, DfsOnce, pc = "expand",
           NEW r \in open[Len(open)].iter, open' = Consumed(open, r),
           UNCHANGED <<class, end, first_next, results, reached_final>>
    PROVE  DfsOnce'
<1>1. /\ StackInv(open, Closing) /\ open # <<>> /\ ~open[Len(open)].at_end
    BY DEF DfsInv
<1>2. NoLess(open', open)
    BY <1>1, ConsumedNoLess
<1> QED BY <1>2, OnceQuiet DEF DfsOnce

LEMMA OnceVisitTrail ==
    ASSUME Deterministic, UniqueEdges, DfsInv, DfsOnce, Stack!VisitTrail PROVE DfsOnce'
<1>1. pc = "expand" /\ UNCHANGED <<class, end, first_next>>
    BY DEF Stack!VisitTrail
<1>2. PICK r \in open[Len(open)].iter :
          LET f == Stack!FrameOf(r)
          IN  IF ~Stack!ExtendsTrail(Stack!PathOf(open), r.edge)
              THEN open' = Consumed(open, r) /\ UNCHANGED <<reached_final, results>>
              ELSE /\ open' = Append(Consumed(open, r), f)
                   /\ IF Stack!IsAnswer(f) THEN Stack!Remember(f) /\ Stack!Return(open')
                                           ELSE UNCHANGED <<reached_final, results>>
    BY DEF Stack!VisitTrail, Stack!Top, Stack!Consumed, Consumed
<1>3. CASE ~Stack!ExtendsTrail(Stack!PathOf(open), r.edge)
    BY <1>1, <1>2, <1>3, OnceConsume
<1>4. CASE Stack!ExtendsTrail(Stack!PathOf(open), r.edge)
  <2> DEFINE t == OutgoingFrom(open[Len(open)])[open[Len(open)].transition]
  <2>1. Stack!FrameOf(r) = NewFrame(t, r, 1)
      BY <1>1, FramesFound
  <2>2. /\ open' = Grown(open, r, t, 1)
        /\ IF Stack!IsAnswer(NewFrame(t, r, 1))
           THEN Stack!Remember(NewFrame(t, r, 1)) /\ Stack!Return(open')
           ELSE UNCHANGED <<reached_final, results>>
      BY <1>2, <1>4, <2>1 DEF Grown
  <2>3. StartsAt(t, 1, Closing)
      BY DEF StartsAt
  <2> QED BY <1>1, <2>2, <2>3, OnceGrown
<1> QED BY <1>3, <1>4

LEMMA OnceVisitSimple ==
    ASSUME Deterministic, UniqueEdges, DfsInv, DfsOnce, Stack!VisitSimple PROVE DfsOnce'
<1>1. /\ pc = "expand" /\ UNCHANGED <<class, end, first_next>> /\ class.walks = "simple"
    BY DEF Stack!VisitSimple, Stack!SelectsSimple
<1>2. PICK r \in open[Len(open)].iter :
          LET f == Stack!FrameOf(r)
          IN  \/ Stack!Reach(r, f)
              \/ Stack!ClosesCycle(f) /\ Stack!Reach(r, Stack!ClosingFrame(f))
              \/ open' = Consumed(open, r) /\ UNCHANGED <<reached_final, results>>
    BY DEF Stack!VisitSimple, Stack!Top, Stack!Consumed, Consumed
<1> DEFINE t == OutgoingFrom(open[Len(open)])[open[Len(open)].transition]
           m == IF class.check THEN 1 ELSE Len(Connections[t.to]) + 1
<1>3. Stack!FrameOf(r) = NewFrame(t, r, 1) /\ Stack!ClosingFrame(Stack!FrameOf(r)) = NewFrame(t, r, m)
    BY <1>1, FramesFound
<1>4. StartsAt(t, 1, Closing)
    BY DEF StartsAt
<1>5. Stack!ClosesCycle(Stack!FrameOf(r)) => StartsAt(t, m, Closing)
    BY <1>1 DEF Stack!ClosesCycle, Stack!Cyclic, Closing, StartsAt
<1> HIDE DEF m, t
<1>6. ASSUME NEW k, Stack!Reach(r, NewFrame(t, r, k))
      PROVE  /\ open' = Grown(open, r, t, k)
             /\ IF Stack!IsAnswer(NewFrame(t, r, k))
                THEN Stack!Remember(NewFrame(t, r, k)) /\ Stack!Return(open')
                ELSE UNCHANGED <<reached_final, results>>
    BY <1>6 DEF Stack!Reach, Stack!Consumed, Consumed, Grown
<1>7. CASE Stack!Reach(r, Stack!FrameOf(r))
    BY <1>1, <1>3, <1>4, <1>6, <1>7, OnceGrown DEF t
<1>8. CASE Stack!ClosesCycle(Stack!FrameOf(r)) /\ Stack!Reach(r, Stack!ClosingFrame(Stack!FrameOf(r)))
    BY <1>1, <1>3, <1>5, <1>6, <1>8, OnceGrown DEF t
<1>9. CASE open' = Consumed(open, r) /\ UNCHANGED <<reached_final, results>>
    BY <1>1, <1>9, OnceConsume
<1> QED BY <1>2, <1>7, <1>8, <1>9

LEMMA DfsOnceStep ==
    ASSUME Deterministic, UniqueEdges, DfsInv, DfsOnce,
           \/ Stack!Pipeline \/ Stack!TrailStep \/ Stack!SimpleStep \/ Stack!Interrupt
           \/ \E n \in NodeIds : \E e \in EndsOf(class) : Stack!Reset(n, e)
    PROVE  DfsOnce'
<1>1. CASE Stack!StartMissing
  <2>1. /\ open # <<>> /\ open' = SubSeq(open, 1, Len(open) - 1) /\ results = <<>>
        /\ UNCHANGED <<class, end, results, reached_final>> /\ ~first_next'
      BY <1>1 DEF Stack!StartMissing, Stack!Pop, DfsInv, DfsOnce
  <2> QED BY <2>1, OncePop
<1>2. CASE Stack!ReturnStart
  <2>1. /\ open # <<>> /\ open \in Seq(Frames) /\ results = <<>> /\ DOMAIN <<>> = {}
        /\ UNCHANGED <<class, end, open>> /\ ~first_next'
        /\ Stack!IsAnswer(open[Len(open)]) /\ Stack!Remember(open[Len(open)]) /\ Stack!Return(open)
      BY <1>2 DEF Stack!ReturnStart, Stack!Top, DfsInv, DfsOnce, StackInv
  <2>2. class.answers # "any" => LinksBehind(open)
      BY DEF DfsOnce
  <2> QED BY <2>1, <2>2, OnceReturn
<1>3. CASE Stack!Exhausted \/ Stack!Interrupt
    BY <1>3, OnceQuiet, NoLessSame DEF Stack!Exhausted, Stack!Interrupt
<1>4. CASE Stack!NextTransition
    BY <1>4, OnceNextTransition
<1>5. CASE Stack!StopAfterAnswer \/ Stack!NoAnswerAtEnd \/ Stack!StopAtEnd
  <2>1. /\ open' = <<>> /\ UNCHANGED <<class, end, results, reached_final>>
        /\ first_next' => first_next
        /\ pc' # "expand"
      BY <1>5 DEF Stack!StopAfterAnswer, Stack!NoAnswerAtEnd, Stack!StopAtEnd, Stack!Clear
  <2>2. NoLess(open', open)
      BY <2>1, NoLessEmpty
  <2> QED BY <2>1, <2>2, OnceQuiet
<1>6. CASE Stack!VisitTrail
    BY <1>6, OnceVisitTrail
<1>7. CASE Stack!VisitSimple
    BY <1>7, OnceVisitSimple
<1>8. ASSUME NEW decided, Stack!EnterLoop(decided) PROVE DfsOnce'
    BY <1>8, OnceQuiet, NoLessSame DEF Stack!EnterLoop
<1>9. class.walks = "simple" => (Stack!AnswerOnTop => Stack!NotExpanded)
    BY DEF Stack!AnswerOnTop, Stack!NotExpanded, Stack!EndOnTop, Stack!AnyCheckStops
<1>10. CASE \/ Stack!SelectsTrails /\ Stack!ExpandResume(Stack!AnswerOnTop)
            \/ Stack!SelectsSimple /\ Stack!ExpandResume(Stack!NotExpanded)
  <2>1. /\ ~Stack!AnswerOnTop /\ open # <<>> /\ open' = open
        /\ UNCHANGED <<class, end, results, reached_final, first_next>>
      BY <1>9, <1>10 DEF Stack!ExpandResume, Stack!SelectsSimple
  <2>2. class.answers = "any" /\ class.check => results = <<>>
      BY <2>1, NotFoundYet
  <2> QED BY <2>1, <2>2, OnceQuiet, NoLessSame
<1>11. CASE Stack!SelectsTrails /\ Stack!ExpandFirst(Stack!AnswerOnTop)
    BY <1>11, OnceExpandFirst DEF Stack!SelectsTrails
<1>12. CASE Stack!SelectsSimple /\ Stack!ExpandFirst(Stack!NotExpanded)
    BY <1>9, <1>12, OnceExpandFirst DEF Stack!SelectsSimple
<1>13. CASE Stack!DropCycle
  <2>1. /\ open # <<>> /\ open' = SubSeq(open, 1, Len(open) - 1) /\ ~class.check
        /\ UNCHANGED <<class, end, results, reached_final, first_next>>
      BY <1>13 DEF Stack!DropCycle, Stack!Pop, Stack!CycleOnTop, Stack!Check
  <2> QED BY <2>1, OncePop
<1>14. CASE \E n \in NodeIds : \E e \in EndsOf(class) : Stack!Reset(n, e)
    BY <1>14, OnceReset
<1>15. Stack!Pipeline => DfsOnce'
    BY <1>1, <1>2, <1>3, <1>4 DEF Stack!Pipeline
<1>16. Stack!TrailStep => DfsOnce'
    BY <1>5, <1>6, <1>8, <1>10, <1>11 DEF Stack!TrailStep
<1>17. Stack!SimpleStep => DfsOnce'
    BY <1>5, <1>7, <1>8, <1>10, <1>12, <1>13 DEF Stack!SimpleStep
<1> QED BY <1>3, <1>14, <1>15, <1>16, <1>17

-----------------------------------------------------------------------------
(* No path is handed out twice, breadth first.  A path that was handed out *)
(* is no longer than what the front leads to; it continues nothing in the  *)
(* queue but the front, by a step that was taken.                          *)

Passed(p, queue, taken) ==
    /\ queue # <<>> => Len(p) <= Len(queue[1].path) + 1
    /\ \A j \in DOMAIN queue : \A x \in Steps :
           p = Append(queue[j].path, x) => j = 1 /\ p \in taken

LEMMA PassedPop ==
    ASSUME NEW queue, QueueInv(queue), queue # <<>>, NEW rest, rest = Dequeued(queue),
           NEW taken, NEW p \in Seq(Steps), Passed(p, queue, taken)
    PROVE  Passed(p, rest, {})
<1>1. /\ queue \in Seq(Entries) /\ 1 \in DOMAIN queue /\ Len(queue[1].path) \in Nat
    BY QueueFront
<1>2. /\ \A i \in DOMAIN rest : i + 1 \in DOMAIN queue /\ rest[i] = queue[i + 1] /\ i + 1 # 1
      /\ rest # <<>> => 2 \in DOMAIN queue /\ rest[1] = queue[2]
    BY <1>1 DEF Dequeued
<1>3. rest # <<>> => Len(p) <= Len(rest[1].path) + 1
  <2> SUFFICES ASSUME rest # <<>> PROVE Len(p) <= Len(queue[2].path) + 1
      BY <1>2
  <2>1. queue[2] \in Entries
      BY <1>1, <1>2
  <2>2. Len(queue[2].path) \in Nat
      BY <2>1 DEF Entries
  <2>3. Len(queue[1].path) <= Len(queue[2].path)
      BY <1>1, <1>2 DEF QueueInv, Sorted
  <2>4. Len(p) <= Len(queue[1].path) + 1 /\ Len(p) \in Nat
      BY DEF Passed
  <2> QED BY <1>1, <2>2, <2>3, <2>4
<1>4. \A j \in DOMAIN rest : \A x \in Steps : p # Append(rest[j].path, x)
    BY <1>2 DEF Passed
<1> QED BY <1>3, <1>4 DEF Passed

\* What was just taken from the front.
LEMMA PassedNew ==
    ASSUME NEW queue, QueueInv(queue), queue # <<>>, NEW x \in Steps,
           NEW p, p = Append(queue[1].path, x), NEW taken, p \in taken
    PROVE  p \in Seq(Steps) /\ Len(p) = Len(queue[1].path) + 1 /\ Passed(p, queue, taken)
<1>1. /\ queue \in Seq(Entries) /\ 1 \in DOMAIN queue
      /\ queue[1].path \in Seq(Steps) /\ Len(queue[1].path) \in Nat
    BY QueueFront
<1>2. p \in Seq(Steps) /\ Len(p) = Len(queue[1].path) + 1
    BY <1>1, AppendProperties
<1>3. ASSUME NEW j \in DOMAIN queue, NEW y \in Steps, p = Append(queue[j].path, y) PROVE j = 1
  <2> DEFINE u == queue[1].path
             v == queue[j].path
  <2>1. queue[j] \in Entries
      BY <1>1
  <2>2. u \in Seq(Steps) /\ v \in Seq(Steps) /\ Append(u, x) = Append(v, y)
      BY <1>1, <1>3, <2>1 DEF Entries
  <2> HIDE DEF u, v
  <2>3. u = v
      BY <2>2, BeginningSame
  <2> QED BY <1>1, <2>3 DEF QueueInv, PathsOnce, u, v
<1> QED BY <1>1, <1>2, <1>3 DEF Passed

LEMMA PassedPush ==
    ASSUME NEW queue, QueueInv(queue), queue # <<>>, NEW taken,
           NEW w \in Entries, NEW x \in Steps, w.path = Append(queue[1].path, x),
           NEW longer, longer = Enqueued(queue, w),
           NEW p \in Seq(Steps), Passed(p, queue, taken)
    PROVE  Passed(p, longer, taken)
<1>1. /\ queue \in Seq(Entries) /\ 1 \in DOMAIN queue
      /\ queue[1].path \in Seq(Steps) /\ Len(queue[1].path) \in Nat
    BY QueueFront
<1>2. /\ longer # <<>> /\ longer[1] = queue[1]
      /\ \A i \in DOMAIN longer : (i \in DOMAIN queue /\ longer[i] = queue[i]) \/ longer[i] = w
    BY <1>1, AppendFacts DEF Enqueued
<1>3. Len(w.path) = Len(queue[1].path) + 1 /\ w.path \in Seq(Steps)
    BY <1>1, AppendProperties
<1>4. ASSUME NEW y \in Steps PROVE p # Append(w.path, y)
  <2>1. Len(Append(w.path, y)) = Len(w.path) + 1
      BY <1>3, AppendProperties
  <2>2. Len(p) <= Len(w.path) /\ Len(p) \in Nat
      BY <1>3 DEF Passed
  <2>3. Len(p) # Len(w.path) + 1
      BY <1>1, <1>3, <2>2
  <2> QED BY <2>1, <2>3
<1> QED BY <1>2, <1>4 DEF Passed

\* As DfsOnce, with the queue; a check for any path drops it with its answer.
BfsOnce ==
    /\ results \in Seq(Seq(Steps))
    /\ NoneTwice
    /\ first_next => results = <<>> /\ DOMAIN reached_final = {}
    /\ IF class.answers # "any" THEN \A i \in DOMAIN results : Passed(results[i], open, Taken)
       ELSE IF class.check THEN results # <<>> => open = <<>>
       ELSE \A i \in DOMAIN results : LastNode(results[i]) \in DOMAIN reached_final

LEMMA BfsOnceNothing ==
    ASSUME results = <<>>, reached_final = <<>>
    PROVE  BfsOnce
<1>1. <<>> \in Seq(Seq(Steps)) /\ DOMAIN <<>> = {}
    OBVIOUS
<1> QED BY <1>1 DEF BfsOnce, NoneTwice

\* Nothing is handed out, and no less is taken from the queue.
LEMMA BfsOnceQuiet ==
    ASSUME BfsOnce, UNCHANGED <<class, results, reached_final>>, first_next' => first_next,
           open = <<>> => open' = <<>>,
           \A p \in Seq(Steps) : Passed(p, open, Taken) => Passed(p, open', Taken'),
           class.answers = "any" /\ class.check /\ results # <<>> => open' = <<>>
    PROVE  BfsOnce'
<1>1. NoneTwice'
    BY DEF BfsOnce, NoneTwice, AnswerOf
<1>2. \A i \in DOMAIN results : results[i] \in Seq(Steps)
    BY DEF BfsOnce
<1> QED BY <1>1, <1>2 DEF BfsOnce

LEMMA ReachedDomain ==
    ASSUME NEW path
    PROVE  DOMAIN Queue!Reached(path) = DOMAIN reached_final \cup {LastNode(path)}
BY QueueNames DEF Queue!Reached

\* The path p is handed out.
LEMMA BfsOnceReturn ==
    ASSUME BfsOnce, class' = class, ~first_next', NEW p \in Seq(Steps), results' = Append(results, p),
           class.answers # "any" =>
               /\ Passed(p, open', Taken')
               /\ \A i \in DOMAIN results : Passed(results[i], open', Taken') /\ results[i] # p,
           class.answers = "any" /\ class.check => results = <<>> /\ open' = <<>>,
           class.answers = "any" /\ ~class.check =>
               LastNode(p) \notin DOMAIN reached_final /\ reached_final' = Queue!Reached(p)
    PROVE  BfsOnce'
<1>1. CASE class.answers # "any"
  <2>1. \A i \in DOMAIN results : AnswerOf(class, results[i]) # AnswerOf(class, p)
      BY <1>1 DEF AnswerOf
  <2>2. /\ results' \in Seq(Seq(Steps)) /\ NoneTwice'
        /\ \A i \in DOMAIN results' : results'[i] = p \/ \E j \in DOMAIN results : results'[i] = results[j]
      BY <2>1, NoneTwiceMore DEF BfsOnce
  <2>3. \A i \in DOMAIN results' : Passed(results'[i], open', Taken')
      BY <1>1, <2>2
  <2> QED BY <1>1, <2>2, <2>3 DEF BfsOnce
<1>2. CASE class.answers = "any" /\ class.check
  <2>1. results = <<>> /\ DOMAIN results = {}
      BY <1>2
  <2>2. results' \in Seq(Seq(Steps)) /\ NoneTwice'
      BY <2>1, NoneTwiceMore DEF BfsOnce
  <2> QED BY <1>2, <2>2 DEF BfsOnce
<1>3. CASE class.answers = "any" /\ ~class.check
  <2>1. /\ LastNode(p) \notin DOMAIN reached_final
        /\ DOMAIN reached_final' = DOMAIN reached_final \cup {LastNode(p)}
      BY <1>3, ReachedDomain
  <2>2. \A i \in DOMAIN results : LastNode(results[i]) \in DOMAIN reached_final
      BY <1>3 DEF BfsOnce
  <2>3. \A i \in DOMAIN results : AnswerOf(class, results[i]) # AnswerOf(class, p)
      BY <1>3, <2>1, <2>2 DEF AnswerOf
  <2>4. /\ results' \in Seq(Seq(Steps)) /\ NoneTwice'
        /\ \A i \in DOMAIN results' : results'[i] = p \/ \E j \in DOMAIN results : results'[i] = results[j]
      BY <2>3, NoneTwiceMore DEF BfsOnce
  <2>5. \A i \in DOMAIN results' : LastNode(results'[i]) \in DOMAIN reached_final'
      BY <2>1, <2>2, <2>4
  <2> QED BY <1>3, <2>4, <2>5 DEF BfsOnce
<1> QED BY <1>1, <1>2, <1>3

\* The record r is taken, its path is handed out, or not, and queued, or not.
LEMMA BfsOnceVisit ==
    ASSUME Deterministic, UniqueEdges, BfsInv, BfsOnce, pc = "expand", NEW r \in iter, iter' = iter \ {r},
           UNCHANGED <<class, at_end, current_transition, first_next>>,
           open' = open \/ open' = <<>> \/ open' = Append(open, NextState(r)),
           \/ UNCHANGED <<results, reached_final>>
           \/ /\ results' = Append(results, NextState(r).path)
              /\ class.answers = "any" /\ class.check => open' = <<>>
              /\ class.answers = "any" /\ ~class.check =>
                     /\ LastNode(NextState(r).path) \notin DOMAIN reached_final
                     /\ reached_final' = Queue!Reached(NextState(r).path)
    PROVE  BfsOnce'
<1> DEFINE front == open[1]
           t == CurrentTransition
           w == NextState(r)
           taken == TakenFrom(front, current_transition, iter)
           more == TakenFrom(front, current_transition, iter \ {r})
<1>1. /\ QueueInv(open) /\ open # <<>> /\ front \in Entries /\ ~at_end /\ ~first_next
      /\ t \in Transition /\ taken = Taken
      /\ current_transition \in 1 .. Len(OutgoingOf(front)) /\ current_transition \in Nat \ {0}
      /\ iter \subseteq GetIterator(t, LastNode(front.path)) /\ r \in iter
      /\ t = OutgoingOf(front)[current_transition]
    BY CurrentFacts DEF CurrentTransition, Taken
<1>2. w = NextSearchState(front, t, r)
    BY DEF NextState
<1> HIDE DEF w, front, t, taken, more
<1>3. /\ w \in Entries /\ StepTo(t, r) \in Steps /\ w.path = Append(front.path, StepTo(t, r))
      /\ Extend(front.path, t, r) = w.path
  <2>1. r \in GetIterator(t, LastNode(front.path)) /\ front \in Entries /\ t \in Transition
      BY <1>1
  <2> QED BY ONLY <1>2, <2>1, NextEntry
<1>4. w.path \notin taken /\ taken \cup {w.path} \subseteq more
  <2> DEFINE n == Len(OutgoingOf(front))
             path == Extend(front.path, OutgoingOf(front)[current_transition], r)
  <2>1. /\ front \in Entries /\ current_transition \in 1 .. n /\ r \in iter
        /\ iter \subseteq GetIterator(OutgoingOf(front)[current_transition], LastNode(front.path))
        /\ current_transition \in Nat \ {0}
      BY <1>1
  <2>2. path \notin taken
      BY ONLY <2>1, Deterministic, UniqueEdges, TakenNew DEF taken
  <2>3. taken \cup {path} \subseteq more
      BY ONLY <2>1, TakenRecord DEF taken, more
  <2>4. path = w.path
      BY <1>1, <1>3
  <2> HIDE DEF path
  <2> QED BY <2>2, <2>3, <2>4
<1>5. QueueInv(open) /\ open # <<>> /\ w.path = Append(open[1].path, StepTo(t, r))
    BY <1>1, <1>3 DEF front
<1>6. w.path \in Seq(Steps) /\ Passed(w.path, open, more)
    BY <1>3, <1>4, <1>5, PassedNew
<1>7. \A p \in Seq(Steps) : Passed(p, open, taken) => Passed(p, open, more)
    BY <1>4 DEF Passed
<1>8. \A p \in Seq(Steps) : Passed(p, open, more) => Passed(p, open', Taken')
  <2> SUFFICES ASSUME NEW p \in Seq(Steps), Passed(p, open, more) PROVE Passed(p, open', Taken')
      OBVIOUS
  <2>1. CASE open' = open
    <3>1. Taken' = more
        BY <1>1, <2>1 DEF Taken, more, front
    <3> QED BY <2>1, <3>1
  <2>2. CASE open' = <<>>
    <3>1. DOMAIN <<>> = {}
        OBVIOUS
    <3> QED BY <2>2, <3>1 DEF Passed
  <2>3. CASE open' = Append(open, w)
    <3>1. open' = Enqueued(open, w)
        BY <2>3 DEF Enqueued
    <3>2. Passed(p, open', more)
        BY <1>3, <1>5, <3>1, PassedPush
    <3>3. open'[1] = front
      <4>1. open \in Seq(Entries) /\ 1 \in DOMAIN open
          BY <1>5, QueueFront
      <4> QED BY <1>3, <2>3, <4>1, AppendFacts DEF front
    <3>4. Taken' = more
        BY <1>1, <3>3 DEF Taken, more
    <3> QED BY <3>2, <3>4
  <2> QED BY <2>1, <2>2, <2>3 DEF w
<1>9. \A p \in Seq(Steps) : Passed(p, open, Taken) => Passed(p, open', Taken') /\ p # w.path
  <2>1. ASSUME Passed(w.path, open, taken) PROVE FALSE
    <3>1. 1 \in DOMAIN open
        BY <1>5, QueueFront
    <3> QED BY <1>3, <1>4, <1>5, <2>1, <3>1 DEF Passed
  <2> QED BY <1>1, <1>7, <1>8, <2>1
<1>10. class.answers = "any" /\ class.check => results = <<>>
    BY <1>1 DEF BfsOnce
<1>11. CASE UNCHANGED <<results, reached_final>>
    BY <1>1, <1>9, <1>10, <1>11, BfsOnceQuiet
<1>12. CASE results' = Append(results, w.path)
  <2>1. /\ class.answers = "any" /\ class.check => open' = <<>>
        /\ class.answers = "any" /\ ~class.check =>
               LastNode(w.path) \notin DOMAIN reached_final /\ reached_final' = Queue!Reached(w.path)
        \/ UNCHANGED <<results, reached_final>>
      BY DEF w
  <2>2. class.answers # "any" =>
            /\ Passed(w.path, open', Taken')
            /\ \A i \in DOMAIN results : Passed(results[i], open', Taken') /\ results[i] # w.path
    <3>1. \A i \in DOMAIN results : results[i] \in Seq(Steps)
        BY DEF BfsOnce
    <3> QED BY <1>6, <1>8, <1>9, <3>1 DEF BfsOnce
  <2> QED BY <1>1, <1>6, <1>10, <1>11, <1>12, <2>1, <2>2, BfsOnceReturn
<1> QED BY <1>11, <1>12 DEF w

LEMMA PassedFewer ==
    ASSUME NEW p, NEW queue, NEW taken, NEW more, taken \subseteq more, Passed(p, queue, taken)
    PROVE  Passed(p, queue, more)
BY DEF Passed

\* What drops the queue keeps nothing of it.
LEMMA PassedEmpty ==
    ASSUME NEW p, NEW queue, queue = <<>>, NEW taken
    PROVE  Passed(p, queue, taken)
<1>1. DOMAIN queue = {}
    OBVIOUS
<1> QED BY <1>1 DEF Passed

\* Steps that leave the front where it is, and those that drop it.
LEMMA BfsOnceKeep ==
    ASSUME BfsOnce, UNCHANGED <<class, results, reached_final, open>>, first_next' => first_next,
           Taken \subseteq Taken',
           class.answers = "any" /\ class.check /\ results # <<>> => open' = <<>>
    PROVE  BfsOnce'
<1>1. \A p \in Seq(Steps) : Passed(p, open, Taken) => Passed(p, open', Taken')
    BY PassedFewer
<1> QED BY <1>1, BfsOnceQuiet

LEMMA BfsOncePop ==
    ASSUME BfsInv, BfsOnce, open # <<>>, open' = Tail(open), at_end',
           UNCHANGED <<class, results, reached_final>>, first_next' => first_next
    PROVE  BfsOnce'
<1>1. Taken' = {}
    BY DEF Taken
<1>2. \A p \in Seq(Steps) : Passed(p, open, Taken) => Passed(p, open', Taken')
    BY <1>1, PassedPop DEF BfsInv, Dequeued
<1>3. class.answers = "any" /\ class.check => results = <<>>
    BY DEF BfsOnce
<1> QED BY <1>2, <1>3, BfsOnceQuiet

\* While a check for any path is not over, it has found none.
LEMMA BfsNotFoundYet ==
    ASSUME BfsOnce, class.answers = "any", class.check, results # <<>>
    PROVE  open = <<>>
BY DEF BfsOnce

LEMMA BfsOnceExpandFirst == BfsInv /\ BfsOnce /\ Queue!ExpandFirst => BfsOnce'
<1> SUFFICES ASSUME BfsInv, BfsOnce, Queue!ExpandFirst PROVE BfsOnce'
    OBVIOUS
<1>1. open # <<>> /\ at_end /\ UNCHANGED <<class, results, reached_final, first_next>>
    BY DEF Queue!ExpandFirst
<1>2. CASE Queue!Outgoing = <<>>
  <2>1. open' = Tail(open) /\ at_end'
      BY <1>1, <1>2 DEF Queue!ExpandFirst, Queue!Pop
  <2> QED BY <1>1, <2>1, BfsOncePop
<1>3. CASE Queue!Outgoing # <<>>
  <2>1. open' = open /\ Taken = {}
      BY <1>1, <1>3 DEF Queue!ExpandFirst, Taken
  <2> QED BY <1>1, <2>1, BfsNotFoundYet, BfsOnceKeep
<1> QED BY <1>2, <1>3

LEMMA BfsOnceNextTransition == BfsInv /\ BfsOnce /\ Queue!NextTransition => BfsOnce'
<1> SUFFICES ASSUME BfsInv, BfsOnce, Queue!NextTransition PROVE BfsOnce'
    OBVIOUS
<1>1. /\ pc = "expand" /\ iter = {} /\ current_transition' = current_transition + 1
      /\ UNCHANGED <<class, results, reached_final, first_next>>
    BY DEF Queue!NextTransition
<1>2. open # <<>> /\ ~at_end /\ current_transition \in Nat
    BY <1>1, CurrentFacts
<1>3. CASE Queue!MoreTransitions
  <2>1. UNCHANGED <<open, at_end>>
      BY <1>3 DEF Queue!NextTransition
  <2>2. Taken \subseteq Taken'
    <3> DEFINE w == open[1]
               left == iter'
    <3>1. Taken = TakenFrom(w, current_transition, {}) /\ Taken' = TakenFrom(w, current_transition + 1, left)
        BY <1>1, <1>2, <2>1 DEF Taken
    <3> HIDE DEF w, left
    <3> QED BY <1>2, <3>1, TakenNext
  <2> QED BY <1>1, <1>2, <2>1, <2>2, BfsNotFoundYet, BfsOnceKeep
<1>4. CASE ~Queue!MoreTransitions
  <2>1. open' = Tail(open) /\ at_end'
      BY <1>4 DEF Queue!NextTransition, Queue!Pop
  <2> QED BY <1>1, <1>2, <2>1, BfsOncePop
<1> QED BY <1>3, <1>4

LEMMA BfsOncePipeline == BfsInv /\ BfsOnce /\ Queue!Pipeline => BfsOnce'
<1> SUFFICES ASSUME BfsInv, BfsOnce, Queue!Pipeline PROVE BfsOnce'
    OBVIOUS
<1>1. CASE Queue!StartMissing
    BY <1>1, BfsOncePop DEF BfsInv, Queue!StartMissing, Queue!Pop
<1>2. CASE Queue!Exhausted \/ Queue!ExpandResume
  <2>1. UNCHANGED <<class, results, reached_final, open, first_next>> /\ Taken' = Taken
      BY <1>2 DEF Queue!Exhausted, Queue!ExpandResume, Taken
  <2> QED BY <2>1, BfsNotFoundYet, BfsOnceKeep
<1>3. CASE Queue!ExpandFirst
    BY <1>3, BfsOnceExpandFirst
<1>4. CASE Queue!NextTransition
    BY <1>4, BfsOnceNextTransition
<1> QED BY <1>1, <1>2, <1>3, <1>4 DEF Queue!Pipeline

\* The path of the start node.
LEMMA BfsOnceStart ==
    ASSUME BfsInv, BfsOnce, NEW decided,
           Queue!ReturnTrailStart \/ Queue!ReturnSimpleStart \/ Queue!NoAnswerAtEnd
               \/ Queue!EnterLoop(decided)
    PROVE  BfsOnce'
<1>1. CASE Queue!EnterLoop(decided)
  <2>1. UNCHANGED <<class, results, reached_final, open>> /\ ~first_next' /\ Taken' = Taken
      BY <1>1 DEF Queue!EnterLoop, Taken
  <2> QED BY <2>1, BfsNotFoundYet, BfsOnceKeep
<1>2. CASE Queue!NoAnswerAtEnd
  <2>1. open' = <<>> /\ UNCHANGED <<class, results, reached_final>> /\ ~first_next'
      BY <1>2 DEF Queue!NoAnswerAtEnd, Queue!Clear
  <2> QED BY <2>1, PassedEmpty, BfsOnceQuiet
<1>3. CASE Queue!ReturnTrailStart \/ Queue!ReturnSimpleStart
  <2> DEFINE p == First(start)
  <2>1. /\ first_next /\ ~first_next' /\ UNCHANGED <<class, start, iter, at_end, current_transition>>
        /\ results' = Append(results, p)
        /\ open' = open \/ open' = <<>>
        /\ class.answers = "any" /\ class.check => open' = <<>>
        /\ class.answers = "any" /\ ~class.check => reached_final' = Queue!Reached(p)
      BY <1>3 DEF Queue!ReturnTrailStart, Queue!ReturnSimpleStart,
             Queue!AllStart, Queue!EnumStart, Queue!CheckStart, Queue!AllEnumStart, Queue!AllCheckStart,
             Queue!Return, Queue!Clear, Queue!All, Queue!Check, Queue!First, First, Queue!NoEdge, NoEdge
  <2>2. results = <<>> /\ DOMAIN results = {} /\ start \in NodeIds
      BY <2>1 DEF BfsOnce, BfsInv
  <2>3. p = FirstSearchState(start).path
      BY DEF FirstSearchState
  <2>4. p \in Seq(Steps) /\ Len(p) = 1
      BY <2>2, <2>3, StartEntry DEF Entries
  <2>5. Passed(p, open, {})
    <3>1. open \in Seq(Entries) /\ QueueInv(open)
        BY DEF BfsInv, QueueInv
    <3>2. open # <<>> => Len(open[1].path) \in Nat
        BY <3>1, QueueFront
    <3>3. ASSUME NEW j \in DOMAIN open, NEW x \in Steps, p = Append(open[j].path, x) PROVE FALSE
      <4> DEFINE q == open[j].path
      <4>1. open[j] \in Entries
          BY <3>1
      <4>2. q \in Seq(Steps) /\ q # <<>>
          BY <4>1 DEF Entries
      <4> HIDE DEF q
      <4>3. Len(q) \in Nat /\ Len(q) # 0
          BY <4>2
      <4>4. Len(Append(q, x)) = Len(q) + 1
          BY <4>2, AppendProperties
      <4>5. Len(p) # 1
          BY <3>3, <4>3, <4>4 DEF q
      <4> QED BY <2>4, <4>5
    <3> HIDE DEF p
    <3>4. open # <<>> => Len(p) <= Len(open[1].path) + 1
        BY <2>4, <3>2
    <3> QED BY <3>3, <3>4 DEF Passed
  <2> HIDE DEF p
  <2>6. Passed(p, open', Taken')
      BY <2>1, <2>5, PassedFewer, PassedEmpty
  <2>7. class.answers = "any" /\ ~class.check => LastNode(p) \notin DOMAIN reached_final
      BY <2>1 DEF BfsOnce
  <2> QED BY <2>1, <2>2, <2>4, <2>6, <2>7, BfsOnceReturn
<1> QED BY <1>1, <1>2, <1>3

LEMMA BfsOnceVisitTrail ==
    ASSUME Deterministic, UniqueEdges, BfsInv, BfsOnce, Queue!VisitTrail PROVE BfsOnce'
<1>1. pc = "expand" /\ UNCHANGED <<class, at_end, current_transition, first_next>>
    BY DEF Queue!VisitTrail
<1>2. PICK r \in iter :
          /\ iter' = iter \ {r}
          /\ open' = open \/ open' = <<>> \/ open' = Append(open, NextState(r))
          /\ \/ UNCHANGED <<results, reached_final>>
             \/ /\ results' = Append(results, NextState(r).path)
                /\ class.answers = "any" /\ class.check => open' = <<>>
                /\ class.answers = "any" /\ ~class.check =>
                       /\ LastNode(NextState(r).path) \notin DOMAIN reached_final
                       /\ reached_final' = Queue!Reached(NextState(r).path)
  <2>1. \A r : Queue!NextSearchState(Queue!Current, Queue!Outgoing[current_transition], r) = NextState(r)
      BY <1>1, CurrentFacts, QueueNames
         DEF Queue!Current, Queue!Outgoing, NextState, CurrentTransition
  <2>2. ASSUME NEW w, Queue!IsAnswer(w), Queue!TakeTrail(w)
        PROVE  /\ open' = open \/ open' = <<>> \/ open' = Append(open, w)
               /\ results' = Append(results, w.path)
               /\ class.answers = "any" /\ class.check => open' = <<>>
               /\ class.answers = "any" /\ ~class.check =>
                      LastNode(w.path) \notin DOMAIN reached_final /\ reached_final' = Queue!Reached(w.path)
      BY <2>2, QueueNames
         DEF Queue!TakeTrail, Queue!Return, Queue!Clear, Queue!Enqueue, Queue!All, Queue!Any, Queue!Check,
             Queue!Shortest, Queue!IsAnswer, Queue!AnyEnumAnswer
  <2>3. \A w : Queue!GoOn(w) =>
            /\ open' = open \/ open' = Append(open, w)
            /\ UNCHANGED <<results, reached_final>>
      BY DEF Queue!GoOn, Queue!Enqueue
  <2>4. PICK r \in iter :
            /\ iter' = iter \ {r}
            /\ \/ UNCHANGED <<open, results, reached_final>>
               \/ Queue!IsAnswer(NextState(r)) /\ Queue!TakeTrail(NextState(r))
               \/ Queue!GoOn(NextState(r))
      BY <2>1 DEF Queue!VisitTrail
  <2> QED BY <2>2, <2>3, <2>4
<1> QED BY <1>1, <1>2, BfsOnceVisit

LEMMA BfsOnceVisitSimple ==
    ASSUME Deterministic, UniqueEdges, BfsInv, BfsOnce, Queue!VisitSimple PROVE BfsOnce'
<1>1. pc = "expand" /\ UNCHANGED <<class, at_end, current_transition, first_next>>
    BY DEF Queue!VisitSimple
<1>2. PICK r \in iter :
          LET w == NextState(r)
          IN  /\ iter' = iter \ {r}
              /\ \/ UNCHANGED <<open, results, reached_final>>
                 \/ (Queue!ClosesCycle(w) \/ Queue!CheckAnswer(w)) /\ Queue!TakeSimple(w) /\ Queue!KeepQueue
                 \/ /\ open' = open \/ open' = Append(open, w)
                    /\ \/ Queue!EnumAnswer(w) /\ Queue!TakeSimple(w)
                       \/ UNCHANGED <<results, reached_final>>
  <2>1. \A r : Queue!NextSearchState(Queue!Current, Queue!Outgoing[current_transition], r) = NextState(r)
      BY <1>1, CurrentFacts, QueueNames
         DEF Queue!Current, Queue!Outgoing, NextState, CurrentTransition
  <2> QED BY <2>1 DEF Queue!VisitSimple, Queue!Enqueue
<1> DEFINE w == NextState(r)
<1> HIDE DEF w
<1>3. Queue!TakeSimple(w) =>
          /\ results' = Append(results, w.path)
          /\ class.answers = "any" /\ ~class.check => reached_final' = Queue!Reached(w.path)
    BY DEF Queue!TakeSimple, Queue!Return, Queue!All, Queue!Any, Queue!Check
<1>4. Queue!KeepQueue =>
          /\ open' = open \/ open' = <<>>
          /\ class.answers = "any" /\ class.check => open' = <<>>
    BY DEF Queue!KeepQueue, Queue!Clear, Queue!Any, Queue!Check
<1>5. class.answers = "any" /\ ~class.check =>
          /\ Queue!ClosesCycle(w) => LastNode(w.path) \notin DOMAIN reached_final
          /\ ~Queue!CheckAnswer(w)
          /\ Queue!EnumAnswer(w) => LastNode(w.path) \notin DOMAIN reached_final
    BY QueueNames
       DEF Queue!ClosesCycle, Queue!CheckAnswer, Queue!ReachesEnd, Queue!EnumAnswer, Queue!AnyEnumAnswer,
           Queue!AnyEnumCloses, Queue!All, Queue!Any, Queue!Shortest, Queue!Check
<1>6. Queue!EnumAnswer(w) => ~class.check
    BY DEF Queue!EnumAnswer, Queue!Check
<1>7. /\ iter' = iter \ {r}
      /\ open' = open \/ open' = <<>> \/ open' = Append(open, w)
      /\ \/ UNCHANGED <<results, reached_final>>
         \/ /\ results' = Append(results, w.path)
            /\ class.answers = "any" /\ class.check => open' = <<>>
            /\ class.answers = "any" /\ ~class.check =>
                   /\ LastNode(w.path) \notin DOMAIN reached_final
                   /\ reached_final' = Queue!Reached(w.path)
    BY <1>2, <1>3, <1>4, <1>5, <1>6 DEF w
<1> QED BY <1>1, <1>7, BfsOnceVisit DEF w

LEMMA BfsOnceReset ==
    ASSUME BfsOnce, NEW n \in NodeIds, NEW e, Queue!Reset(n, e) PROVE BfsOnce'
<1>1. CASE Queue!StartAt(n, e)
  <2>1. results' = <<>> /\ reached_final' = <<>> /\ <<>> \in Seq(Seq(Steps)) /\ DOMAIN <<>> = {}
      BY <1>1 DEF Queue!StartAt
  <2> QED BY <2>1 DEF BfsOnce, NoneTwice
<1>2. CASE UNCHANGED <<class, open, iter, at_end, current_transition, first_next, results, reached_final>>
  <2>1. Taken' = Taken
      BY <1>2 DEF Taken
  <2> QED BY <1>2, <2>1, BfsNotFoundYet, BfsOnceKeep
<1> QED BY <1>1, <1>2 DEF Queue!Reset

LEMMA BfsOnceStep ==
    ASSUME Deterministic, UniqueEdges, BfsInv, BfsOnce,
           \/ Queue!Pipeline \/ Queue!TrailStep \/ Queue!SimpleStep \/ Queue!Interrupt
           \/ \E n \in NodeIds, e \in EndsOf(class) : Queue!Reset(n, e)
    PROVE  BfsOnce'
<1>1. CASE Queue!Pipeline
    BY <1>1, BfsOncePipeline
<1>2. CASE Queue!TrailStep
    BY <1>2, BfsOnceStart, BfsOnceVisitTrail DEF Queue!TrailStep
<1>3. CASE Queue!SimpleStep
    BY <1>3, BfsOnceStart, BfsOnceVisitSimple DEF Queue!SimpleStep
<1>4. CASE Queue!Interrupt
  <2>1. UNCHANGED <<class, results, reached_final, open, first_next>> /\ Taken' = Taken
      BY <1>4 DEF Queue!Interrupt, Taken
  <2> QED BY <2>1, BfsNotFoundYet, BfsOnceKeep
<1>5. CASE \E n \in NodeIds, e \in EndsOf(class) : Queue!Reset(n, e)
    BY <1>5, BfsOnceReset
<1> QED BY <1>1, <1>2, <1>3, <1>4, <1>5

-----------------------------------------------------------------------------
(* Either kind of operator.                                                *)

Inv == IF breadth_first THEN BfsInv ELSE DfsInv

inv_vars ==
    <<breadth_first, class, start, end, open, first_next, pc, iter, at_end, current_transition>>

LEMMA InvInit == Init => Inv
BY BfsInit, DfsInit DEF Init, Inv

LEMMA InvStep == Deterministic /\ UniqueEdges /\ Inv /\ (Next \/ UNCHANGED inv_vars) => Inv'
<1> SUFFICES ASSUME Deterministic, UniqueEdges, Inv, Next \/ UNCHANGED inv_vars PROVE Inv'
    OBVIOUS
<1>1. CASE /\ breadth_first /\ breadth_first'
           /\ \/ Queue!Pipeline \/ Queue!TrailStep \/ Queue!SimpleStep \/ Queue!Interrupt
              \/ \E n \in NodeIds, e \in EndsOf(class) : Queue!Reset(n, e)
    BY <1>1, BfsStep DEF Inv
<1>2. CASE /\ ~breadth_first /\ ~breadth_first'
           /\ \/ Stack!Pipeline \/ Stack!TrailStep \/ Stack!SimpleStep \/ Stack!Interrupt
              \/ \E n \in NodeIds : \E e \in EndsOf(class) : Stack!Reset(n, e)
    BY <1>2, DfsStep DEF Inv
<1>3. CASE UNCHANGED inv_vars
  <2>1. BfsInv => BfsInv'
      BY <1>3 DEF inv_vars, BfsInv, Taken, Expanding, Grows
  <2>2. DfsInv => DfsInv'
      BY <1>3 DEF inv_vars, DfsInv, Closing, ClosedTop
  <2> QED BY <1>3, <2>1, <2>2 DEF Inv, inv_vars
<1> QED BY <1>1, <1>2, <1>3 DEF Next, Search, BreadthFirst, DepthFirst

\* What the runs check of the queue and of the stack.
LEMMA InvIsPath == Inv => StackIsPath
BY DfsIsPath DEF Inv, StackIsPath

LEMMA InvOrdered == Inv => QueueOrdered
<1> SUFFICES ASSUME breadth_first, BfsInv, NEW i \in DOMAIN open, NEW j \in DOMAIN open, i < j
             PROVE  /\ open[i] # open[j]
                    /\ Len(open[i].path) <= Len(open[j].path)
                    /\ Len(open[j].path) <= Len(open[1].path) + 1
    BY DEF Inv, QueueOrdered
<1>1. open \in Seq(Entries) /\ i # j
  <2>1. open \in Seq(Entries)
      BY DEF BfsInv, QueueInv
  <2>2. i \in Nat /\ j \in Nat
      BY <2>1
  <2> QED BY <2>1, <2>2
<1> QED BY <1>1 DEF BfsInv, QueueInv, Sorted, PathsOnce

LEMMA InvGrows == Inv => QueueGrows
BY DEF Inv, BfsInv, QueueGrows, Grows

\* What was handed out before.
OnceInv == IF breadth_first THEN BfsOnce ELSE DfsOnce

once_vars == <<inv_vars, results, reached_final>>

LEMMA OnceInvInit == Init => OnceInv
<1> SUFFICES ASSUME Init PROVE OnceInv
    OBVIOUS
<1>1. CASE breadth_first /\ Queue!Init
    BY <1>1, BfsOnceNothing DEF Queue!Init, OnceInv
<1>2. CASE ~breadth_first /\ Stack!Init
    BY <1>2, OnceInit DEF OnceInv
<1> QED BY <1>1, <1>2 DEF Init

LEMMA OnceInvStep ==
    Deterministic /\ UniqueEdges /\ Inv /\ OnceInv /\ (Next \/ UNCHANGED once_vars) => OnceInv'
<1> SUFFICES ASSUME Deterministic, UniqueEdges, Inv, OnceInv, Next \/ UNCHANGED once_vars PROVE OnceInv'
    OBVIOUS
<1>1. CASE /\ breadth_first /\ breadth_first'
           /\ \/ Queue!Pipeline \/ Queue!TrailStep \/ Queue!SimpleStep \/ Queue!Interrupt
              \/ \E n \in NodeIds, e \in EndsOf(class) : Queue!Reset(n, e)
    BY <1>1, BfsOnceStep DEF Inv, OnceInv
<1>2. CASE /\ ~breadth_first /\ ~breadth_first'
           /\ \/ Stack!Pipeline \/ Stack!TrailStep \/ Stack!SimpleStep \/ Stack!Interrupt
              \/ \E n \in NodeIds : \E e \in EndsOf(class) : Stack!Reset(n, e)
    BY <1>2, DfsOnceStep DEF Inv, OnceInv
<1>3. CASE UNCHANGED once_vars
  <2>1. BfsOnce => BfsOnce'
      BY <1>3 DEF once_vars, inv_vars, BfsOnce, Taken, NoneTwice, AnswerOf
  <2>2. DfsOnce => DfsOnce'
      BY <1>3 DEF once_vars, inv_vars, DfsOnce, AnswerTop, NoneTwice, AnswerOf
  <2> QED BY <1>3, <2>1, <2>2 DEF OnceInv, once_vars, inv_vars
<1> QED BY <1>1, <1>2, <1>3 DEF Next, Search, BreadthFirst, DepthFirst

LEMMA OnceNoneTwice == OnceInv => NoneTwice
BY DEF OnceInv, BfsOnce, DfsOnce

-----------------------------------------------------------------------------
(* The walks the automaton takes from a node, and the answers among them.  *)

ClosedUnder(S) == \A v \in S : Continuations(v) \subseteq S

\* The least set that has the entry of the start node and is closed under one step more.
WalksFrom(n) ==
    {w \in Entries : \A S \in SUBSET Entries : FirstSearchState(n) \in S /\ ClosedUnder(S) => w \in S}

LEMMA OutgoingType ==
    ASSUME NEW v \in Entries
    PROVE  v.automaton_state \in States /\ OutgoingOf(v) \in Seq(Transition)
<1> DEFINE q == v.automaton_state
<1>1. q \in States
    BY DEF Entries
<1>2. OutgoingOf(v) = Connections[q]
    BY DEF OutgoingOf
<1> HIDE DEF q
<1>3. Connections[q] \in Seq(Transition)
    BY <1>1
<1> QED BY <1>1, <1>2, <1>3 DEF q

LEMMA Continuation ==
    ASSUME NEW v \in Entries, NEW w
    PROVE  w \in Continuations(v) <=>
               \E k \in DOMAIN OutgoingOf(v) : \E r \in GetIterator(OutgoingOf(v)[k], LastNode(v.path)) :
                   w = NextSearchState(v, OutgoingOf(v)[k], r)
<1>1. w \in Continuations(v) <=>
          \E t \in {OutgoingOf(v)[k] : k \in DOMAIN OutgoingOf(v)} :
              w \in {NextSearchState(v, t, r) : r \in GetIterator(t, LastNode(v.path))}
    BY DEF Continuations
<1>2. ASSUME NEW t
      PROVE  w \in {NextSearchState(v, t, r) : r \in GetIterator(t, LastNode(v.path))} <=>
                 \E r \in GetIterator(t, LastNode(v.path)) : w = NextSearchState(v, t, r)
    OBVIOUS
<1> QED BY <1>1, <1>2

\* Sequences with the same elements are the same.
LEMMA SameElements ==
    ASSUME NEW S, NEW s \in Seq(S), NEW t \in Seq(S), Len(s) = Len(t),
           \A i \in 1 .. Len(s) : s[i] = t[i]
    PROVE  s = t
<1>1. DOMAIN s = 1 .. Len(s) /\ DOMAIN t = 1 .. Len(s)
    OBVIOUS
<1>2. s = [i \in DOMAIN s |-> s[i]] /\ t = [i \in DOMAIN t |-> t[i]]
    OBVIOUS
<1> QED BY <1>1, <1>2

LEMMA ContinuationType ==
    ASSUME NEW v \in Entries, NEW w \in Continuations(v)
    PROVE  /\ w \in Entries
           /\ \E x \in Steps : /\ w.path = Append(v.path, x) /\ x.node \in Nodes
                               /\ \E e \in Edges : e.edge = x.edge
<1>1. PICK k \in DOMAIN OutgoingOf(v) : \E r \in GetIterator(OutgoingOf(v)[k], LastNode(v.path)) :
          w = NextSearchState(v, OutgoingOf(v)[k], r)
    BY Continuation
<1> DEFINE t == OutgoingOf(v)[k]
<1>2. t \in Transition
  <2>1. OutgoingOf(v) \in Seq(Transition)
      BY OutgoingType
  <2> QED BY <2>1
<1>3. PICK r \in GetIterator(t, LastNode(v.path)) : w = NextSearchState(v, t, r)
    BY <1>1
<1> HIDE DEF t
<1>4. w \in Entries /\ StepTo(t, r) \in Steps /\ w.path = Append(v.path, StepTo(t, r))
    BY <1>2, <1>3, NextEntry
<1>5. StepTo(t, r).node = r.node /\ StepTo(t, r).edge = r.edge
    BY DEF StepTo
<1>6. r.node \in Nodes /\ \E e \in Edges : e.edge = r.edge
    BY <1>3, RecordType, <1>2 DEF GetIterator
<1> QED BY <1>4, <1>5, <1>6

LEMMA WalkFirst ==
    ASSUME NEW n \in NodeIds
    PROVE  FirstSearchState(n) \in WalksFrom(n)
BY StartEntry DEF WalksFrom

LEMMA WalkNext ==
    ASSUME NEW n, NEW v \in WalksFrom(n), NEW w \in Continuations(v)
    PROVE  w \in WalksFrom(n)
BY ContinuationType DEF WalksFrom, ClosedUnder

\* Induction over the walks.
LEMMA WalkInduction ==
    ASSUME NEW n \in NodeIds, NEW S, FirstSearchState(n) \in S,
           \A v \in WalksFrom(n) : v \in S => Continuations(v) \subseteq S
    PROVE  WalksFrom(n) \subseteq S
<1> SUFFICES ASSUME NEW w \in WalksFrom(n) PROVE w \in S
    OBVIOUS
<1> DEFINE T == S \cap WalksFrom(n)
<1>1. T \in SUBSET Entries /\ ClosedUnder(T)
    BY WalkNext DEF WalksFrom, ClosedUnder
<1>2. FirstSearchState(n) \in T
    BY WalkFirst
<1> QED BY <1>1, <1>2 DEF WalksFrom

\* A walk is the start node, or one step longer than another.
LEMMA WalkBefore ==
    ASSUME NEW n \in NodeIds, NEW w \in WalksFrom(n)
    PROVE  w = FirstSearchState(n) \/ \E v \in WalksFrom(n) : w \in Continuations(v)
<1> DEFINE S == {x \in WalksFrom(n) : x = FirstSearchState(n) \/ \E v \in WalksFrom(n) : x \in Continuations(v)}
<1>1. FirstSearchState(n) \in S
    BY WalkFirst
<1>2. ASSUME NEW v \in WalksFrom(n) PROVE Continuations(v) \subseteq S
    BY WalkNext
<1>3. WalksFrom(n) \subseteq S
  <2> HIDE DEF S
  <2> QED BY <1>1, <1>2, WalkInduction
<1> QED BY <1>3

\* A walk of one step is the start node.
LEMMA WalkLength ==
    ASSUME NEW n \in NodeIds, NEW w \in WalksFrom(n)
    PROVE  /\ w \in Entries /\ w.path \in Seq(Steps) /\ Len(w.path) \in Nat \ {0}
           /\ Len(w.path) = 1 => w = FirstSearchState(n)
<1>1. w \in Entries /\ w.path \in Seq(Steps) /\ Len(w.path) \in Nat \ {0}
    BY StackTop DEF WalksFrom, Entries
<1>2. ASSUME NEW v \in WalksFrom(n), w \in Continuations(v) PROVE Len(w.path) # 1
  <2>1. v \in Entries
      BY DEF WalksFrom
  <2>2. PICK x \in Steps : w.path = Append(v.path, x)
      BY <1>2, <2>1, ContinuationType
  <2>3. v.path \in Seq(Steps) /\ Len(v.path) \in Nat \ {0}
      BY <2>1, StackTop DEF Entries
  <2>4. Len(w.path) = Len(v.path) + 1
      BY <2>2, <2>3, AppendProperties
  <2> QED BY <2>3, <2>4
<1> QED BY <1>1, <1>2, WalkBefore

\* The automaton takes a path in one way.
LEMMA OneNext ==
    ASSUME Deterministic, UniqueEdges, NEW w \in Entries, NEW v \in Continuations(w), NEW u \in Continuations(w),
           v.path = u.path
    PROVE  v = u
<1> DEFINE outgoing == OutgoingOf(w)
           n == LastNode(w.path)
<1>1. PICK j \in DOMAIN outgoing : \E r \in GetIterator(outgoing[j], n) : v = NextSearchState(w, outgoing[j], r)
    BY Continuation
<1>2. PICK k \in DOMAIN outgoing : \E r \in GetIterator(outgoing[k], n) : u = NextSearchState(w, outgoing[k], r)
    BY Continuation
<1>3. outgoing \in Seq(Transition) /\ w.automaton_state \in States
    BY OutgoingType
<1>4. PICK r \in GetIterator(outgoing[j], n) : v = NextSearchState(w, outgoing[j], r)
    BY <1>1
<1>5. PICK x \in GetIterator(outgoing[k], n) : u = NextSearchState(w, outgoing[k], x)
    BY <1>2
<1> DEFINE s == outgoing[j]
           t == outgoing[k]
<1>6. s \in Transition /\ t \in Transition
    BY <1>3
<1> HIDE DEF outgoing, n, s, t
<1>7. r \in GetIterator(s, n) /\ v = NextSearchState(w, s, r) /\ x \in GetIterator(t, n) /\ u = NextSearchState(w, t, x)
    BY <1>4, <1>5 DEF s, t
<1>8. /\ StepTo(s, r) \in Steps /\ v.path = Append(w.path, StepTo(s, r))
      /\ StepTo(t, x) \in Steps /\ u.path = Append(w.path, StepTo(t, x))
    BY <1>6, <1>7, NextEntry
<1>9. StepTo(s, r) = StepTo(t, x)
  <2> DEFINE p == w.path
             y == StepTo(s, r)
             z == StepTo(t, x)
  <2> HIDE DEF p, y, z
  <2>1. p \in Seq(Steps) /\ y \in Steps /\ z \in Steps /\ Append(p, y) = Append(p, z)
      BY <1>8 DEF p, y, z, Entries
  <2>2. y = z
      BY <2>1, BeginningSame
  <2> QED BY <2>2 DEF y, z
<1>10. r.node = x.node /\ r.edge = x.edge /\ s.inverse = t.inverse
    BY <1>9 DEF StepTo
<1>11. r = x
  <2>1. r = [node |-> r.node, edge |-> r.edge] /\ x = [node |-> x.node, edge |-> x.edge]
      BY <1>6, <1>7, RecordType
  <2> QED BY <1>10, <2>1
<1>12. s.type = t.type
  <2>1. /\ \E e \in Edges : e.type = s.type /\ e.edge = r.edge
        /\ \E e \in Edges : e.type = t.type /\ e.edge = x.edge
      BY <1>7 DEF GetIterator
  <2> QED BY <1>10, <2>1 DEF UniqueEdges
<1>13. j = k
    BY <1>3, <1>10, <1>12 DEF Deterministic, OutgoingOf, outgoing, s, t
<1> QED BY <1>7, <1>11, <1>13 DEF s, t

LEMMA OneWalk ==
    ASSUME Deterministic, UniqueEdges, NEW n \in NodeIds, NEW v \in WalksFrom(n), NEW w \in WalksFrom(n),
           v.path = w.path
    PROVE  v = w
<1> DEFINE S == {x \in WalksFrom(n) : \A y \in WalksFrom(n) : y.path = x.path => y = x}
<1>1. FirstSearchState(n) \in S
  <2>1. Len(FirstSearchState(n).path) = 1
      BY StartEntry
  <2> QED BY <2>1, WalkFirst, WalkLength
<1>2. ASSUME NEW x \in WalksFrom(n), x \in S, NEW next \in Continuations(x),
             NEW y \in WalksFrom(n), y.path = next.path
      PROVE  y = next
  <2>1. next \in WalksFrom(n) /\ x \in Entries
      BY WalkNext DEF WalksFrom
  <2>2. PICK a \in Steps : next.path = Append(x.path, a)
      BY <2>1, ContinuationType
  <2>3. x.path \in Seq(Steps) /\ Len(x.path) \in Nat \ {0}
      BY WalkLength
  <2>4. Len(y.path) # 1
    <3>1. Len(next.path) = Len(x.path) + 1
        BY <2>2, <2>3, AppendProperties
    <3> QED BY <1>2, <2>3, <3>1
  <2>5. PICK z \in WalksFrom(n) : y \in Continuations(z)
    <3>1. y # FirstSearchState(n)
        BY <2>4, StartEntry
    <3> QED BY <3>1, WalkBefore
  <2>6. z \in Entries
      BY DEF WalksFrom
  <2>7. PICK b \in Steps : y.path = Append(z.path, b)
      BY <2>5, <2>6, ContinuationType
  <2>8. x.path = z.path
    <3> DEFINE p == x.path
               q == z.path
    <3> HIDE DEF p, q
    <3>1. p \in Seq(Steps) /\ q \in Seq(Steps) /\ Append(p, a) = Append(q, b)
        BY <1>2, <2>2, <2>3, <2>6, <2>7 DEF p, q, Entries
    <3>2. p = q
        BY <3>1, BeginningSame
    <3> QED BY <3>2 DEF p, q
  <2>9. z = x
      BY <1>2, <2>8
  <2> QED BY <1>2, <2>1, <2>5, <2>9, OneNext
<1>3. \A x \in WalksFrom(n) : x \in S => Continuations(x) \subseteq S
    BY <1>2, WalkNext
<1>4. WalksFrom(n) \subseteq S
  <2> HIDE DEF S
  <2> QED BY <1>1, <1>3, WalkInduction
<1> QED BY <1>4

\* The path q is a beginning of p.
Begins(q, p) == Len(q) < Len(p) /\ \A i \in 1 .. Len(q) : p[i] = q[i]

\* What a longer path keeps.
LEMMA AppendKeeps ==
    ASSUME NEW p \in Seq(Steps), NEW x \in Steps, NEW q, q = Append(p, x)
    PROVE  /\ q \in Seq(Steps) /\ Len(q) = Len(p) + 1 /\ Len(p) \in Nat
           /\ DOMAIN q = 1 .. Len(p) + 1 /\ DOMAIN p = 1 .. Len(p)
           /\ \A i \in 1 .. Len(p) : q[i] = p[i]
           /\ q[Len(p) + 1] = x
<1>1. /\ q \in Seq(Steps) /\ Len(q) = Len(p) + 1 /\ Len(p) \in Nat
      /\ \A i \in 1 .. Len(p) : q[i] = p[i]
      /\ q[Len(p) + 1] = x
    BY AppendProperties
<1> QED BY <1>1

\* A walk goes on from each of its beginnings as the automaton lets it.
LEMMA WalkGoesOn ==
    ASSUME Deterministic, UniqueEdges, NEW n \in NodeIds, NEW v \in WalksFrom(n), NEW w \in WalksFrom(n),
           Begins(v.path, w.path)
    PROVE  \E u \in Continuations(v) : u.path = Append(v.path, w.path[Len(v.path) + 1])
<1> DEFINE GoesOn(x) ==
               \A y \in WalksFrom(n) : Begins(y.path, x.path) =>
                   \E u \in Continuations(y) : u.path = Append(y.path, x.path[Len(y.path) + 1])
           S == {x \in WalksFrom(n) : GoesOn(x)}
<1>1. FirstSearchState(n) \in S
  <2> DEFINE p == FirstSearchState(n).path
  <2>1. Len(p) = 1
      BY StartEntry
  <2> HIDE DEF p
  <2>2. ASSUME NEW y \in WalksFrom(n) PROVE ~Begins(y.path, p)
    <3>1. Len(y.path) \in Nat \ {0}
        BY WalkLength
    <3>2. ~(Len(y.path) < Len(p))
        BY <2>1, <3>1
    <3> QED BY <3>2 DEF Begins
  <2> QED BY <2>2, WalkFirst DEF p
<1>2. ASSUME NEW x \in WalksFrom(n), GoesOn(x), NEW next \in Continuations(x),
             NEW y \in WalksFrom(n), Begins(y.path, next.path)
      PROVE  \E u \in Continuations(y) : u.path = Append(y.path, next.path[Len(y.path) + 1])
  <2> DEFINE p == x.path
             q == y.path
             longer == next.path
  <2>1. p \in Seq(Steps) /\ q \in Seq(Steps) /\ x \in Entries
      BY WalkLength
  <2>2. PICK a \in Steps : longer = Append(p, a)
      BY <2>1, ContinuationType
  <2> HIDE DEF p, q, longer, GoesOn, S
  <2>3. /\ Len(longer) = Len(p) + 1 /\ Len(p) \in Nat /\ Len(q) \in Nat
        /\ \A i \in 1 .. Len(p) : longer[i] = p[i]
        /\ longer[Len(p) + 1] = a
      BY <2>1, <2>2, AppendKeeps
  <2>4. Len(q) < Len(longer) /\ \A i \in 1 .. Len(q) : longer[i] = q[i]
      BY <1>2 DEF Begins, q, longer
  <2>5. CASE Len(q) = Len(p)
    <3>1. p = q
        BY <2>1, <2>3, <2>4, <2>5
    <3>2. x = y
        BY <3>1, OneWalk DEF p, q
    <3> QED BY <2>2, <2>3, <2>5, <3>2 DEF p, q, longer
  <2>6. CASE Len(q) < Len(p)
    <3>1. \A i \in 1 .. Len(q) : p[i] = q[i]
        BY <2>3, <2>4, <2>6
    <3>2. Begins(y.path, x.path)
        BY <2>6, <3>1 DEF Begins, p, q
    <3>3. longer[Len(q) + 1] = p[Len(q) + 1]
        BY <2>3, <2>6
    <3> QED BY <1>2, <3>2, <3>3 DEF GoesOn, p, q, longer
  <2> QED BY <2>3, <2>4, <2>5, <2>6
<1>3. \A x \in WalksFrom(n) : x \in S => Continuations(x) \subseteq S
    BY <1>2, WalkNext
<1>4. WalksFrom(n) \subseteq S
  <2> HIDE DEF S
  <2> QED BY <1>1, <1>3, WalkInduction
<1> QED BY <1>4

\* The steps of a walk are the start node and edges of the graph.
LEMMA WalkSteps ==
    ASSUME NEW n \in NodeIds, NEW w \in WalksFrom(n)
    PROVE  /\ w.path[1] = First(n)[1] /\ w.path[1].node = n
           /\ \A i \in 2 .. Len(w.path) :
                  w.path[i].node \in Nodes /\ \E e \in Edges : e.edge = w.path[i].edge
<1> DEFINE Valid(p) ==
               /\ p[1] = First(n)[1]
               /\ \A i \in 2 .. Len(p) : p[i].node \in Nodes /\ \E e \in Edges : e.edge = p[i].edge
           S == {x \in WalksFrom(n) : Valid(x.path)}
<1>1. FirstSearchState(n) \in S
  <2>1. FirstSearchState(n).path = First(n) /\ Len(FirstSearchState(n).path) = 1
      BY StartEntry DEF FirstSearchState
  <2>2. 2 .. 1 = {}
      OBVIOUS
  <2> QED BY <2>1, <2>2, WalkFirst
<1>2. ASSUME NEW x \in WalksFrom(n), Valid(x.path), NEW next \in Continuations(x) PROVE Valid(next.path)
  <2> DEFINE p == x.path
             q == next.path
  <2>1. p \in Seq(Steps) /\ x \in Entries /\ Len(p) \in Nat \ {0}
      BY WalkLength
  <2>2. PICK a \in Steps : q = Append(p, a) /\ a.node \in Nodes /\ \E e \in Edges : e.edge = a.edge
      BY <2>1, ContinuationType
  <2> HIDE DEF p, q
  <2>3. /\ Len(q) = Len(p) + 1
        /\ \A i \in 1 .. Len(p) : q[i] = p[i]
        /\ q[Len(p) + 1] = a
      BY <2>1, <2>2, AppendKeeps
  <2>4. q[1] = p[1] /\ \A i \in 2 .. Len(q) : (i \in 2 .. Len(p) /\ q[i] = p[i]) \/ q[i] = a
      BY <2>1, <2>3
  <2> QED BY <1>2, <2>2, <2>4 DEF p, q
<1>3. \A x \in WalksFrom(n) : x \in S => Continuations(x) \subseteq S
    BY <1>2, WalkNext
<1>4. WalksFrom(n) \subseteq S
  <2> HIDE DEF S
  <2> QED BY <1>1, <1>3, WalkInduction
<1>5. First(n)[1].node = n
    BY DEF First
<1> QED BY <1>4, <1>5

\* What the reference definitions let a walk be.
Keeps(kind, p) == IF kind = "trails" THEN IsTrail(p) ELSE IsAcyclic(p)

LEMMA KeepsFirst ==
    ASSUME NEW kind, NEW n \in NodeIds
    PROVE  Keeps(kind, First(n))
<1>1. DOMAIN First(n) = {1}
    BY DEF First
<1> QED BY <1>1 DEF Keeps, IsTrail, IsAcyclic

LEMMA KeepsBefore ==
    ASSUME NEW kind, NEW p \in Seq(Steps), NEW x \in Steps, Keeps(kind, Append(p, x))
    PROVE  Keeps(kind, p)
<1> DEFINE q == Append(p, x)
<1>1. /\ DOMAIN q = 1 .. Len(p) + 1 /\ DOMAIN p = 1 .. Len(p) /\ Len(p) \in Nat
      /\ \A i \in 1 .. Len(p) : q[i] = p[i]
    BY AppendKeeps
<1>2. Keeps(kind, q)
    OBVIOUS
<1> HIDE DEF q
<1>3. \A i \in DOMAIN p : i \in DOMAIN q /\ q[i] = p[i]
    BY <1>1
<1> QED BY <1>2, <1>3 DEF Keeps, IsTrail, IsAcyclic

\* The walks of this kind of at most k steps.
Kept(n, kind, k) == {w \in WalksFrom(n) : Keeps(kind, w.path) /\ Len(w.path) <= k + 1}

LEMMA KeptNext ==
    ASSUME NEW n \in NodeIds, NEW kind
    PROVE  /\ Kept(n, kind, 0) = {FirstSearchState(n)}
           /\ \A k \in Nat : Kept(n, kind, k + 1) =
                  Kept(n, kind, k) \cup {w \in UNION {Continuations(v) : v \in Kept(n, kind, k)} : Keeps(kind, w.path)}
<1>1. \A k \in Nat : FirstSearchState(n) \in Kept(n, kind, k)
  <2> DEFINE p == FirstSearchState(n).path
  <2>1. p = First(n) /\ Len(p) = 1
      BY StartEntry DEF FirstSearchState
  <2> HIDE DEF p
  <2>2. Keeps(kind, p) /\ \A k \in Nat : Len(p) <= k + 1
      BY <2>1, KeepsFirst
  <2> QED BY <2>2, WalkFirst DEF Kept, p
<1>2. \A w \in Kept(n, kind, 0) : w = FirstSearchState(n)
  <2> SUFFICES ASSUME NEW w \in WalksFrom(n), Len(w.path) <= 0 + 1 PROVE w = FirstSearchState(n)
      BY DEF Kept
  <2> DEFINE k == Len(w.path)
  <2>1. k \in Nat \ {0} /\ k <= 0 + 1 /\ (k = 1 => w = FirstSearchState(n))
      BY WalkLength
  <2> HIDE DEF k
  <2>2. k = 1
      BY <2>1
  <2> QED BY <2>1, <2>2
<1>3. ASSUME NEW k \in Nat, NEW v \in WalksFrom(n), NEW w \in Continuations(v)
      PROVE  /\ w \in Kept(n, kind, k + 1) => v \in Kept(n, kind, k)
             /\ v \in Kept(n, kind, k) /\ Keeps(kind, w.path) => w \in Kept(n, kind, k + 1)
  <2>1. v.path \in Seq(Steps) /\ v \in Entries /\ w \in WalksFrom(n)
      BY WalkLength, WalkNext
  <2>2. PICK x \in Steps : w.path = Append(v.path, x)
      BY <2>1, ContinuationType
  <2> DEFINE p == v.path
             q == w.path
  <2> HIDE DEF p, q
  <2>3. Len(q) = Len(p) + 1 /\ Len(p) \in Nat
      BY <2>1, <2>2, AppendKeeps DEF p, q
  <2>4. Keeps(kind, q) => Keeps(kind, p)
      BY <2>1, <2>2, KeepsBefore DEF p, q
  <2>5. Len(q) <= (k + 1) + 1 <=> Len(p) <= k + 1
      BY <2>3
  <2> QED BY <2>1, <2>4, <2>5 DEF Kept, p, q
<1>4. ASSUME NEW k \in Nat, NEW w \in Kept(n, kind, k + 1)
      PROVE  w \in Kept(n, kind, k) \/ \E v \in Kept(n, kind, k) : w \in Continuations(v)
  <2>1. w \in WalksFrom(n)
      BY DEF Kept
  <2>2. CASE w = FirstSearchState(n)
    <3> QED BY <1>1, <2>2
  <2> QED BY <1>3, <1>4, <2>1, <2>2, WalkBefore
<1>5. ASSUME NEW k \in Nat, NEW w \in Kept(n, kind, k) PROVE w \in Kept(n, kind, k + 1)
  <2> DEFINE l == Len(w.path)
  <2>1. w \in WalksFrom(n) /\ Keeps(kind, w.path) /\ l \in Nat /\ l <= k + 1
      BY WalkLength DEF Kept
  <2> HIDE DEF l
  <2>2. l <= (k + 1) + 1
      BY <2>1
  <2> QED BY <2>1, <2>2 DEF Kept, l
<1>6. \A k \in Nat : \A v \in Kept(n, kind, k) : v \in WalksFrom(n)
    BY DEF Kept
<1>7. \A k \in Nat : \A w \in Kept(n, kind, k + 1) : Keeps(kind, w.path)
    BY DEF Kept
<1>8. ASSUME NEW k \in Nat
      PROVE  Kept(n, kind, k + 1) =
                 Kept(n, kind, k) \cup {w \in UNION {Continuations(v) : v \in Kept(n, kind, k)} : Keeps(kind, w.path)}
    BY <1>3, <1>4, <1>5, <1>6, <1>7
<1> QED BY <1>1, <1>2, <1>8

\* The walks the reference definition goes through are those.
Through(n, kind, k, walks) ==
    walks = [i \in 0 .. k |->
                 IF i = 0 THEN {FirstSearchState(n)}
                 ELSE walks[i - 1] \cup
                          {w \in UNION {Continuations(v) : v \in walks[i - 1]} : Keeps(kind, w.path)}]

LEMMA KeptWalks ==
    ASSUME NEW n \in NodeIds, NEW kind, NEW k \in Nat
    PROVE  /\ \E walks : Through(n, kind, k, walks)
           /\ \A walks : Through(n, kind, k, walks) => walks[k] = Kept(n, kind, k)
<1> DEFINE More(V) == V \cup {w \in UNION {Continuations(v) : v \in V} : Keeps(kind, w.path)}
           kept == [i \in 0 .. k |-> Kept(n, kind, i)]
<1>1. /\ Kept(n, kind, 0) = {FirstSearchState(n)}
      /\ \A i \in Nat : Kept(n, kind, i + 1) = More(Kept(n, kind, i))
    BY KeptNext
<1>2. \A walks : Through(n, kind, k, walks) <=>
          walks = [i \in 0 .. k |-> IF i = 0 THEN {FirstSearchState(n)} ELSE More(walks[i - 1])]
    BY DEF Through
<1> HIDE DEF More
<1>3. Through(n, kind, k, kept)
  <2>1. ASSUME NEW i \in 0 .. k
        PROVE  Kept(n, kind, i) = IF i = 0 THEN {FirstSearchState(n)} ELSE More(kept[i - 1])
    <3>1. CASE i = 0
        BY <1>1, <3>1
    <3>2. CASE i # 0
      <4>1. i - 1 \in Nat /\ i - 1 \in 0 .. k /\ (i - 1) + 1 = i
          BY <3>2
      <4>2. kept[i - 1] = Kept(n, kind, i - 1)
          BY <4>1
      <4> HIDE DEF kept
      <4>3. Kept(n, kind, (i - 1) + 1) = More(Kept(n, kind, i - 1))
          BY <1>1, <4>1
      <4> QED BY <3>2, <4>1, <4>2, <4>3
    <3> QED BY <3>1, <3>2
  <2> QED BY <1>2, <2>1
<1>4. ASSUME NEW walks, Through(n, kind, k, walks) PROVE walks[k] = Kept(n, kind, k)
  <2> DEFINE S == {i \in Nat : i <= k => walks[i] = Kept(n, kind, i)}
  <2>1. \A i \in 0 .. k : walks[i] = IF i = 0 THEN {FirstSearchState(n)} ELSE More(walks[i - 1])
      BY <1>2, <1>4
  <2>2. 0 \in S
    <3>1. 0 \in 0 .. k
        OBVIOUS
    <3>2. walks[0] = {FirstSearchState(n)}
        BY <2>1, <3>1
    <3> QED BY <1>1, <3>2
  <2>3. ASSUME NEW i \in Nat, i \in S PROVE i + 1 \in S
    <3> SUFFICES ASSUME i + 1 <= k PROVE walks[i + 1] = Kept(n, kind, i + 1)
        OBVIOUS
    <3>1. i <= k /\ i + 1 \in 0 .. k /\ i + 1 # 0 /\ (i + 1) - 1 = i
        OBVIOUS
    <3>2. walks[i + 1] = More(walks[i])
        BY <2>1, <3>1
    <3>3. walks[i] = Kept(n, kind, i)
        BY <2>3, <3>1
    <3> QED BY <1>1, <3>2, <3>3
  <2>4. Nat \subseteq S
    <3> HIDE DEF S
    <3> QED BY <2>2, <2>3, Induction
  <2> QED BY <2>4
<1> QED BY <1>3, <1>4

LEMMA WalksUpToKept ==
    ASSUME NEW n \in NodeIds, NEW k \in Nat
    PROVE  /\ WalksUpTo(n, IsTrail, k) = Kept(n, "trails", k)
           /\ WalksUpTo(n, IsAcyclic, k) = Kept(n, "simple", k)
<1>1. ASSUME NEW kind, NEW walks, walks = CHOOSE f : Through(n, kind, k, f)
      PROVE  walks[k] = Kept(n, kind, k)
  <2>1. Through(n, kind, k, walks)
      BY <1>1, KeptWalks
  <2> QED BY <2>1, KeptWalks
<1>2. WalksUpTo(n, IsTrail, k) = (CHOOSE f : Through(n, "trails", k, f))[k]
    BY DEF WalksUpTo, Through, Keeps
<1>3. WalksUpTo(n, IsAcyclic, k) = (CHOOSE f : Through(n, "simple", k, f))[k]
    BY DEF WalksUpTo, Through, Keeps
<1> QED BY <1>1, <1>2, <1>3

\* No trail uses more edges than there are, and no path without a cycle visits
\* more nodes.
LEMMA KeptAreBounded ==
    ASSUME FiniteAssumption, NEW n \in Nodes, NEW w \in WalksFrom(n)
    PROVE  /\ IsTrail(w.path) => Len(w.path) <= Cardinality(Edges) + 1
           /\ IsAcyclic(w.path) => Len(w.path) <= Cardinality(Nodes) + 1
           /\ Cardinality(Edges) \in Nat /\ Cardinality(Nodes) \in Nat
<1> DEFINE p == w.path
           l == Len(p)
<1>1. p \in Seq(Steps) /\ l \in Nat \ {0}
    BY WalkLength
<1>2. /\ p[1].node = n
      /\ \A i \in 2 .. l : p[i].node \in Nodes /\ \E e \in Edges : e.edge = p[i].edge
    BY WalkSteps
<1>3. /\ Cardinality(Edges) \in Nat /\ Cardinality(Nodes) \in Nat
      /\ IsFiniteSet(Edges) /\ IsFiniteSet(Nodes)
    BY FS_CardinalityType DEF FiniteAssumption
<1>4. DOMAIN p = 1 .. l
    BY <1>1
<1> HIDE DEF p
<1>5. ASSUME IsTrail(p) PROVE l <= Cardinality(Edges) + 1
  <2> DEFINE f == [i \in 2 .. l |-> CHOOSE e \in Edges : e.edge = p[i].edge]
  <2>1. \A i \in 2 .. l : f[i] \in Edges /\ f[i].edge = p[i].edge
      BY <1>2
  <2>2. f \in Injection(2 .. l, Edges)
    <3>1. f \in [2 .. l -> Edges]
        BY <2>1
    <3> HIDE DEF f
    <3>2. ASSUME NEW i \in 2 .. l, NEW j \in 2 .. l, f[i] = f[j] PROVE i = j
      <4>1. p[i].edge = p[j].edge /\ i \in DOMAIN p /\ j \in DOMAIN p
          BY <1>1, <1>4, <2>1, <3>2
      <4> QED BY <1>5, <4>1 DEF IsTrail
    <3> QED BY <3>1, <3>2 DEF Injection, IsInjective
  <2> HIDE DEF f, l
  <2>3. IsFiniteSet(2 .. l) /\ Cardinality(2 .. l) = (IF 2 > l THEN 0 ELSE (l - 2) + 1)
      BY <1>1, FS_Interval
  <2>4. Cardinality(2 .. l) <= Cardinality(Edges)
      BY <1>3, <2>2, FS_Injection
  <2> QED BY <1>1, <1>3, <2>3, <2>4
<1>6. ASSUME IsAcyclic(p) PROVE l <= Cardinality(Nodes) + 1
  <2> DEFINE f == [i \in 1 .. l |-> p[i].node]
  <2>2. f \in Injection(1 .. l, Nodes)
    <3>1. \A i \in 1 .. l : p[i].node \in Nodes
      <4>1. \A i \in 1 .. l : i = 1 \/ i \in 2 .. l
          BY <1>1
      <4> QED BY <1>2, <4>1
    <3>2. f \in [1 .. l -> Nodes] /\ \A i \in 1 .. l : f[i] = p[i].node
        BY <3>1
    <3> HIDE DEF f
    <3> QED BY <1>4, <1>6, <3>2 DEF Injection, IsInjective, IsAcyclic
  <2> HIDE DEF f, l
  <2>3. IsFiniteSet(1 .. l) /\ Cardinality(1 .. l) = (IF 1 > l THEN 0 ELSE (l - 1) + 1)
      BY <1>1, FS_Interval
  <2>4. Cardinality(1 .. l) <= Cardinality(Nodes)
      BY <1>3, <2>2, FS_Injection
  <2> QED BY <1>1, <1>3, <2>3, <2>4
<1> QED BY <1>3, <1>5, <1>6 DEF p

\* The walks an operator of class c is asked for.
Fits(c, w) ==
    /\ w.automaton_state \in FinalStates
    /\ IF c.walks = "trails" THEN IsTrail(w.path)
       ELSE IsAcyclic(w.path) \/ (c.cyclic /\ IsCycle(w.path))

WantedFor(c, n, e) == {w \in WalksFrom(n) : Fits(c, w) /\ (c.check => LastNode(w.path) = e)}

LEMMA TrailsWanted ==
    ASSUME FiniteAssumption, NEW n \in Nodes, NEW p
    PROVE  p \in TrailPaths(n) <=>
               \E w \in WalksFrom(n) : p = w.path /\ w.automaton_state \in FinalStates /\ IsTrail(w.path)
<1> DEFINE k == Cardinality(Edges)
<1>1. n \in NodeIds /\ k \in Nat
    BY KeptAreBounded, WalkFirst
<1> HIDE DEF k
<1>2. WalksUpTo(n, IsTrail, k) = Kept(n, "trails", k)
    BY <1>1, WalksUpToKept
<1>3. \A w : w \in Kept(n, "trails", k) <=> w \in WalksFrom(n) /\ IsTrail(w.path)
    BY KeptAreBounded DEF Kept, Keeps, k
<1> QED BY <1>2, <1>3 DEF TrailPaths, k

\* What a cycle is without its last step has none.
LEMMA CycleBefore ==
    ASSUME NEW p \in Seq(Steps), NEW x \in Steps, NEW q, q = Append(p, x), IsCycle(q)
    PROVE  IsAcyclic(p) /\ SubSeq(q, 1, Len(q) - 1) = p
<1>1. SubSeq(q, 1, Len(q) - 1) = p
    BY AppendProperties
<1> QED BY <1>1 DEF IsCycle

LEMMA SimpleWanted ==
    ASSUME FiniteAssumption, NEW n \in Nodes, NEW cyclic \in BOOLEAN, NEW p
    PROVE  p \in SimplePaths(n, cyclic) <=>
               \E w \in WalksFrom(n) : /\ p = w.path /\ w.automaton_state \in FinalStates
                                       /\ IsAcyclic(w.path) \/ (cyclic /\ IsCycle(w.path))
<1> DEFINE k == Cardinality(Nodes)
           acyclic == {w \in WalksFrom(n) : IsAcyclic(w.path)}
           closed == {w \in UNION {Continuations(v) : v \in acyclic} : IsCycle(w.path)}
<1>1. n \in NodeIds /\ k \in Nat
    BY KeptAreBounded, WalkFirst
<1> HIDE DEF k
<1>2. WalksUpTo(n, IsAcyclic, k) = Kept(n, "simple", k)
    BY <1>1, WalksUpToKept
<1>3. Kept(n, "simple", k) = acyclic
    BY KeptAreBounded DEF Kept, Keeps, k
<1>4. SimplePaths(n, cyclic) =
          {w.path : w \in {v \in acyclic \cup IF cyclic THEN closed ELSE {} : v.automaton_state \in FinalStates}}
    BY <1>2, <1>3 DEF SimplePaths, k
<1>5. \A w \in closed : w \in WalksFrom(n) /\ IsCycle(w.path)
    BY <1>1, WalkNext
<1>6. ASSUME NEW w \in WalksFrom(n), IsCycle(w.path) PROVE w \in closed
  <2>1. w # FirstSearchState(n)
    <3> DEFINE l == Len(w.path)
    <3>1. w = FirstSearchState(n) => l = 1
        BY <1>1, StartEntry
    <3>2. l > 1
        BY <1>6 DEF IsCycle
    <3> HIDE DEF l
    <3> QED BY <3>1, <3>2
  <2>2. PICK v \in WalksFrom(n) : w \in Continuations(v)
      BY <1>1, <2>1, WalkBefore
  <2>3. v \in Entries /\ v.path \in Seq(Steps)
      BY <1>1, WalkLength
  <2>4. PICK x \in Steps : w.path = Append(v.path, x)
      BY <2>2, <2>3, ContinuationType
  <2>5. IsAcyclic(v.path)
      BY <1>6, <2>3, <2>4, CycleBefore
  <2> QED BY <1>6, <2>2, <2>5
<1> HIDE DEF closed
<1> QED BY <1>4, <1>5, <1>6

\* The answers an operator should give.
LEMMA ExpectedWanted ==
    ASSUME FiniteAssumption, Classes \subseteq QueueClasses,
           NEW i \in Inputs, NEW c, NEW n, NEW e, i = <<c, n, e>>,
           NEW paths, paths = {w.path : w \in WantedFor(c, n, e)}
    PROVE  /\ n \notin Nodes => Expected[i] = {}
           /\ n \in Nodes =>
                  Expected[i] = {AnswerOf(c, p) : p \in IF c.answers = "shortest" THEN ShortestOf(paths) ELSE paths}
<1>1. c \in QueueClasses /\ i[1] = c /\ i[2] = n /\ i[3] = e
    BY DEF Inputs
<1>2. c.walks \in {"trails", "simple"} /\ c.cyclic \in BOOLEAN
    BY <1>1 DEF QueueClasses, StackClasses, AllTrails, AnyTrails, AllShortestTrails,
                AllSimple, AnySimple, AllShortestSimple
<1>3. n \notin Nodes => Expected[i] = {}
    BY <1>1 DEF Expected
<1>4. ASSUME n \in Nodes
      PROVE  {p \in IF c.walks = "trails" THEN TrailPaths(n) ELSE SimplePaths(n, c.cyclic) :
                  c.check => LastNode(p) = e} = paths
  <2>1. CASE c.walks = "trails"
      BY <1>4, <2>1, TrailsWanted DEF WantedFor, Fits
  <2>2. CASE c.walks # "trails"
      BY <1>2, <1>4, <2>2, SimpleWanted DEF WantedFor, Fits
  <2> QED BY <2>1, <2>2
<1>5. ASSUME n \in Nodes
      PROVE  Expected[i] = LET found == {p \in IF c.walks = "trails" THEN TrailPaths(n) ELSE SimplePaths(n, c.cyclic) :
                                             c.check => LastNode(p) = e}
                           IN  {AnswerOf(c, p) :
                                   p \in IF c.answers = "shortest" THEN ShortestOf(found) ELSE found}
  <2> DEFINE trails == [m \in Nodes |-> TrailPaths(m)]
             simple == [cyclic \in BOOLEAN |-> [m \in Nodes |-> SimplePaths(m, cyclic)]]
             all == IF c.walks = "trails" THEN trails[n] ELSE simple[c.cyclic][n]
             Matching(j) == {p \in IF j[1].walks = "trails" THEN trails[j[2]] ELSE simple[j[1].cyclic][j[2]] :
                                 j[1].check => LastNode(p) = j[3]}
             Given(j) == {AnswerOf(j[1], p) :
                              p \in IF j[1].answers = "shortest" THEN ShortestOf(Matching(j)) ELSE Matching(j)}
  <2>1. Expected = [j \in Inputs |-> IF j[2] \notin Nodes THEN {} ELSE Given(j)]
      BY DEF Expected
  <2> HIDE DEF Given
  <2>2. Expected[i] = Given(i)
      BY <1>1, <1>5, <2>1
  <2>3. Matching(i) = {p \in all : c.check => LastNode(p) = e}
      BY <1>1
  <2> HIDE DEF trails, simple
  <2>4. Given(i) = {AnswerOf(c, p) : p \in IF c.answers = "shortest" THEN ShortestOf(Matching(i)) ELSE Matching(i)}
      BY <1>1 DEF Given
  <2>5. all = IF c.walks = "trails" THEN TrailPaths(n) ELSE SimplePaths(n, c.cyclic)
      BY <1>2, <1>5 DEF trails, simple
  <2> QED BY <2>2, <2>3, <2>4, <2>5
<1> QED BY <1>3, <1>4, <1>5

-----------------------------------------------------------------------------
(* Every answer is handed out, depth first.  A walk that was not handed    *)
(* out as an answer continues the stack by a step that was not taken yet.  *)

\* The walk w is the one the frames up to the m-th stand for.
Stands(w, stack, m) ==
    /\ w.automaton_state = stack[m].automaton_state
    /\ Len(w.path) = m /\ Agrees(w.path, stack, m)

AreWalks(n, stack) == \A m \in 1 .. Len(stack) : \E w \in WalksFrom(n) : Stands(w, stack, m)

LEMMA StandsFor ==
    ASSUME NEW n \in NodeIds, NEW stack \in Seq(Frames), NEW m \in 1 .. Len(stack),
           NEW w \in WalksFrom(n), Stands(w, stack, m)
    PROVE  /\ w \in Entries /\ w.path \in Seq(Steps)
           /\ LastNode(w.path) = stack[m].node /\ OutgoingOf(w) = OutgoingFrom(stack[m])
           /\ m = Len(stack) => w.path = Stack!PathOf(stack)
<1>1. w \in Entries /\ w.path \in Seq(Steps) /\ Len(w.path) = m /\ Len(stack) \in Nat
    BY WalkLength DEF Stands
<1>2. m \in 1 .. m
    OBVIOUS
<1>3. \A i \in 1 .. m : w.path[i] = StepOf(stack[i])
    BY DEF Stands, Agrees
<1>4. LastNode(w.path) = stack[m].node
  <2>1. w.path[Len(w.path)] = StepOf(stack[m])
      BY <1>1, <1>2, <1>3
  <2>2. StepOf(stack[m]).node = stack[m].node
      BY DEF StepOf
  <2> QED BY <2>1, <2>2 DEF LastNode
<1>6. OutgoingOf(w) = OutgoingFrom(stack[m])
    BY DEF OutgoingOf, OutgoingFrom, Stands
<1>5. ASSUME m = Len(stack) PROVE w.path = Stack!PathOf(stack)
  <2> DEFINE p == w.path
             q == Stack!PathOf(stack)
  <2>1. q \in Seq(Steps) /\ Len(q) = m /\ \A i \in 1 .. m : q[i] = StepOf(stack[i])
      BY <1>5, PathOfStack
  <2>2. p \in Seq(Steps) /\ Len(p) = m /\ \A i \in 1 .. m : p[i] = StepOf(stack[i])
      BY <1>1, <1>3
  <2> HIDE DEF p, q
  <2>3. p = q
      BY <2>1, <2>2, SameElements
  <2> QED BY <2>3 DEF p, q
<1> QED BY <1>1, <1>4, <1>5, <1>6

\* How a walk goes on from the path of the stack.
LEMMA StandsNext ==
    ASSUME Deterministic, UniqueEdges, NEW n \in NodeIds, NEW stack \in Seq(Frames), stack # <<>>,
           AreWalks(n, stack), NEW x \in WalksFrom(n),
           Len(stack) < Len(x.path), Agrees(x.path, stack, Len(stack))
    PROVE  LET f == stack[Len(stack)]
           IN  \E k \in DOMAIN OutgoingFrom(f) : \E r \in GetIterator(OutgoingFrom(f)[k], f.node) :
                   x.path[Len(stack) + 1] = StepTo(OutgoingFrom(f)[k], r)
<1> DEFINE f == stack[Len(stack)]
           l == Len(stack)
<1>1. l \in Nat \ {0} /\ l \in 1 .. l
    BY StackTop
<1>2. PICK w \in WalksFrom(n) : Stands(w, stack, l)
    BY <1>1 DEF AreWalks
<1>3. w \in Entries /\ w.path \in Seq(Steps) /\ LastNode(w.path) = f.node /\ OutgoingOf(w) = OutgoingFrom(f)
    BY <1>1, <1>2, StandsFor
<1>4. Len(w.path) = l /\ Begins(w.path, x.path)
    BY <1>2 DEF Begins, Stands, Agrees
<1>5. PICK u \in Continuations(w) : u.path = Append(w.path, x.path[l + 1])
    BY <1>4, WalkGoesOn
<1> HIDE DEF f, l
<1>6. PICK k \in DOMAIN OutgoingFrom(f) : \E r \in GetIterator(OutgoingFrom(f)[k], f.node) :
          u = NextSearchState(w, OutgoingFrom(f)[k], r)
    BY <1>3, <1>5, Continuation
<1>7. PICK r \in GetIterator(OutgoingFrom(f)[k], f.node) : u = NextSearchState(w, OutgoingFrom(f)[k], r)
    BY <1>6
<1> DEFINE t == OutgoingFrom(f)[k]
           a == StepTo(t, r)
           b == x.path[l + 1]
<1>8. t \in Transition
  <2>1. OutgoingFrom(f) \in Seq(Transition)
      BY <1>3, OutgoingType
  <2> QED BY <2>1
<1> HIDE DEF t
<1>9. u = NextSearchState(w, t, r) /\ r \in GetIterator(t, LastNode(w.path))
    BY <1>3, <1>7 DEF t
<1>10. a \in Steps /\ u.path = Append(w.path, a)
    BY <1>3, <1>8, <1>9, NextEntry
<1>11. b \in Steps
  <2>1. x.path \in Seq(Steps) /\ Len(x.path) \in Nat /\ l < Len(x.path)
      BY WalkLength DEF l
  <2>2. l + 1 \in DOMAIN x.path
      BY <1>1, <2>1
  <2> QED BY <2>1, <2>2
<1> HIDE DEF a, b
<1>12. a = b
  <2> DEFINE p == w.path
  <2> HIDE DEF p
  <2>1. p \in Seq(Steps) /\ Append(p, a) = Append(p, b)
      BY <1>3, <1>5, <1>10 DEF p, b
  <2> QED BY <1>10, <1>11, <2>1, BeginningSame
<1> QED BY <1>7, <1>12 DEF a, b, t, f, l

\* The frame on top while its transitions and records are gone through.
LEMMA MovedTop ==
    ASSUME NEW closing, NEW stack, StackInv(stack, closing), stack # <<>>,
           NEW k \in 1 .. Len(OutgoingFrom(stack[Len(stack)]))
    PROVE  LET f == stack[Len(stack)]
               g == AtTransition(f, k)
           IN  /\ MovedTo(stack, k) = Retopped(stack, g)
               /\ g \in Frames /\ StepOf(g) = StepOf(f) /\ g.automaton_state = f.automaton_state
               /\ ~g.at_end /\ g.transition = k /\ g.node = f.node
               /\ g.iter = GetIterator(OutgoingFrom(f)[k], f.node)
<1> DEFINE f == stack[Len(stack)]
           g == AtTransition(f, k)
<1>1. f \in Frames /\ OutgoingFrom(f) \in Seq(Transition) /\ stack \in Seq(Frames)
    BY TopOf DEF StackInv
<1>2. k \in Nat /\ k \in DOMAIN OutgoingFrom(f)
    BY <1>1
<1>3. OutgoingFrom(f)[k] \in Transition /\ f.node \in NodeIds
    BY <1>1, <1>2 DEF Frames
<1>4. MovedTo(stack, k) = Retopped(stack, g)
    BY <1>1, <1>2, SetIterTop DEF MovedTo, Retopped
<1> HIDE DEF f
<1>5. GetIterator(OutgoingFrom(f)[k], f.node) \subseteq Records
    BY <1>3 DEF Records
<1>6. /\ g \in Frames /\ g.automaton_state = f.automaton_state /\ g.node = f.node
      /\ g.edge = f.edge /\ g.inverse = f.inverse /\ ~g.at_end /\ g.transition = k
      /\ g.iter = GetIterator(OutgoingFrom(f)[k], f.node)
    BY <1>1, <1>2, <1>5 DEF AtTransition, Frames
<1> QED BY <1>4, <1>6 DEF f, StepOf

LEMMA ConsumedTop ==
    ASSUME NEW closing, NEW stack, StackInv(stack, closing), stack # <<>>,
           ~stack[Len(stack)].at_end, NEW r
    PROVE  LET f == stack[Len(stack)]
               g == [f EXCEPT !.iter = @ \ {r}]
           IN  /\ Consumed(stack, r) = Retopped(stack, g)
               /\ g \in Frames /\ StepOf(g) = StepOf(f) /\ g.automaton_state = f.automaton_state
               /\ ~g.at_end /\ g.transition = f.transition /\ g.node = f.node
               /\ g.iter = f.iter \ {r}
<1> DEFINE f == stack[Len(stack)]
           g == [f EXCEPT !.iter = @ \ {r}]
<1>1. f \in Frames /\ ~f.at_end
    BY TopOf
<1>2. Consumed(stack, r) = Retopped(stack, g)
    BY DEF Consumed, Retopped
<1> HIDE DEF f
<1>3. /\ g \in Frames /\ g.automaton_state = f.automaton_state /\ g.node = f.node
      /\ g.edge = f.edge /\ g.inverse = f.inverse /\ ~g.at_end /\ g.transition = f.transition
      /\ g.iter = f.iter \ {r}
    BY <1>1 DEF Frames
<1> QED BY <1>2, <1>3 DEF f, StepOf

\* The stack stands for walks, whatever happens to its top.
LEMMA WalksPop ==
    ASSUME NEW n, NEW stack \in Seq(Frames), stack # <<>>, AreWalks(n, stack),
           NEW rest, rest = SubSeq(stack, 1, Len(stack) - 1)
    PROVE  AreWalks(n, rest)
<1> DEFINE l == Len(stack)
<1>1. l \in Nat \ {0} /\ Len(rest) = l - 1 /\ \A i \in 1 .. l - 1 : rest[i] = stack[i]
    BY StackTop
<1> HIDE DEF l
<1> SUFFICES ASSUME NEW m \in 1 .. l - 1 PROVE \E w \in WalksFrom(n) : Stands(w, rest, m)
    BY <1>1 DEF AreWalks
<1>2. m \in 1 .. l
    BY <1>1
<1>3. PICK w \in WalksFrom(n) : Stands(w, stack, m)
    BY <1>2 DEF AreWalks, l
<1>4. \A i \in 1 .. m : i \in 1 .. l - 1
    BY <1>1
<1> QED BY <1>1, <1>3, <1>4 DEF Stands, Agrees

LEMMA WalksRetop ==
    ASSUME NEW n, NEW stack \in Seq(Frames), stack # <<>>, AreWalks(n, stack),
           NEW f \in Frames, StepOf(f) = StepOf(stack[Len(stack)]),
           f.automaton_state = stack[Len(stack)].automaton_state,
           NEW changed, changed = Retopped(stack, f)
    PROVE  /\ AreWalks(n, changed)
           /\ changed \in Seq(Frames) /\ changed # <<>> /\ Len(changed) = Len(stack)
           /\ changed[Len(stack)] = f
           /\ \A i \in 1 .. Len(stack) : StepOf(changed[i]) = StepOf(stack[i])
           /\ stack = Retopped(changed, stack[Len(stack)])
<1> DEFINE l == Len(stack)
<1>1. l \in Nat \ {0} /\ DOMAIN stack = 1 .. l /\ l \in DOMAIN stack
    BY StackTop
<1>2. changed \in Seq(Frames) /\ Len(changed) = l /\ changed # <<>>
    BY <1>1 DEF Retopped
<1> HIDE DEF l
<1>3. /\ changed[l] = f
      /\ \A i \in 1 .. l : i # l => changed[i] = stack[i]
    BY <1>1, ExceptFacts DEF l, Retopped
<1>4. \A i \in 1 .. l : /\ StepOf(changed[i]) = StepOf(stack[i])
                        /\ changed[i].automaton_state = stack[i].automaton_state
    BY <1>3 DEF l
<1>5. stack = Retopped(changed, stack[Len(stack)])
  <2> DEFINE back == Retopped(changed, stack[l])
  <2>1. back = [changed EXCEPT ![l] = stack[l]]
      BY <1>2 DEF Retopped
  <2>2. DOMAIN changed = 1 .. l
      BY <1>2
  <2>3. \A i \in 1 .. l : back[i] = stack[i]
      BY <1>3, <2>1, <2>2
  <2>4. back \in Seq(Frames) /\ Len(back) = l
    <3>1. stack[l] \in Frames
        BY <1>1
    <3> QED BY <1>2, <2>1, <3>1
  <2> HIDE DEF back
  <2>5. stack = back
      BY <1>1, <2>3, <2>4 DEF l
  <2> QED BY <2>5 DEF back, l
<1>6. AreWalks(n, changed)
  <2> SUFFICES ASSUME NEW m \in 1 .. l PROVE \E w \in WalksFrom(n) : Stands(w, changed, m)
      BY <1>2 DEF AreWalks
  <2>1. PICK w \in WalksFrom(n) : Stands(w, stack, m)
      BY DEF AreWalks, l
  <2>2. \A i \in 1 .. m : i \in 1 .. l
      BY <1>1
  <2> QED BY <1>4, <2>1, <2>2 DEF Stands, Agrees
<1> QED BY <1>2, <1>3, <1>4, <1>5, <1>6 DEF l

LEMMA FoundFacts ==
    ASSUME NEW closing, NEW stack, NEW r, NEW t, NEW m, Found(closing, stack, r, t, m)
    PROVE  LET f == stack[Len(stack)]
               h == NewFrame(t, r, m)
           IN  /\ stack \in Seq(Frames) /\ stack # <<>> /\ f \in Frames /\ FrameInv(f, closing)
               /\ ~f.at_end /\ r \in f.iter
               /\ f.transition \in DOMAIN OutgoingFrom(f) /\ t = OutgoingFrom(f)[f.transition]
               /\ t \in Transition /\ r \in GetIterator(t, f.node)
               /\ r = [node |-> r.node, edge |-> r.edge]
               /\ h \in Frames /\ StepOf(h) = StepTo(t, r) /\ h.automaton_state = t.to /\ h.at_end
               /\ h.node = r.node
<1> DEFINE f == stack[Len(stack)]
           h == NewFrame(t, r, m)
<1>1. /\ StackInv(stack, closing) /\ stack # <<>> /\ ~f.at_end /\ r \in f.iter
      /\ t = OutgoingFrom(f)[f.transition]
    BY DEF Found
<1>2. /\ f \in Frames /\ FrameInv(f, closing) /\ OutgoingFrom(f) \in Seq(Transition)
    BY <1>1, TopOf
<1>3. stack \in Seq(Frames)
    BY <1>1 DEF StackInv
<1> HIDE DEF f
<1>4. f.transition \in DOMAIN OutgoingFrom(f) /\ f.iter \subseteq GetIterator(OutgoingFrom(f)[f.transition], f.node)
    BY <1>1, <1>2 DEF FrameInv
<1>5. t \in Transition /\ r \in GetIterator(t, f.node)
    BY <1>1, <1>2, <1>4
<1>6. r = [node |-> r.node, edge |-> r.edge]
    BY <1>5, RecordType
<1>7. StepOf(h) = StepTo(t, r) /\ h.automaton_state = t.to /\ h.at_end /\ h.node = r.node
    BY DEF StepOf, StepTo, NewFrame
<1>8. h \in Frames
  <2> DEFINE longer == Grown(stack, r, t, m)
  <2>1. GrowsTo(closing, stack, r, h, longer)
      BY StackReach
  <2> HIDE DEF h, longer
  <2>2. longer \in Seq(Frames) /\ longer # <<>> /\ longer[Len(longer)] = h
      BY <2>1 DEF GrowsTo, StackInv
  <2> QED BY <2>2, StackTop
<1> QED BY <1>1, <1>2, <1>3, <1>4, <1>5, <1>6, <1>7, <1>8 DEF f

LEMMA WalksGrown ==
    ASSUME NEW n \in NodeIds, NEW closing, NEW stack, NEW r, NEW t, NEW m, Found(closing, stack, r, t, m),
           AreWalks(n, stack), NEW longer, longer = Grown(stack, r, t, m)
    PROVE  AreWalks(n, longer)
<1> DEFINE f == stack[Len(stack)]
           g == [f EXCEPT !.iter = @ \ {r}]
           h == NewFrame(t, r, m)
           changed == Consumed(stack, r)
           l == Len(stack)
<1>1. /\ stack \in Seq(Frames) /\ stack # <<>> /\ f \in Frames
      /\ f.transition \in DOMAIN OutgoingFrom(f) /\ t = OutgoingFrom(f)[f.transition]
      /\ t \in Transition /\ r \in GetIterator(t, f.node)
      /\ h \in Frames /\ StepOf(h) = StepTo(t, r) /\ h.automaton_state = t.to
    BY FoundFacts
<1>2. StackInv(stack, closing) /\ ~f.at_end
    BY DEF Found
<1>3. changed = Retopped(stack, g) /\ g \in Frames /\ StepOf(g) = StepOf(f) /\ g.automaton_state = f.automaton_state
    BY <1>1, <1>2, ConsumedTop
<1>4. longer = Append(changed, h)
    BY DEF Grown
<1> HIDE DEF g, h, changed
<1>5. /\ AreWalks(n, changed) /\ changed \in Seq(Frames) /\ Len(changed) = l
      /\ \A i \in 1 .. l : StepOf(changed[i]) = StepOf(stack[i])
    BY <1>1, <1>3, WalksRetop
<1>6. l \in Nat \ {0} /\ l \in 1 .. l
    BY <1>1, StackTop
<1>7. PICK w \in WalksFrom(n) : Stands(w, stack, l)
    BY <1>6 DEF AreWalks
<1>8. PICK v \in WalksFrom(n) : Stands(v, changed, l)
    BY <1>5, <1>6 DEF AreWalks
<1>9. w \in Entries /\ w.path \in Seq(Steps) /\ LastNode(w.path) = f.node /\ OutgoingOf(w) = OutgoingFrom(f)
    BY <1>1, <1>6, <1>7, StandsFor
<1> DEFINE u == NextSearchState(w, t, r)
<1>10. u \in WalksFrom(n)
  <2>1. u \in Continuations(w)
      BY <1>1, <1>9, Continuation
  <2> QED BY <2>1, WalkNext
<1>11. StepTo(t, r) \in Steps /\ u.path = Append(w.path, StepTo(t, r)) /\ u.automaton_state = t.to
  <2>1. StepTo(t, r) \in Steps /\ u.path = Append(w.path, StepTo(t, r))
      BY <1>1, <1>9, NextEntry
  <2>2. u.automaton_state = t.to
      BY DEF NextSearchState
  <2> QED BY <2>1, <2>2
<1> HIDE DEF u, f, l
<1>12. Len(longer) = l + 1 /\ longer[l + 1] = h /\ \A i \in 1 .. l : longer[i] = changed[i]
  <2>1. h \in Frames /\ changed \in Seq(Frames)
      BY <1>1, <1>5
  <2>2. /\ Len(Append(changed, h)) = Len(changed) + 1 /\ Append(changed, h)[Len(changed) + 1] = h
        /\ \A i \in 1 .. Len(changed) : Append(changed, h)[i] = changed[i]
      BY ONLY <2>1, AppendProperties
  <2>3. Len(changed) = l
      BY <1>5
  <2> QED BY ONLY <1>4, <2>2, <2>3
<1>13. \A i \in 1 .. l : w.path[i] = StepOf(changed[i])
  <2>1. \A i \in 1 .. l : w.path[i] = StepOf(stack[i])
      BY <1>7 DEF Stands, Agrees
  <2> QED BY <1>5, <2>1
<1>14. Stands(u, longer, l + 1)
  <2> DEFINE p == w.path
             q == u.path
  <2>1. p \in Seq(Steps) /\ Len(p) = l /\ q = Append(p, StepTo(t, r)) /\ \A i \in 1 .. l : p[i] = StepOf(changed[i])
      BY <1>7, <1>9, <1>11, <1>13 DEF Stands
  <2> HIDE DEF p, q
  <2>2. Len(q) = l + 1 /\ q[l + 1] = StepTo(t, r) /\ \A i \in 1 .. l : q[i] = StepOf(changed[i])
      BY <1>11, <2>1, AppendKeeps
  <2>3. \A i \in 1 .. l + 1 : i \in 1 .. l \/ i = l + 1
      BY <1>6
  <2>4. \A i \in 1 .. l + 1 : q[i] = StepOf(longer[i])
      BY <1>1, <1>12, <2>2, <2>3
  <2> QED BY <1>1, <1>11, <1>12, <2>2, <2>4 DEF Stands, Agrees, q
<1>15. ASSUME NEW m1 \in 1 .. l PROVE \E x \in WalksFrom(n) : Stands(x, longer, m1)
  <2>1. PICK x \in WalksFrom(n) : Stands(x, changed, m1)
      BY <1>5 DEF AreWalks
  <2>2. \A i \in 1 .. m1 : i \in 1 .. l
      BY <1>6
  <2> QED BY <1>12, <2>1, <2>2 DEF Stands, Agrees
<1>16. \A i \in 1 .. l + 1 : i \in 1 .. l \/ i = l + 1
    BY <1>6
<1> QED BY <1>10, <1>12, <1>14, <1>15, <1>16 DEF AreWalks

\* No walk is behind changed that is not behind stack.
NoMore(n, changed, stack) == \A w \in WalksFrom(n) : Left(w.path, changed) => Left(w.path, stack)

\* The frame on top has led everywhere it can.
SpentTop(stack) ==
    LET f == stack[Len(stack)]
    IN  OutgoingFrom(f) = <<>> \/ (~f.at_end /\ f.transition = Len(OutgoingFrom(f)) /\ f.iter = {})

LEMMA PopNoMore ==
    ASSUME Deterministic, UniqueEdges, NEW n \in NodeIds, NEW stack \in Seq(Frames), stack # <<>>,
           AreWalks(n, stack), SpentTop(stack), NEW rest, rest = SubSeq(stack, 1, Len(stack) - 1)
    PROVE  NoMore(n, rest, stack)
<1> DEFINE f == stack[Len(stack)]
           l == Len(stack)
<1>1. l \in Nat \ {0} /\ Len(rest) = l - 1 /\ \A i \in 1 .. l - 1 : rest[i] = stack[i]
    BY StackTop
<1> SUFFICES ASSUME NEW w \in WalksFrom(n), Left(w.path, rest), NEW i \in 1 .. l,
                    i < Len(w.path), Agrees(w.path, stack, i)
             PROVE  Behind(stack[i], w.path[i + 1])
    BY DEF NoMore, Left
<1>2. CASE i = l
  <2>1. PICK k \in DOMAIN OutgoingFrom(f) : \E r \in GetIterator(OutgoingFrom(f)[k], f.node) :
            w.path[l + 1] = StepTo(OutgoingFrom(f)[k], r)
      BY <1>2, StandsNext
  <2>2. PICK r \in GetIterator(OutgoingFrom(f)[k], f.node) : w.path[l + 1] = StepTo(OutgoingFrom(f)[k], r)
      BY <2>1
  <2> DEFINE s == w.path[l + 1]
  <2>3. f \in Frames
      BY StackTop
  <2> HIDE DEF f, l
  <2>4. OutgoingFrom(f) \in Seq(Transition)
    <3>1. f.automaton_state \in States
        BY <2>3 DEF Frames
    <3> QED BY <3>1 DEF OutgoingFrom
  <2>5. OutgoingFrom(f) # <<>> /\ OutgoingFrom(f)[k] \in Transition /\ k \in 1 .. Len(OutgoingFrom(f))
      BY <2>1, <2>4
  <2>6. ~f.at_end /\ f.transition = Len(OutgoingFrom(f)) /\ f.iter = {}
      BY <2>5 DEF SpentTop, f
  <2>7. s.inverse = OutgoingFrom(f)[k].inverse /\ [node |-> s.node, edge |-> s.edge] = r
    <3>1. r = [node |-> r.node, edge |-> r.edge]
        BY <2>5, RecordType
    <3> QED BY <2>2, <3>1 DEF StepTo
  <2>8. Behind(f, s)
      BY <2>2, <2>5, <2>6, <2>7 DEF Behind
  <2> QED BY <1>2, <2>8 DEF f, l
<1>3. CASE i # l
  <2>1. i \in 1 .. l - 1 /\ \A j \in 1 .. i : j \in 1 .. l - 1
      BY <1>1, <1>3
  <2>2. Agrees(w.path, rest, i) /\ rest[i] = stack[i]
      BY <1>1, <2>1 DEF Agrees
  <2> QED BY <1>1, <2>1, <2>2 DEF Left
<1> QED BY <1>2, <1>3

LEMMA MovedNoMore ==
    ASSUME NEW n, NEW closing, NEW stack, StackInv(stack, closing), stack # <<>>,
           NEW k \in 1 .. Len(OutgoingFrom(stack[Len(stack)])), AreWalks(n, stack),
           LET f == stack[Len(stack)] IN (f.at_end /\ k = 1) \/ (k = f.transition + 1 /\ ~f.at_end /\ f.iter = {})
    PROVE  NoMore(n, MovedTo(stack, k), stack) /\ AreWalks(n, MovedTo(stack, k))
<1> DEFINE f == stack[Len(stack)]
           g == AtTransition(f, k)
           changed == MovedTo(stack, k)
<1>1. f \in Frames /\ stack \in Seq(Frames)
    BY TopOf DEF StackInv
<1>2. /\ changed = Retopped(stack, g)
      /\ g \in Frames /\ StepOf(g) = StepOf(f) /\ g.automaton_state = f.automaton_state
      /\ ~g.at_end /\ g.transition = k /\ g.node = f.node
      /\ g.iter = GetIterator(OutgoingFrom(f)[k], f.node)
    BY MovedTop
<1>3. (f.at_end /\ k = 1) \/ (k = f.transition + 1 /\ ~f.at_end /\ f.iter = {})
    OBVIOUS
<1> HIDE DEF g, changed
<1>4. /\ AreWalks(n, changed) /\ changed \in Seq(Frames) /\ changed # <<>> /\ Len(changed) = Len(stack)
      /\ changed[Len(changed)] = g /\ stack = Retopped(changed, f)
    BY <1>1, <1>2, WalksRetop
<1> HIDE DEF f
<1>5. ASSUME NEW s, Behind(g, s) PROVE Behind(f, s)
  <2>1. OutgoingFrom(g) = OutgoingFrom(f) /\ f.transition \in Nat
      BY <1>1, <1>2 DEF OutgoingFrom, Frames
  <2>2. PICK j \in 1 .. k :
           /\ s.inverse = OutgoingFrom(f)[j].inverse
           /\ [node |-> s.node, edge |-> s.edge] \in GetIterator(OutgoingFrom(f)[j], f.node)
           /\ j = k => [node |-> s.node, edge |-> s.edge] \notin GetIterator(OutgoingFrom(f)[k], f.node)
      BY <1>2, <1>5, <2>1 DEF Behind
  <2>3. j # k
      BY <2>2
  <2>4. ~f.at_end /\ f.iter = {} /\ j \in 1 .. f.transition
      BY <1>3, <2>1, <2>3
  <2> QED BY <2>2, <2>4 DEF Behind
<1>6. NoMore(n, changed, stack)
    BY <1>1, <1>2, <1>4, <1>5, LeftRetop DEF NoMore, f
<1> QED BY <1>4, <1>6 DEF changed

\* The path p goes on from the one of the stack by the step s.
GoesOn(p, stack, s) == Len(stack) < Len(p) /\ Agrees(p, stack, Len(stack)) /\ p[Len(stack) + 1] = s

LEMMA ConsumedNoMore ==
    ASSUME NEW n, NEW closing, NEW stack, NEW r, NEW t, NEW m, Found(closing, stack, r, t, m), AreWalks(n, stack)
    PROVE  /\ AreWalks(n, Consumed(stack, r))
           /\ \A p \in Seq(Steps) : Left(p, Consumed(stack, r)) => Left(p, stack) \/ GoesOn(p, stack, StepTo(t, r))
           /\ \A p \in Seq(Steps) : Left(p, Grown(stack, r, t, m)) =>
                  Left(p, stack) \/ p = Stack!PathOf(Grown(stack, r, t, m))
<1> DEFINE f == stack[Len(stack)]
           g == [f EXCEPT !.iter = @ \ {r}]
           h == NewFrame(t, r, m)
           changed == Consumed(stack, r)
           longer == Grown(stack, r, t, m)
           l == Len(stack)
           s == StepTo(t, r)
<1>1. /\ stack \in Seq(Frames) /\ stack # <<>> /\ f \in Frames /\ ~f.at_end
      /\ t = OutgoingFrom(f)[f.transition] /\ t \in Transition
      /\ r = [node |-> r.node, edge |-> r.edge]
      /\ h \in Frames /\ StepOf(h) = s /\ h.at_end
    BY FoundFacts
<1>2. StackInv(stack, closing)
    BY DEF Found
<1>3. /\ changed = Retopped(stack, g) /\ g \in Frames /\ StepOf(g) = StepOf(f)
      /\ g.automaton_state = f.automaton_state
      /\ ~g.at_end /\ g.transition = f.transition /\ g.node = f.node /\ g.iter = f.iter \ {r}
    BY <1>1, <1>2, ConsumedTop
<1>4. longer = Append(changed, h)
    BY DEF Grown
<1>5. s.node = r.node /\ s.edge = r.edge /\ s.inverse = t.inverse
    BY DEF StepTo
<1> HIDE DEF g, h, changed, longer, s
<1>6. /\ AreWalks(n, changed) /\ changed \in Seq(Frames) /\ Len(changed) = l /\ changed[l] = g
      /\ \A i \in 1 .. l : StepOf(changed[i]) = StepOf(stack[i])
      /\ \A i \in 1 .. l : i # l => changed[i] = stack[i]
  <2>1. /\ AreWalks(n, changed) /\ changed \in Seq(Frames) /\ Len(changed) = l /\ changed[l] = g
        /\ \A i \in 1 .. l : StepOf(changed[i]) = StepOf(stack[i])
      BY <1>1, <1>3, WalksRetop
  <2>2. \A i \in 1 .. l : i # l => changed[i] = stack[i]
    <3>1. DOMAIN stack = 1 .. l
        BY <1>1, StackTop
    <3> QED BY <1>3, <3>1, ExceptFacts DEF Retopped
  <2> QED BY <2>1, <2>2
<1>7. l \in Nat \ {0}
    BY <1>1, StackTop
<1> HIDE DEF f, l
<1>8. ASSUME NEW a, Behind(g, a), a # s, a = [node |-> a.node, edge |-> a.edge, inverse |-> a.inverse]
      PROVE  Behind(f, a)
  <2>1. OutgoingFrom(g) = OutgoingFrom(f)
      BY <1>3 DEF OutgoingFrom
  <2>2. PICK k \in 1 .. f.transition :
           /\ a.inverse = OutgoingFrom(f)[k].inverse
           /\ [node |-> a.node, edge |-> a.edge] \in GetIterator(OutgoingFrom(f)[k], f.node)
           /\ k = f.transition => [node |-> a.node, edge |-> a.edge] \notin f.iter \ {r}
      BY <1>3, <1>8, <2>1 DEF Behind
  <2>3. k = f.transition => [node |-> a.node, edge |-> a.edge] # r
    <3> SUFFICES ASSUME k = f.transition, [node |-> a.node, edge |-> a.edge] = r PROVE FALSE
        OBVIOUS
    <3>1. a.node = r.node /\ a.edge = r.edge /\ a.inverse = t.inverse
        BY <1>1, <2>2
    <3>2. s = [node |-> r.node, edge |-> r.edge, inverse |-> t.inverse]
        BY DEF s, StepTo
    <3> QED BY <1>8, <3>1, <3>2
  <2> QED BY <1>1, <2>2, <2>3 DEF Behind
<1>9. \A p : \A i \in 1 .. l : Agrees(p, changed, i) <=> Agrees(p, stack, i)
  <2>1. \A i \in 1 .. l : \A j \in 1 .. i : j \in 1 .. l
      BY <1>7
  <2> QED BY <1>6, <2>1 DEF Agrees
<1>10. ASSUME NEW p \in Seq(Steps), Left(p, changed) PROVE Left(p, stack) \/ GoesOn(p, stack, s)
  <2> SUFFICES ASSUME ~GoesOn(p, stack, s), NEW i \in 1 .. l, i < Len(p), Agrees(p, stack, i)
               PROVE  Behind(stack[i], p[i + 1])
      BY DEF Left, l
  <2>1. Behind(changed[i], p[i + 1])
      BY <1>6, <1>9, <1>10 DEF Left
  <2>2. CASE i = l
    <3>1. p[l + 1] # s
        BY <2>2 DEF GoesOn, l
    <3>2. p[l + 1] \in Steps
      <4>1. Len(p) \in Nat /\ DOMAIN p = 1 .. Len(p)
          OBVIOUS
      <4>2. l + 1 \in DOMAIN p
          BY <1>7, <2>2, <4>1
      <4> QED BY <4>2
    <3> DEFINE a == p[l + 1]
    <3> HIDE DEF a
    <3>3. a # s /\ a = [node |-> a.node, edge |-> a.edge, inverse |-> a.inverse]
        BY <3>1, <3>2 DEF a, Steps
    <3>4. Behind(f, a)
        BY <1>6, <1>8, <2>1, <2>2, <3>3 DEF a
    <3> QED BY <2>2, <3>4 DEF a, f, l
  <2>3. CASE i # l
      BY <1>6, <2>1, <2>3
  <2> QED BY <2>2, <2>3
<1>11. ASSUME NEW p \in Seq(Steps), Left(p, longer)
       PROVE  Left(p, stack) \/ p = Stack!PathOf(longer)
  <2>1. /\ longer \in Seq(Frames) /\ Len(longer) = l + 1 /\ longer[l + 1] = h
        /\ \A i \in 1 .. l : longer[i] = changed[i]
    <3>1. h \in Frames /\ changed \in Seq(Frames)
        BY <1>1, <1>6
    <3>2. /\ Append(changed, h) \in Seq(Frames)
          /\ Len(Append(changed, h)) = Len(changed) + 1 /\ Append(changed, h)[Len(changed) + 1] = h
          /\ \A i \in 1 .. Len(changed) : Append(changed, h)[i] = changed[i]
        BY ONLY <3>1, AppendProperties
    <3>3. Len(changed) = l
        BY <1>6
    <3> QED BY ONLY <1>4, <3>2, <3>3
  <2>2. \A i \in 1 .. l : i \in 1 .. l + 1 /\ \A j \in 1 .. i : j \in 1 .. l
      BY <1>7
  <2>3. Left(p, changed)
    <3> SUFFICES ASSUME NEW i \in 1 .. l, i < Len(p), Agrees(p, changed, i) PROVE Behind(changed[i], p[i + 1])
        BY <1>6 DEF Left
    <3>1. Agrees(p, longer, i)
        BY <2>1, <2>2 DEF Agrees
    <3> QED BY <1>11, <2>1, <2>2, <3>1 DEF Left
  <2> SUFFICES ASSUME GoesOn(p, stack, s) PROVE p = Stack!PathOf(longer)
      BY <1>10, <2>3
  <2>4. l < Len(p) /\ Agrees(p, stack, l) /\ p[l + 1] = s
      BY DEF GoesOn, l
  <2>5. \A i \in 1 .. l + 1 : p[i] = StepOf(longer[i])
    <3>1. \A i \in 1 .. l + 1 : i \in 1 .. l \/ i = l + 1
        BY <1>7
    <3>2. \A i \in 1 .. l : p[i] = StepOf(changed[i])
        BY <1>6, <2>4 DEF Agrees
    <3> QED BY <1>1, <2>1, <2>4, <3>1, <3>2
  <2>6. ~(l + 1 < Len(p))
    <3> SUFFICES ASSUME l + 1 < Len(p) PROVE FALSE
        OBVIOUS
    <3>1. l + 1 \in 1 .. l + 1
        BY <1>7
    <3>2. Behind(h, p[(l + 1) + 1])
        BY <1>11, <2>1, <2>5, <3>1 DEF Left, Agrees
    <3> QED BY <1>1, <3>2 DEF Behind
  <2>7. Len(p) = l + 1
      BY <1>7, <2>4, <2>6
  <2> DEFINE q == Stack!PathOf(longer)
  <2>8. q \in Seq(Steps) /\ Len(q) = l + 1 /\ \A i \in 1 .. l + 1 : q[i] = StepOf(longer[i])
      BY <2>1, PathOfStack
  <2> HIDE DEF q
  <2>9. p = q
      BY <2>5, <2>7, <2>8, SameElements
  <2> QED BY <2>9 DEF q
<1> QED BY <1>6, <1>10, <1>11 DEF changed, longer, s, l, f

\* What an operator is asked for, and whether what it handed out so far answers a walk.
Wanted == WantedFor(class, start, end)

IsFound(w) ==
    \E i \in DOMAIN results :
        \/ results[i] = w.path
        \/ /\ LastNode(results[i]) = LastNode(w.path)
           /\ \/ class.answers = "any"
              \/ class.answers = "shortest" /\ Len(results[i]) < Len(w.path)

ResultsWanted == \A i \in DOMAIN results : \E w \in Wanted : results[i] = w.path

LEMMA FoundMore ==
    ASSUME results \in Seq(Seq(Steps)), NEW x \in Seq(Steps), results' = Append(results, x), class' = class
    PROVE  /\ \A w : IsFound(w) => IsFound(w)'
           /\ \A i \in DOMAIN results : i \in DOMAIN results' /\ results'[i] = results[i]
           /\ \A i \in DOMAIN results' : results'[i] = x \/ \E j \in DOMAIN results : results'[i] = results[j]
           /\ \E i \in DOMAIN results' : results'[i] = x
<1> DEFINE n == Len(results)
<1>1. /\ n \in Nat /\ DOMAIN results = 1 .. n /\ results' \in Seq(Seq(Steps)) /\ Len(results') = n + 1
      /\ \A i \in 1 .. n : results'[i] = results[i]
      /\ results'[n + 1] = x
    BY AppendProperties
<1> HIDE DEF n
<1>2. DOMAIN results' = 1 .. n + 1 /\ n + 1 \in 1 .. n + 1 /\ \A i \in 1 .. n + 1 : i \in 1 .. n \/ i = n + 1
    BY <1>1
<1>3. \A i \in DOMAIN results : i \in DOMAIN results' /\ results'[i] = results[i]
    BY <1>1, <1>2
<1>4. \A w : IsFound(w) => IsFound(w)'
    BY <1>3 DEF IsFound
<1>5. \A i \in DOMAIN results' : results'[i] = x \/ \E j \in DOMAIN results : results'[i] = results[j]
    BY <1>1, <1>2
<1> QED BY <1>1, <1>2, <1>3, <1>4, <1>5

\* The path on the stack is of the kind that is asked for.
PathFits(path) ==
    IF class.walks = "trails" THEN IsTrail(path)
    ELSE IsAcyclic(path) \/ (class.cyclic /\ IsCycle(path))

LEMMA DfsFits == DfsInv /\ ~breadth_first => PathFits(Stack!PathOf(open))
BY DfsIsPath DEF StackIsPath, PathFits

LEMMA DfsFitsNext == DfsInv' /\ ~breadth_first' => PathFits(Stack!PathOf(open))'
BY DfsFits, PTL

StartStackOf(n) == <<Stack!Frame(StartState, n, Stack!NoEdge, FALSE)>>

\* These may end with paths left.
GivesUp == class.walks = "simple" /\ class.check

\* The walks that are not handed out continue the stack by a step that was not taken.
OthersFound == \A w \in Wanted : Left(w.path, open) => IsFound(w)

DfsAll ==
    /\ LinksBehind(open) /\ AreWalks(start, open)
    /\ ResultsWanted
    /\ class.answers = "any" /\ ~class.check =>
           \A v \in reached_final : \E i \in DOMAIN results : LastNode(results[i]) = v
    /\ first_next => open = StartStackOf(start) /\ results = <<>> /\ reached_final = {}
    /\ open # <<>> /\ open[Len(open)].at_end /\ open[Len(open)].transition # 1 =>
           Len(open) > 1 /\ open[Len(open)].node = start
    /\ ~first_next /\ start \notin Nodes => open = <<>> /\ results = <<>>
    /\ ~first_next /\ start \in Nodes /\ ~GivesUp => OthersFound

\* The frame of the start node stands for the walk of one node, and nothing was
\* taken from it.
LEMMA StartWalks ==
    ASSUME NEW n \in NodeIds, NEW stack, stack = StartStackOf(n)
    PROVE  /\ stack \in Seq(Frames) /\ stack # <<>> /\ Len(stack) = 1
           /\ stack[1].node = n /\ stack[1].automaton_state = StartState
           /\ stack[1].at_end /\ stack[1].transition = 1
           /\ LinksBehind(stack) /\ AreWalks(n, stack)
           /\ Stack!PathOf(stack) = First(n)
           /\ \A w \in WalksFrom(n) : Left(w.path, stack) => w = FirstSearchState(n)
<1> DEFINE f == Stack!Frame(StartState, n, Stack!NoEdge, FALSE)
<1>1. /\ f \in Frames /\ f.at_end /\ f.transition = 1 /\ f.node = n /\ f.automaton_state = StartState
      /\ f.edge = NoEdge /\ f.inverse = FALSE
    BY StackNames DEF Stack!Frame, Frames, EdgeIds
<1> HIDE DEF f
<1>2. /\ stack \in Seq(Frames) /\ Len(stack) = 1 /\ DOMAIN stack = {1} /\ stack[1] = f
      /\ stack # <<>>
  <2>1. stack = <<f>>
      BY DEF f, StartStackOf
  <2>2. /\ <<f>> \in Seq(Frames) /\ Len(<<f>>) = 1 /\ DOMAIN <<f>> = {1} /\ <<f>>[1] = f
        /\ <<f>> # <<>>
      BY <1>1, OneElement
  <2> QED BY ONLY <2>1, <2>2
<1>3. 1 .. 1 = {1} /\ 1 .. 1 - 1 = {}
    OBVIOUS
<1>4. LinksBehind(stack)
    BY <1>2, <1>3 DEF LinksBehind
<1>5. First(n)[1] = StepOf(f) /\ First(n) = <<StepOf(f)>>
    BY <1>1 DEF First, StepOf
<1>6. AreWalks(n, stack)
  <2>1. FirstSearchState(n) \in WalksFrom(n)
      BY WalkFirst
  <2>2. FirstSearchState(n).path = First(n) /\ Len(FirstSearchState(n).path) = 1
        /\ FirstSearchState(n).automaton_state = StartState
      BY StartEntry DEF FirstSearchState
  <2>3. Stands(FirstSearchState(n), stack, 1)
      BY <1>1, <1>2, <1>3, <1>5, <2>2 DEF Stands, Agrees
  <2> QED BY <1>2, <1>3, <2>1, <2>3 DEF AreWalks
<1>7. Stack!PathOf(stack) = First(n)
  <2> DEFINE p == Stack!PathOf(stack)
             q == First(n)
  <2>1. p \in Seq(Steps) /\ Len(p) = 1 /\ p[1] = StepOf(f)
      BY <1>2, <1>3, PathOfStack
  <2>2. q \in Seq(Steps) /\ Len(q) = 1 /\ q[1] = StepOf(f)
      BY <1>5, StartEntry DEF FirstSearchState, Entries
  <2> HIDE DEF p, q
  <2>3. p = q
      BY <2>1, <2>2, SameElements
  <2> QED BY <2>3 DEF p, q
<1>8. ASSUME NEW w \in WalksFrom(n), Left(w.path, stack) PROVE w = FirstSearchState(n)
  <2> DEFINE l == Len(w.path)
  <2>1. l \in Nat \ {0} /\ (l = 1 => w = FirstSearchState(n))
      BY WalkLength
  <2> HIDE DEF l
  <2>2. Agrees(w.path, stack, 1)
      BY <1>2, <1>3, <1>5, WalkSteps DEF Agrees
  <2>3. ~(1 < l)
      BY <1>1, <1>2, <1>3, <1>8, <2>2 DEF Left, Behind, l
  <2> QED BY <2>1, <2>3
<1> QED BY <1>1, <1>2, <1>4, <1>6, <1>7, <1>8

LEMMA DfsAllReset == ASSUME NEW n \in NodeIds, NEW e, Stack!Reset(n, e) PROVE DfsAll'
<1>1. /\ results' = <<>> /\ reached_final' = {} /\ first_next' /\ start' = n
      /\ open' = StartStackOf(n)
    BY DEF Stack!Reset, StartStackOf
<1>2. /\ LinksBehind(open') /\ AreWalks(n, open')
      /\ Len(open') = 1 /\ open'[1].transition = 1
    BY <1>1, StartWalks
<1>3. ResultsWanted'
    BY <1>1 DEF ResultsWanted
<1> QED BY <1>1, <1>2, <1>3 DEF DfsAll

LEMMA DfsAllInit == Stack!Init => DfsAll
<1> SUFFICES ASSUME Stack!Init PROVE DfsAll
    OBVIOUS
<1>1. /\ results = <<>> /\ reached_final = {} /\ first_next /\ start \in NodeIds
      /\ open = StartStackOf(start)
    BY DEF Stack!Init, StartStackOf
<1>2. /\ LinksBehind(open) /\ AreWalks(start, open)
      /\ Len(open) = 1 /\ open[1].transition = 1
    BY <1>1, StartWalks
<1>3. ResultsWanted
    BY <1>1 DEF ResultsWanted
<1> QED BY <1>1, <1>2, <1>3 DEF DfsAll

\* Nothing is handed out.
LEMMA DfsAllQuiet ==
    ASSUME DfsAll, UNCHANGED <<class, start, end, results, reached_final>>, ~first_next', start \in Nodes,
           LinksBehind(open'), AreWalks(start, open'),
           open' # <<>> /\ open'[Len(open')].at_end /\ open'[Len(open')].transition # 1 =>
               Len(open') > 1 /\ open'[Len(open')].node = start,
           ~GivesUp => \A w \in Wanted : Left(w.path, open') => IsFound(w)
    PROVE  DfsAll'
<1>1. Wanted' = Wanted /\ \A w : IsFound(w) <=> IsFound(w)'
    BY DEF Wanted, IsFound
<1>2. ResultsWanted'
    BY <1>1 DEF DfsAll, ResultsWanted
<1>3. ~GivesUp' => OthersFound'
    BY <1>1 DEF OthersFound, GivesUp
<1> QED BY <1>2, <1>3 DEF DfsAll

LEMMA DfsAllSame ==
    ASSUME DfsAll, UNCHANGED <<class, start, end, open, first_next, results, reached_final>>
    PROVE  DfsAll'
<1>1. Wanted' = Wanted /\ \A w : IsFound(w) <=> IsFound(w)'
    BY DEF Wanted, IsFound
<1>2. ResultsWanted' /\ (OthersFound => OthersFound')
    BY <1>1 DEF DfsAll, ResultsWanted, OthersFound
<1> QED BY <1>2 DEF DfsAll, GivesUp

LEMMA DfsAllClear ==
    ASSUME DfsAll, UNCHANGED <<class, start, end, results, reached_final>>, ~first_next', open' = <<>>,
           start \notin Nodes => results = <<>>,
           ~GivesUp /\ start \in Nodes => \A w \in Wanted : IsFound(w)
    PROVE  DfsAll'
<1>1. Wanted' = Wanted /\ \A w : IsFound(w) <=> IsFound(w)'
    BY DEF Wanted, IsFound
<1>2. ResultsWanted'
    BY <1>1 DEF DfsAll, ResultsWanted
<1>3. ~GivesUp' /\ start \in Nodes => OthersFound'
    BY <1>1 DEF OthersFound, GivesUp
<1>4. LinksBehind(open') /\ AreWalks(start, open')
  <2>1. 1 .. Len(open') = {} /\ 1 .. Len(open') - 1 = {}
      OBVIOUS
  <2> QED BY <2>1 DEF LinksBehind, AreWalks
<1> QED BY <1>2, <1>3, <1>4 DEF DfsAll

LEMMA DfsAllPop ==
    ASSUME DfsInv, DfsAll, open # <<>>, open' = SubSeq(open, 1, Len(open) - 1),
           UNCHANGED <<class, start, end, results, reached_final>>, ~first_next', start \in Nodes,
           ~GivesUp => \A w \in Wanted : Left(w.path, open') => IsFound(w)
    PROVE  DfsAll'
<1> DEFINE l == Len(open)
<1>1. /\ open \in Seq(Frames) /\ l \in Nat \ {0} /\ Len(open') = l - 1
      /\ \A i \in 1 .. l - 1 : open'[i] = open[i]
    BY StackTop DEF DfsInv, StackInv
<1>2. LinksBehind(open') /\ AreWalks(start, open')
    BY <1>1, LeftPop, WalksPop DEF DfsAll
<1>3. ASSUME open' # <<>> PROVE ~open'[Len(open')].at_end
  <2>1. l - 1 # 0
    <3>1. open' \in Seq(Frames)
        BY <1>1
    <3> QED BY <1>1, <1>3, <3>1
  <2> HIDE DEF l
  <2>2. l - 1 \in 1 .. l - 1
      BY <1>1, <2>1
  <2>3. Behind(open[l - 1], StepOf(open[(l - 1) + 1]))
      BY <2>2 DEF DfsAll, LinksBehind, l
  <2> QED BY <1>1, <2>2, <2>3 DEF Behind
<1> QED BY <1>2, <1>3, DfsAllQuiet

\* The path of the stack is handed out.
LEMMA DfsAllReturn ==
    ASSUME DfsAll, DfsOnce, UNCHANGED <<class, start, end>>, ~first_next', start \in Nodes, start \in NodeIds,
           DfsInv', ~breadth_first', open' # <<>>, LinksBehind(open'), AreWalks(start, open'),
           open'[Len(open')].at_end /\ open'[Len(open')].transition # 1 =>
               Len(open') > 1 /\ open'[Len(open')].node = start,
           Stack!IsAnswer(open'[Len(open')]), Stack!Remember(open'[Len(open')]), Stack!Return(open'),
           ~GivesUp => \A w \in Wanted : Left(w.path, open') => IsFound(w) \/ w.path = Stack!PathOf(open')
    PROVE  DfsAll'
<1> DEFINE p == Stack!PathOf(open')
           f == open'[Len(open')]
<1>0. open' \in Seq(Frames)
    BY DEF DfsInv, StackInv
<1>1. /\ p \in Seq(Steps) /\ Len(open') \in 1 .. Len(open')
    BY <1>0, PathOfStack, StackTop
<1>2. results' = Append(results, p) /\ results \in Seq(Seq(Steps))
    BY DEF Stack!Return, DfsOnce
<1>3. PICK w \in WalksFrom(start) : Stands(w, open', Len(open'))
    BY <1>1 DEF AreWalks
<1>4. w.path = p /\ LastNode(p) = f.node
    BY <1>0, <1>1, <1>3, StandsFor
<1>5. PathFits(Stack!PathOf(open))'
    BY DfsFitsNext
<1> HIDE DEF p, f
<1>6. w.automaton_state \in FinalStates /\ (class.check => f.node = end)
  <2>1. w.automaton_state = f.automaton_state
      BY <1>3 DEF Stands, f
  <2> QED BY <2>1 DEF Stack!IsAnswer, Stack!AllEnumAnswer, Stack!AllCheckAnswer, Stack!AnyEnumAnswer,
                      Stack!AnyCheckAnswer, Stack!Final, Stack!Any, Stack!Check, f
<1>7. IF class.walks = "trails" THEN IsTrail(p) ELSE IsAcyclic(p) \/ (class.cyclic /\ IsCycle(p))
    BY <1>5 DEF PathFits, p
<1>8. w \in Wanted
    BY <1>4, <1>6, <1>7 DEF Wanted, WantedFor, Fits
<1>9. /\ \A x : IsFound(x) => IsFound(x)'
      /\ \A i \in DOMAIN results : i \in DOMAIN results' /\ results'[i] = results[i]
      /\ \A i \in DOMAIN results' : results'[i] = p \/ \E j \in DOMAIN results : results'[i] = results[j]
      /\ \E i \in DOMAIN results' : results'[i] = p
    BY <1>1, <1>2, FoundMore
<1>10. Wanted' = Wanted
    BY DEF Wanted
<1>11. ResultsWanted'
    BY <1>4, <1>8, <1>9, <1>10 DEF DfsAll, ResultsWanted
<1>12. ASSUME class.answers = "any" /\ ~class.check
       PROVE  \A v \in reached_final' : \E i \in DOMAIN results' : LastNode(results'[i]) = v
  <2>1. reached_final' = reached_final \cup {f.node}
      BY <1>12 DEF Stack!Remember, Stack!Any, Stack!Check, f
  <2>2. \A v \in reached_final : \E i \in DOMAIN results : LastNode(results[i]) = v
      BY <1>12 DEF DfsAll
  <2> QED BY <1>4, <1>9, <2>1, <2>2
<1>13. ~GivesUp' => OthersFound'
  <2> SUFFICES ASSUME ~GivesUp, NEW x \in Wanted, Left(x.path, open') PROVE IsFound(x)'
      BY <1>10 DEF OthersFound, GivesUp
  <2>1. CASE IsFound(x)
      BY <1>9, <2>1
  <2>2. CASE x.path = p
      BY <1>9, <2>2 DEF IsFound
  <2> QED BY <2>1, <2>2 DEF p
<1> QED BY <1>11, <1>12, <1>13 DEF DfsAll

\* While frames are expanded the start node is there.
LEMMA StartIsThere ==
    ASSUME DfsInv, DfsAll, open # <<>>, pc # "ready"
    PROVE  start \in Nodes /\ start \in NodeIds /\ ~first_next /\ open \in Seq(Frames)
           /\ StackInv(open, Closing)
BY DEF DfsInv, DfsAll, StackInv

\* A walk the operator does not take for an answer was answered.
LEMMA NoAnswer ==
    ASSUME Deterministic, UniqueEdges, DfsAll, start \in NodeIds,
           NEW stack \in Seq(Frames), stack # <<>>, AreWalks(start, stack),
           ~Stack!IsAnswer(stack[Len(stack)]), NEW x \in Wanted, x.path = Stack!PathOf(stack)
    PROVE  IsFound(x)
<1> DEFINE f == stack[Len(stack)]
<1>1. Len(stack) \in 1 .. Len(stack)
    BY StackTop
<1>2. PICK w \in WalksFrom(start) : Stands(w, stack, Len(stack))
    BY <1>1 DEF AreWalks
<1>3. w.path = Stack!PathOf(stack) /\ LastNode(w.path) = f.node
    BY <1>1, <1>2, StandsFor
<1>4. x \in WalksFrom(start) /\ x.automaton_state \in FinalStates /\ (class.check => LastNode(x.path) = end)
    BY DEF Wanted, WantedFor, Fits
<1>5. x = w
    BY <1>3, <1>4, OneWalk
<1>6. f.automaton_state \in FinalStates /\ LastNode(x.path) = f.node /\ (class.check => f.node = end)
    BY <1>2, <1>3, <1>4, <1>5 DEF Stands
<1> HIDE DEF f
<1>7. class.answers = "any" /\ ~class.check /\ f.node \in reached_final
    BY <1>6 DEF Stack!IsAnswer, Stack!AllEnumAnswer, Stack!AllCheckAnswer, Stack!AnyEnumAnswer,
                Stack!AnyCheckAnswer, Stack!Final, Stack!Any, Stack!Check, f
<1>8. PICK i \in DOMAIN results : LastNode(results[i]) = f.node
    BY <1>7 DEF DfsAll
<1> QED BY <1>6, <1>7, <1>8 DEF IsFound

LEMMA DfsAllGrown ==
    ASSUME Deterministic, UniqueEdges, DfsInv, DfsAll, DfsOnce, DfsInv', ~breadth_first', pc = "expand",
           UNCHANGED <<class, start, end, first_next>>, NEW r \in open[Len(open)].iter, NEW m,
           NEW t, t = OutgoingFrom(open[Len(open)])[open[Len(open)].transition], StartsAt(t, m, Closing),
           open' = Grown(open, r, t, m), m # 1 => r.node = start,
           IF Stack!IsAnswer(NewFrame(t, r, m))
           THEN Stack!Remember(NewFrame(t, r, m)) /\ Stack!Return(open')
           ELSE UNCHANGED <<reached_final, results>>
    PROVE  DfsAll'
<1> DEFINE f == NewFrame(t, r, m)
<1>1. open # <<>> /\ ~open[Len(open)].at_end
    BY DEF DfsInv
<1>2. start \in Nodes /\ start \in NodeIds /\ ~first_next /\ open \in Seq(Frames) /\ StackInv(open, Closing)
    BY <1>1, StartIsThere
<1>3. Found(Closing, open, r, t, m)
    BY <1>1, <1>2 DEF Found
<1>4. f \in Frames /\ f.node = r.node /\ f.transition = m
    BY <1>3, FoundFacts DEF NewFrame
<1>5. /\ open' \in Seq(Frames) /\ open' # <<>> /\ open'[Len(open')] = f /\ Len(open') > 1
  <2>1. GrowsTo(Closing, open, r, f, open')
      BY <1>3, StackReach
  <2> HIDE DEF f
  <2> QED BY <2>1 DEF GrowsTo, StackInv
<1>6. LinksBehind(open')
  <2>1. NoLess(open', open)
      BY <1>1, <1>2, <1>4, ConsumedNoLess
  <2> QED BY <2>1 DEF NoLess, DfsAll
<1>7. AreWalks(start, open) /\ AreWalks(start, open')
    BY <1>2, <1>3, WalksGrown DEF DfsAll
<1>8. ASSUME NEW x \in Wanted, Left(x.path, open') PROVE Left(x.path, open) \/ x.path = Stack!PathOf(open')
  <2>1. x.path \in Seq(Steps)
      BY <1>2, WalkLength DEF Wanted, WantedFor
  <2> DEFINE longer == Grown(open, r, t, m)
             p == x.path
  <2>2. \A q \in Seq(Steps) : Left(q, longer) => Left(q, open) \/ q = Stack!PathOf(longer)
      BY <1>3, <1>7, ConsumedNoMore
  <2> HIDE DEF longer, p
  <2>3. open' = longer
      BY DEF longer
  <2>4. Left(p, longer) /\ p \in Seq(Steps)
      BY <1>8, <2>1, <2>3 DEF p
  <2>5. Left(p, open) \/ p = Stack!PathOf(open')
      BY <2>2, <2>3, <2>4
  <2> QED BY <2>5 DEF p
<1>9. ~GivesUp => \A x \in Wanted : Left(x.path, open') => IsFound(x) \/ x.path = Stack!PathOf(open')
    BY <1>2, <1>8 DEF DfsAll, OthersFound
<1>10. f.transition # 1 => f.node = start
    BY <1>4
<1>11. CASE Stack!IsAnswer(f)
  <2>1. Stack!Remember(f) /\ Stack!Return(open')
      BY <1>11
  <2> HIDE DEF f
  <2> QED BY <1>2, <1>5, <1>6, <1>7, <1>9, <1>10, <1>11, <2>1, DfsAllReturn
<1>12. CASE ~Stack!IsAnswer(f)
  <2>1. UNCHANGED <<reached_final, results>>
      BY <1>12
  <2> HIDE DEF f
  <2>2. ~GivesUp => \A x \in Wanted : Left(x.path, open') => IsFound(x)
      BY <1>2, <1>5, <1>7, <1>9, <1>12, NoAnswer
  <2> QED BY <1>2, <1>5, <1>6, <1>7, <1>10, <2>1, <2>2, DfsAllQuiet
<1> QED BY <1>11, <1>12

\* The record leads to no walk that is looked for.
LEMMA DfsAllConsume ==
    ASSUME Deterministic, UniqueEdges, DfsInv, DfsAll, pc = "expand",
           UNCHANGED <<class, start, end, first_next, results, reached_final>>,
           NEW r \in open[Len(open)].iter, NEW t, t = OutgoingFrom(open[Len(open)])[open[Len(open)].transition],
           open' = Consumed(open, r),
           ~GivesUp => \A w \in Wanted : GoesOn(w.path, open, StepTo(t, r)) => IsFound(w)
    PROVE  DfsAll'
<1>1. open # <<>> /\ ~open[Len(open)].at_end
    BY DEF DfsInv
<1>2. start \in Nodes /\ start \in NodeIds /\ ~first_next /\ open \in Seq(Frames) /\ StackInv(open, Closing)
    BY <1>1, StartIsThere
<1>3. Found(Closing, open, r, t, 1)
    BY <1>1, <1>2 DEF Found, StartsAt
<1>4. open' # <<>> /\ ~open'[Len(open')].at_end
    BY <1>1, <1>2, StackConsume
<1>5. LinksBehind(open')
  <2>1. NoLess(open', open)
      BY <1>1, <1>2, ConsumedNoLess
  <2> QED BY <2>1 DEF NoLess, DfsAll
<1>6. AreWalks(start, open) /\ AreWalks(start, open')
    BY <1>3, ConsumedNoMore DEF DfsAll
<1>7. ASSUME ~GivesUp, NEW x \in Wanted, Left(x.path, open') PROVE IsFound(x)
  <2>1. x.path \in Seq(Steps)
      BY <1>2, WalkLength DEF Wanted, WantedFor
  <2>2. Left(x.path, open) \/ GoesOn(x.path, open, StepTo(t, r))
      BY <1>3, <1>6, <1>7, <2>1, ConsumedNoMore
  <2> QED BY <1>2, <1>7, <2>2 DEF DfsAll, OthersFound
<1> QED BY <1>2, <1>4, <1>5, <1>6, <1>7, DfsAllQuiet

\* The frame on top has led everywhere it can, or goes to its next transition.
LEMMA DfsAllSpent ==
    ASSUME Deterministic, UniqueEdges, DfsInv, DfsAll, open # <<>>, pc # "ready", SpentTop(open),
           open' = SubSeq(open, 1, Len(open) - 1),
           UNCHANGED <<class, start, end, first_next, results, reached_final>>
    PROVE  DfsAll'
<1>1. start \in Nodes /\ start \in NodeIds /\ ~first_next /\ open \in Seq(Frames)
    BY StartIsThere
<1>2. NoMore(start, open', open)
    BY <1>1, PopNoMore DEF DfsAll
<1>3. ~GivesUp => \A w \in Wanted : Left(w.path, open') => IsFound(w)
    BY <1>1, <1>2 DEF NoMore, DfsAll, OthersFound, Wanted, WantedFor
<1> QED BY <1>1, <1>3, DfsAllPop

LEMMA DfsAllMove ==
    ASSUME Deterministic, UniqueEdges, DfsInv, DfsAll, open # <<>>, pc # "ready",
           NEW k \in 1 .. Len(OutgoingFrom(open[Len(open)])), open' = MovedTo(open, k),
           LET f == open[Len(open)] IN (f.at_end /\ k = 1) \/ (k = f.transition + 1 /\ ~f.at_end /\ f.iter = {}),
           UNCHANGED <<class, start, end, first_next, results, reached_final>>
    PROVE  DfsAll'
<1>1. start \in Nodes /\ start \in NodeIds /\ ~first_next /\ StackInv(open, Closing)
    BY StartIsThere
<1>2. NoMore(start, open', open) /\ AreWalks(start, open')
  <2>1. AreWalks(start, open)
      BY DEF DfsAll
  <2> QED BY <1>1, <2>1, MovedNoMore
<1>3. LinksBehind(open')
  <2>1. NoLess(open', open)
      BY <1>1, MovedNoLess
  <2> QED BY <2>1 DEF NoLess, DfsAll
<1>4. ~open'[Len(open')].at_end
    BY <1>1, StackMove
<1>5. ~GivesUp => \A w \in Wanted : Left(w.path, open') => IsFound(w)
    BY <1>1, <1>2 DEF NoMore, DfsAll, OthersFound, Wanted, WantedFor
<1> QED BY <1>1, <1>2, <1>3, <1>4, <1>5, DfsAllQuiet

LEMMA DfsAllExpandFirst ==
    ASSUME Deterministic, UniqueEdges, DfsInv, DfsAll, NEW popped, Stack!ExpandFirst(popped),
           class.walks # "trails" => (popped <=> Stack!NotExpanded)
    PROVE  DfsAll'
<1>1. /\ open # <<>> /\ open[Len(open)].at_end /\ pc = "loop"
      /\ UNCHANGED <<class, start, end, first_next, results, reached_final>>
      /\ StackInv(open, Closing)
    BY DEF Stack!ExpandFirst, Stack!Top, DfsInv
<1>2. CASE OutgoingFrom(open[Len(open)]) = <<>>
  <2>1. open' = SubSeq(open, 1, Len(open) - 1)
      BY <1>2 DEF Stack!ExpandFirst, Stack!Pop, Stack!Top, OutgoingFrom
  <2> QED BY <1>1, <1>2, <2>1, DfsAllSpent DEF SpentTop
<1>3. CASE OutgoingFrom(open[Len(open)]) # <<>>
  <2>1. open' = Stack!SetIter(open)
      BY <1>3 DEF Stack!ExpandFirst, Stack!Top, OutgoingFrom
  <2>2. open' = MovedTo(open, 1) /\ 1 \in 1 .. Len(OutgoingFrom(open[Len(open)]))
      BY <1>1, <1>3, <2>1, AtFirst, FirstMove
  <2> QED BY <1>1, <2>2, DfsAllMove
<1> QED BY <1>2, <1>3

LEMMA DfsAllNextTransition ==
    ASSUME Deterministic, UniqueEdges, DfsInv, DfsAll, Stack!NextTransition PROVE DfsAll'
<1>1. /\ open # <<>> /\ ~open[Len(open)].at_end /\ pc = "expand" /\ open[Len(open)].iter = {}
      /\ UNCHANGED <<class, start, end, first_next, results, reached_final>>
      /\ StackInv(open, Closing)
    BY DEF Stack!NextTransition, Stack!Top, DfsInv
<1>2. /\ FrameInv(open[Len(open)], Closing)
      /\ OutgoingFrom(open[Len(open)]) \in Seq(Transition)
    BY <1>1, TopOf
<1>3. open[Len(open)].transition \in 1 .. Len(OutgoingFrom(open[Len(open)]))
    BY <1>1, <1>2 DEF FrameInv
<1>4. CASE Stack!MoreTransitions
  <2>1. open[Len(open)].transition + 1 \in 1 .. Len(OutgoingFrom(open[Len(open)]))
      BY <1>2, <1>3, <1>4 DEF Stack!MoreTransitions, Stack!Top, OutgoingFrom
  <2>2. open' = MovedTo(open, open[Len(open)].transition + 1)
      BY <1>1, <1>4, TopOf DEF Stack!NextTransition, MovedTo
  <2> QED BY <1>1, <2>1, <2>2, DfsAllMove
<1>5. CASE ~Stack!MoreTransitions
  <2>1. open' = SubSeq(open, 1, Len(open) - 1)
      BY <1>5 DEF Stack!NextTransition, Stack!Pop
  <2>2. open[Len(open)].transition = Len(OutgoingFrom(open[Len(open)]))
      BY <1>2, <1>3, <1>5 DEF Stack!MoreTransitions, Stack!Top, OutgoingFrom
  <2> QED BY <1>1, <2>1, <2>2, DfsAllSpent DEF SpentTop
<1> QED BY <1>4, <1>5

LEMMA DfsAllVisitTrail ==
    ASSUME Deterministic, UniqueEdges, DfsInv, DfsAll, DfsOnce, DfsInv', ~breadth_first', Stack!VisitTrail
    PROVE  DfsAll'
<1> DEFINE f == open[Len(open)]
           t == OutgoingFrom(f)[f.transition]
<1>1. pc = "expand" /\ UNCHANGED <<class, start, end, first_next>> /\ class.walks = "trails"
    BY DEF Stack!VisitTrail, Stack!SelectsTrails
<1>2. PICK r \in f.iter :
          LET h == Stack!FrameOf(r)
          IN  IF ~Stack!ExtendsTrail(Stack!PathOf(open), r.edge)
              THEN open' = Consumed(open, r) /\ UNCHANGED <<reached_final, results>>
              ELSE /\ open' = Append(Consumed(open, r), h)
                   /\ IF Stack!IsAnswer(h) THEN Stack!Remember(h) /\ Stack!Return(open')
                                           ELSE UNCHANGED <<reached_final, results>>
    BY DEF Stack!VisitTrail, Stack!Top, Stack!Consumed, Consumed
<1>3. CASE ~Stack!ExtendsTrail(Stack!PathOf(open), r.edge)
  <2>1. open # <<>> /\ start \in NodeIds /\ open \in Seq(Frames)
      BY <1>1 DEF DfsInv, StackInv
  <2>2. PICK i \in DOMAIN Stack!PathOf(open) : Stack!PathOf(open)[i].edge = r.edge
      BY <1>3, StackNames DEF Stack!ExtendsTrail, is_trail
  <2>3. i \in 1 .. Len(open) /\ StepOf(open[i]).edge = r.edge
    <3>1. /\ Stack!PathOf(open) \in Seq(Steps) /\ Len(Stack!PathOf(open)) = Len(open)
          /\ \A j \in 1 .. Len(open) : Stack!PathOf(open)[j] = StepOf(open[j])
        BY <2>1, PathOfStack
    <3> HIDE DEF f
    <3> QED BY <2>2, <3>1
  <2>4. ASSUME NEW w \in Wanted, GoesOn(w.path, open, StepTo(t, r)) PROVE FALSE
    <3> DEFINE p == w.path
               l == Len(open)
    <3>1. IsTrail(p) /\ p \in Seq(Steps)
        BY <1>1, <2>1, WalkLength DEF Wanted, WantedFor, Fits
    <3>2. l < Len(p) /\ Agrees(p, open, l) /\ p[l + 1] = StepTo(t, r) /\ l \in Nat
        BY <2>1, <2>4, StackTop DEF GoesOn
    <3> HIDE DEF p, l, f, t
    <3>3. p[i] = StepOf(open[i]) /\ i \in 1 .. l
        BY <2>3, <3>2 DEF Agrees, l
    <3>4. p[i].edge = p[l + 1].edge /\ i \in DOMAIN p /\ l + 1 \in DOMAIN p /\ i # l + 1
      <4>1. StepTo(t, r).edge = r.edge
          BY DEF StepTo
      <4>2. DOMAIN p = 1 .. Len(p) /\ Len(p) \in Nat
          BY <3>1
      <4> QED BY <2>3, <3>2, <3>3, <4>1, <4>2
    <3> QED BY <3>1, <3>4 DEF IsTrail
  <2> QED BY <1>1, <1>2, <1>3, <2>4, DfsAllConsume
<1>4. CASE Stack!ExtendsTrail(Stack!PathOf(open), r.edge)
  <2>1. Stack!FrameOf(r) = NewFrame(t, r, 1)
      BY <1>1, FramesFound
  <2>2. /\ open' = Grown(open, r, t, 1)
        /\ IF Stack!IsAnswer(NewFrame(t, r, 1))
           THEN Stack!Remember(NewFrame(t, r, 1)) /\ Stack!Return(open')
           ELSE UNCHANGED <<reached_final, results>>
      BY <1>2, <1>4, <2>1 DEF Grown
  <2>3. StartsAt(t, 1, Closing)
      BY DEF StartsAt
  <2> QED BY <1>1, <2>2, <2>3, DfsAllGrown
<1> QED BY <1>3, <1>4

\* The steps of a cycle but the last visit no node twice.
LEMMA CycleOnce ==
    ASSUME NEW p \in Seq(Steps), IsCycle(p), NEW i \in 1 .. Len(p) - 1, NEW j \in 1 .. Len(p) - 1,
           p[i].node = p[j].node
    PROVE  i = j
<1> DEFINE n == Len(p) - 1
           q == SubSeq(p, 1, n)
<1>1. Len(p) \in Nat /\ Len(p) > 1
    BY DEF IsCycle
<1>2. n \in Nat /\ n <= Len(p)
    BY <1>1
<1>3. DOMAIN q = 1 .. n /\ \A k \in 1 .. n : q[k] = p[k]
    BY <1>1
<1>4. IsAcyclic(q)
    BY DEF IsCycle
<1> HIDE DEF q
<1> QED BY <1>3, <1>4 DEF IsAcyclic

\* A path that visits a node again, and goes on, is neither simple nor a cycle.
LEMMA VisitsAgain ==
    ASSUME NEW p \in Seq(Steps), NEW i \in 1 .. Len(p), NEW j \in 1 .. Len(p), i < j, p[i].node = p[j].node,
           IsAcyclic(p) \/ IsCycle(p)
    PROVE  IsCycle(p) /\ j = Len(p)
<1>1. Len(p) \in Nat /\ DOMAIN p = 1 .. Len(p)
    OBVIOUS
<1>2. IsCycle(p)
    BY <1>1 DEF IsAcyclic
<1>3. ASSUME j # Len(p) PROVE FALSE
  <2>1. i \in 1 .. Len(p) - 1 /\ j \in 1 .. Len(p) - 1
    <3> DEFINE n == Len(p)
    <3>1. n \in Nat /\ i \in 1 .. n /\ j \in 1 .. n /\ i < j /\ j # n
        BY <1>1, <1>3
    <3> HIDE DEF n
    <3>2. i \in 1 .. n - 1 /\ j \in 1 .. n - 1
        BY <3>1
    <3> QED BY <3>2 DEF n
  <2> QED BY <1>2, <2>1, CycleOnce
<1> QED BY <1>2, <1>3

\* A path that is one step longer than the stack, and goes on from it, is the
\* path of the stack when it took that step.
LEMMA GoesOnce ==
    ASSUME NEW n, NEW closing, NEW stack, NEW r, NEW t, NEW m, Found(closing, stack, r, t, m), AreWalks(n, stack),
           NEW p \in Seq(Steps), GoesOn(p, stack, StepTo(t, r)), Len(p) = Len(stack) + 1
    PROVE  p = Stack!PathOf(Grown(stack, r, t, m))
<1> DEFINE f == stack[Len(stack)]
           g == [f EXCEPT !.iter = @ \ {r}]
           h == NewFrame(t, r, m)
           changed == Consumed(stack, r)
           longer == Grown(stack, r, t, m)
           l == Len(stack)
           q == Stack!PathOf(longer)
<1>1. stack \in Seq(Frames) /\ stack # <<>> /\ f \in Frames /\ h \in Frames /\ StepOf(h) = StepTo(t, r)
    BY FoundFacts
<1>2. /\ changed = Retopped(stack, g) /\ g \in Frames /\ StepOf(g) = StepOf(f)
      /\ g.automaton_state = f.automaton_state
    BY <1>1, ConsumedTop DEF Found
<1>3. longer = Append(changed, h)
    BY DEF Grown
<1> HIDE DEF g, h, changed, longer
<1>4. /\ changed \in Seq(Frames) /\ Len(changed) = l
      /\ \A i \in 1 .. l : StepOf(changed[i]) = StepOf(stack[i])
    BY <1>1, <1>2, WalksRetop
<1>5. l \in Nat \ {0}
    BY <1>1, StackTop
<1> HIDE DEF f, l
<1>6. /\ longer \in Seq(Frames) /\ Len(longer) = l + 1 /\ longer[l + 1] = h
      /\ \A i \in 1 .. l : longer[i] = changed[i]
  <2>1. /\ Append(changed, h) \in Seq(Frames)
        /\ Len(Append(changed, h)) = Len(changed) + 1 /\ Append(changed, h)[Len(changed) + 1] = h
        /\ \A i \in 1 .. Len(changed) : Append(changed, h)[i] = changed[i]
      BY ONLY <1>1, <1>4, AppendProperties
  <2> QED BY ONLY <1>3, <1>4, <2>1
<1>7. p[l + 1] = StepTo(t, r) /\ Len(p) = l + 1 /\ \A i \in 1 .. l : p[i] = StepOf(stack[i])
    BY DEF GoesOn, Agrees, l
<1>8. \A i \in 1 .. l + 1 : p[i] = StepOf(longer[i])
  <2>1. \A i \in 1 .. l + 1 : i \in 1 .. l \/ i = l + 1
      BY <1>5
  <2> QED BY <1>1, <1>4, <1>6, <1>7, <2>1
<1>9. q \in Seq(Steps) /\ Len(q) = l + 1 /\ \A i \in 1 .. l + 1 : q[i] = StepOf(longer[i])
    BY <1>6, PathOfStack
<1> HIDE DEF q
<1>10. p = q
    BY <1>7, <1>8, <1>9
<1> QED BY <1>10 DEF q, longer

LEMMA DfsAllVisitSimple ==
    ASSUME Deterministic, UniqueEdges, DfsInv, DfsAll, DfsOnce, DfsInv', ~breadth_first', Stack!VisitSimple
    PROVE  DfsAll'
<1> DEFINE t == OutgoingFrom(open[Len(open)])[open[Len(open)].transition]
           m == IF class.check THEN 1 ELSE Len(Connections[t.to]) + 1
<1>1. /\ pc = "expand" /\ UNCHANGED <<class, start, end, first_next>> /\ class.walks = "simple"
    BY DEF Stack!VisitSimple, Stack!SelectsSimple
<1>2. PICK r \in open[Len(open)].iter :
          LET f == Stack!FrameOf(r)
          IN  \/ Stack!Reach(r, f)
              \/ Stack!ClosesCycle(f) /\ Stack!Reach(r, Stack!ClosingFrame(f))
              \/ /\ ~Stack!IsSimple(Stack!PathOf(open), r.node) /\ ~Stack!ClosesCycle(f)
                 /\ open' = Consumed(open, r) /\ UNCHANGED <<reached_final, results>>
    BY DEF Stack!VisitSimple, Stack!Top, Stack!Consumed, Consumed
<1>3. Stack!FrameOf(r) = NewFrame(t, r, 1) /\ Stack!ClosingFrame(Stack!FrameOf(r)) = NewFrame(t, r, m)
    BY <1>1, FramesFound
<1>4. StartsAt(t, 1, Closing)
    BY DEF StartsAt
<1>5. Stack!ClosesCycle(Stack!FrameOf(r)) => StartsAt(t, m, Closing)
    BY <1>1 DEF Stack!ClosesCycle, Stack!Cyclic, Closing, StartsAt
<1>6. ASSUME NEW k, Stack!Reach(r, NewFrame(t, r, k))
      PROVE  /\ open' = Grown(open, r, t, k)
             /\ IF Stack!IsAnswer(NewFrame(t, r, k))
                THEN Stack!Remember(NewFrame(t, r, k)) /\ Stack!Return(open')
                ELSE UNCHANGED <<reached_final, results>>
    BY <1>6 DEF Stack!Reach, Stack!Consumed, Consumed, Grown
<1>7. Stack!ClosesCycle(Stack!FrameOf(r)) => r.node = start
  <2>1. Stack!FrameOf(r).node = r.node
      BY DEF Stack!FrameOf, Stack!Frame
  <2> QED BY <2>1 DEF Stack!ClosesCycle, Stack!AllEnumCloses, Stack!AllCheckCloses, Stack!AnyEnumCloses,
                      Stack!AnyCheckCloses
<1> HIDE DEF m
<1>8. CASE Stack!Reach(r, Stack!FrameOf(r))
    BY <1>1, <1>3, <1>4, <1>6, <1>8, DfsAllGrown
<1>9. CASE Stack!ClosesCycle(Stack!FrameOf(r)) /\ Stack!Reach(r, Stack!ClosingFrame(Stack!FrameOf(r)))
    BY <1>1, <1>3, <1>5, <1>6, <1>7, <1>9, DfsAllGrown
<1>10. CASE /\ ~Stack!IsSimple(Stack!PathOf(open), r.node) /\ ~Stack!ClosesCycle(Stack!FrameOf(r))
            /\ open' = Consumed(open, r) /\ UNCHANGED <<reached_final, results>>
  <2>1. open # <<>> /\ start \in NodeIds /\ open \in Seq(Frames) /\ ~open[Len(open)].at_end
        /\ StackInv(open, Closing)
      BY <1>1 DEF DfsInv, StackInv
  <2> HIDE DEF t
  <2>2. PICK i \in DOMAIN Stack!PathOf(open) : Stack!PathOf(open)[i].node = r.node
      BY <1>10, StackNames DEF Stack!IsSimple, is_simple_path
  <2>3. i \in 1 .. Len(open) /\ StepOf(open[i]).node = r.node
    <3>1. /\ Stack!PathOf(open) \in Seq(Steps) /\ Len(Stack!PathOf(open)) = Len(open)
          /\ \A j \in 1 .. Len(open) : Stack!PathOf(open)[j] = StepOf(open[j])
        BY <2>1, PathOfStack
    <3> QED BY <2>2, <3>1
  <2>4. ASSUME ~GivesUp, NEW w \in Wanted, GoesOn(w.path, open, StepTo(t, r)) PROVE IsFound(w)
    <3> DEFINE p == w.path
               l == Len(open)
    <3>1. /\ w \in WalksFrom(start) /\ w.automaton_state \in FinalStates
          /\ (IsAcyclic(p) \/ (class.cyclic /\ IsCycle(p))) /\ p \in Seq(Steps)
        BY <1>1, <2>1, WalkLength DEF Wanted, WantedFor, Fits
    <3>2. l < Len(p) /\ Agrees(p, open, l) /\ p[l + 1] = StepTo(t, r) /\ l \in Nat
        BY <2>1, <2>4, StackTop DEF GoesOn
    <3>3. r.node = StepTo(t, r).node
        BY DEF StepTo
    <3>4. Found(Closing, open, r, t, 1)
        BY <1>4, <2>1 DEF Found, t
    <3> HIDE DEF p, l
    <3>5. p[i] = StepOf(open[i]) /\ i \in 1 .. l
        BY <2>3, <3>2 DEF Agrees, l
    <3>6. p[i].node = p[l + 1].node /\ i \in 1 .. Len(p) /\ l + 1 \in 1 .. Len(p) /\ i < l + 1
        /\ p \in Seq(Steps)
      <4>1. Len(p) \in Nat /\ p \in Seq(Steps)
          BY <2>1, WalkLength, <3>1 DEF p
      <4> QED BY <2>3, <3>2, <3>3, <3>5, <4>1
    <3>7. IsCycle(p) /\ l + 1 = Len(p)
        BY <3>1, <3>6, VisitsAgain
    <3>8. class.cyclic
      <4>1. ~IsAcyclic(p)
        <5>1. i \in DOMAIN p /\ l + 1 \in DOMAIN p /\ i # l + 1
            BY <3>6
        <5> QED BY <3>6, <5>1 DEF IsAcyclic
      <4> QED BY <3>1, <4>1
    <3>9. r.node = start /\ LastNode(p) = start
      <4>1. LastNode(p) = p[1].node /\ LastNode(p) = p[l + 1].node
          BY <3>7 DEF IsCycle, LastNode
      <4>2. p[1].node = start
          BY <2>1, <3>1, WalkSteps DEF p
      <4> QED BY <3>2, <3>3, <4>1, <4>2
    <3>10. w.automaton_state = t.to
      <4> DEFINE longer == Grown(open, r, t, 1)
                 h == NewFrame(t, r, 1)
      <4>1. AreWalks(start, longer)
          BY <2>1, <3>4, WalksGrown DEF DfsAll
      <4>2. longer \in Seq(Frames) /\ longer # <<>> /\ longer[Len(longer)] = h
        <5>1. GrowsTo(Closing, open, r, h, longer)
            BY <3>4, StackReach
        <5> HIDE DEF longer, h
        <5> QED BY <5>1 DEF GrowsTo, StackInv
      <4>3. p = Stack!PathOf(longer)
        BY <2>4, <3>1, <3>4, <3>7, GoesOnce DEF p, l, DfsAll
      <4> HIDE DEF longer
      <4>4. Len(longer) \in 1 .. Len(longer)
          BY <4>2, StackTop
      <4>5. PICK v \in WalksFrom(start) : Stands(v, longer, Len(longer))
          BY <4>1, <4>4 DEF AreWalks
      <4>6. v.path = p
          BY <2>1, <4>2, <4>3, <4>4, <4>5, StandsFor
      <4>7. v = w
          BY <2>1, <3>1, <4>6, OneWalk DEF p
      <4>8. h.automaton_state = t.to
          BY DEF NewFrame
      <4> QED BY <4>2, <4>5, <4>7, <4>8 DEF Stands
    <3>11. ~class.check
        BY <1>1, <2>4 DEF GivesUp
    <3>12. class.answers = "any" /\ start \in reached_final
      <4>1. Stack!FrameOf(r).node = start /\ Stack!FrameOf(r).automaton_state \in FinalStates
          BY <1>3, <3>1, <3>9, <3>10 DEF NewFrame
      <4> QED BY <1>10, <3>8, <3>11, <4>1 DEF Stack!ClosesCycle, Stack!AllEnumCloses, Stack!AnyEnumCloses,
                 Stack!Any, Stack!Check, Stack!Cyclic, Stack!Final
    <3>13. PICK j \in DOMAIN results : LastNode(results[j]) = start
        BY <3>11, <3>12 DEF DfsAll
    <3> QED BY <3>9, <3>12, <3>13 DEF IsFound, p
  <2>5. open' = Consumed(open, r) /\ UNCHANGED <<results, reached_final>>
      BY <1>10
  <2> QED BY <1>1, <2>4, <2>5, DfsAllConsume DEF t
<1> QED BY <1>2, <1>8, <1>9, <1>10

\* A path that closes a cycle is dropped with its frame: what goes on from it is
\* no answer.
LEMMA DfsAllDrop ==
    ASSUME Deterministic, UniqueEdges, DfsInv, DfsAll, DfsOnce, Stack!DropCycle
    PROVE  DfsAll'
<1> DEFINE f == open[Len(open)]
           l == Len(open)
<1>1. /\ pc = "loop" /\ open # <<>> /\ open' = SubSeq(open, 1, Len(open) - 1)
      /\ UNCHANGED <<class, start, end, first_next, results, reached_final>>
      /\ f.transition > Len(OutgoingFrom(f)) /\ class.walks = "simple"
    BY DEF Stack!DropCycle, Stack!CycleOnTop, Stack!Top, Stack!Pop, Stack!SelectsSimple, OutgoingFrom
<1>2. start \in Nodes /\ start \in NodeIds /\ ~first_next /\ open \in Seq(Frames) /\ StackInv(open, Closing)
    BY <1>1, StartIsThere
<1>3. f \in Frames /\ l \in Nat \ {0}
    BY <1>1, <1>2, StackTop
<1> HIDE DEF f, l
<1>4. SUFFICES ASSUME ~GivesUp, NEW w \in Wanted, Left(w.path, open') PROVE IsFound(w)
    BY <1>1, <1>2, DfsAllPop
<1>5. CASE OutgoingFrom(f) = <<>>
  <2>1. NoMore(start, open', open)
      BY <1>1, <1>2, <1>5, PopNoMore DEF DfsAll, SpentTop, f
  <2>2. w \in WalksFrom(start)
      BY DEF Wanted, WantedFor
  <2> QED BY <1>1, <1>2, <1>4, <2>1, <2>2 DEF NoMore, DfsAll, OthersFound
<1>6. CASE OutgoingFrom(f) # <<>>
  <2> DEFINE p == w.path
             n == Len(p)
  <2>1. FrameInv(f, Closing)
      BY <1>1, <1>2, <1>3 DEF StackInv, f, l
  <2>2. f.at_end /\ f.transition # 1
    <3>1. Len(OutgoingFrom(f)) \in Nat \ {0} /\ f.transition \in Nat
      <4>1. OutgoingFrom(f) \in Seq(Transition)
        <5>1. f.automaton_state \in States
            BY <1>3 DEF Frames
        <5> QED BY <5>1 DEF OutgoingFrom
      <4> QED BY <1>3, <1>6, <4>1 DEF Frames
    <3> QED BY <1>1, <2>1, <3>1 DEF FrameInv
  <2>3. l > 1 /\ f.node = start
      BY <1>1, <2>2 DEF DfsAll, f, l
  <2>4. /\ w \in WalksFrom(start) /\ (IsAcyclic(p) \/ (class.cyclic /\ IsCycle(p)))
        /\ p \in Seq(Steps) /\ n \in Nat \ {0} /\ p[1].node = start
      BY <1>1, <1>2, WalkLength, WalkSteps DEF Wanted, WantedFor, Fits
  <2> HIDE DEF p, n
  <2>5. ~(l < n /\ Agrees(p, open, l))
    <3> SUFFICES ASSUME l < n, Agrees(p, open, l) PROVE FALSE
        OBVIOUS
    <3>1. l \in 1 .. l
        BY <1>3
    <3>2. p[l].node = start
      <4>1. p[l] = StepOf(open[l])
          BY <3>1 DEF Agrees
      <4>2. StepOf(f).node = f.node
          BY DEF StepOf
      <4> QED BY <2>3, <4>1, <4>2 DEF f, l
    <3>3. 1 \in 1 .. Len(p) /\ l \in 1 .. Len(p) /\ 1 < l /\ l # Len(p)
        BY <1>3, <2>3, <2>4 DEF n
    <3> QED BY <2>4, <3>2, <3>3, VisitsAgain
  <2>6. Left(p, open)
    <3> SUFFICES ASSUME NEW i \in 1 .. l, i < n, Agrees(p, open, i) PROVE Behind(open[i], p[i + 1])
        BY DEF Left, l, n
    <3>1. i # l
        BY <2>5
    <3>2. i \in 1 .. l - 1 /\ Len(open') = l - 1 /\ \A j \in 1 .. l - 1 : open'[j] = open[j]
      <4>1. Len(open') = l - 1 /\ \A j \in 1 .. l - 1 : open'[j] = open[j]
          BY <1>1, <1>2, StackTop DEF l
      <4> QED BY <1>3, <3>1, <4>1
    <3>3. Agrees(p, open', i)
      <4>1. \A j \in 1 .. i : j \in 1 .. l - 1
          BY <1>3, <3>2
      <4> QED BY <3>2, <4>1 DEF Agrees
    <3> QED BY <1>4, <3>2, <3>3 DEF Left, p, n
  <2> QED BY <1>2, <1>4, <2>6 DEF DfsAll, OthersFound, p
<1> QED BY <1>5, <1>6

\* A check for one trail ends once it has one.
LEMMA DfsAllStopAfterAnswer ==
    ASSUME Deterministic, UniqueEdges, DfsInv, DfsAll, DfsOnce, ~breadth_first, Stack!StopAfterAnswer
    PROVE  DfsAll'
<1> DEFINE f == open[Len(open)]
<1>1. /\ pc = "loop" /\ open # <<>> /\ open' = <<>>
      /\ UNCHANGED <<class, start, end, first_next, results, reached_final>>
      /\ class.answers = "any" /\ class.check /\ f.node = end /\ f.automaton_state \in FinalStates
      /\ class.walks = "trails"
    BY DEF Stack!StopAfterAnswer, Stack!AnswerOnTop, Stack!Top, Stack!Clear, Stack!Any, Stack!Check,
           Stack!SelectsTrails
<1>2. start \in Nodes /\ start \in NodeIds /\ ~first_next /\ open \in Seq(Frames)
    BY <1>1, StartIsThere
<1>3. Len(open) \in 1 .. Len(open)
    BY <1>1, <1>2, StackTop
<1>4. PICK w \in WalksFrom(start) : Stands(w, open, Len(open))
    BY <1>3 DEF DfsAll, AreWalks
<1>5. w.path = Stack!PathOf(open) /\ LastNode(w.path) = f.node
    BY <1>2, <1>3, <1>4, StandsFor
<1>6. IsTrail(Stack!PathOf(open))
    BY <1>1, DfsFits DEF PathFits
<1>7. w \in Wanted /\ LastNode(w.path) = end
    BY <1>1, <1>4, <1>5, <1>6 DEF Wanted, WantedFor, Fits, Stands
<1>8. Left(w.path, open)
    BY <1>2, <1>5, LeftPath DEF DfsAll
<1>9. IsFound(w)
    BY <1>1, <1>2, <1>7, <1>8 DEF DfsAll, OthersFound, GivesUp
<1>10. PICK i \in DOMAIN results : LastNode(results[i]) = end
    BY <1>7, <1>9 DEF IsFound
<1>11. \A x \in Wanted : LastNode(x.path) = end
    BY <1>1 DEF Wanted, WantedFor
<1>12. \A x \in Wanted : IsFound(x)
    BY <1>1, <1>10, <1>11 DEF IsFound
<1> QED BY <1>1, <1>2, <1>12, DfsAllClear

LEMMA DfsAllGivesUp ==
    ASSUME DfsInv, DfsAll, Stack!StopAtEnd \/ Stack!NoAnswerAtEnd
    PROVE  DfsAll'
<1>1. /\ open' = <<>> /\ UNCHANGED <<class, start, end, results, reached_final>> /\ ~first_next' /\ GivesUp
      /\ start \in Nodes
  <2>1. CASE Stack!StopAtEnd
    <3>1. /\ pc = "loop" /\ open # <<>> /\ open' = <<>> /\ GivesUp
          /\ UNCHANGED <<class, start, end, first_next, results, reached_final>>
        BY <2>1 DEF Stack!StopAtEnd, Stack!EndOnTop, Stack!Clear, Stack!SelectsSimple, Stack!Check, GivesUp
    <3> QED BY <3>1, StartIsThere
  <2>2. CASE Stack!NoAnswerAtEnd
      BY <2>2 DEF Stack!NoAnswerAtEnd, Stack!StartIsEnd, Stack!Clear, Stack!SelectsSimple, Stack!Check, GivesUp
  <2> QED BY <2>1, <2>2
<1> QED BY <1>1, DfsAllClear

LEMMA DfsAllStartMissing ==
    ASSUME DfsInv, DfsAll, Stack!StartMissing
    PROVE  DfsAll'
<1>1. /\ first_next /\ start \notin Nodes /\ ~first_next' /\ open' = SubSeq(open, 1, Len(open) - 1)
      /\ UNCHANGED <<class, start, end, results, reached_final>>
    BY DEF Stack!StartMissing, Stack!Pop
<1>2. results = <<>> /\ Len(open) = 1 /\ open \in Seq(Frames) /\ open # <<>>
    BY <1>1, StartWalks DEF DfsAll, DfsInv
<1>3. open' = <<>>
  <2>1. open' \in Seq(Frames) /\ Len(open') = 1 - 1
      BY <1>1, <1>2, StackTop
  <2> QED BY <2>1
<1> QED BY <1>1, <1>2, <1>3, DfsAllClear

LEMMA DfsAllReturnStart ==
    ASSUME Deterministic, UniqueEdges, DfsInv, DfsAll, DfsOnce, DfsInv', ~breadth_first', Stack!ReturnStart
    PROVE  DfsAll'
<1>1. /\ first_next /\ start \in Nodes /\ ~first_next' /\ UNCHANGED <<class, start, end, open>>
      /\ Stack!IsAnswer(open[Len(open)]) /\ Stack!Remember(open'[Len(open')]) /\ Stack!Return(open')
    BY DEF Stack!ReturnStart, Stack!Top
<1>2. start \in NodeIds
    BY DEF DfsInv
<1>3. /\ open # <<>> /\ LinksBehind(open) /\ AreWalks(start, open)
      /\ open[1].transition = 1 /\ Len(open) = 1
      /\ Stack!PathOf(open) = First(start)
      /\ \A w \in WalksFrom(start) : Left(w.path, open) => w = FirstSearchState(start)
    BY <1>1, <1>2, StartWalks DEF DfsAll
<1>4. FirstSearchState(start).path = First(start)
    BY DEF FirstSearchState
<1>5. \A w \in Wanted : w \in WalksFrom(start)
    BY DEF Wanted, WantedFor
<1>6. \A w \in Wanted : Left(w.path, open) => w.path = Stack!PathOf(open)
    BY <1>3, <1>4, <1>5
<1> QED BY <1>1, <1>2, <1>3, <1>6, DfsAllReturn

LEMMA DfsAllEnterLoop ==
    ASSUME Deterministic, UniqueEdges, DfsInv, DfsAll, NEW decided, Stack!EnterLoop(decided),
           Stack!IsAnswer(open[Len(open)]) => decided
    PROVE  DfsAll'
<1>1. /\ UNCHANGED <<class, start, end, open, reached_final, results>> /\ ~first_next'
      /\ first_next => start \in Nodes /\ ~decided
    BY DEF Stack!EnterLoop, DfsInv
<1>2. CASE start \notin Nodes
    BY <1>1, <1>2, DfsAllClear DEF DfsAll
<1>3. CASE start \in Nodes
  <2>1. LinksBehind(open) /\ AreWalks(start, open)
      BY DEF DfsAll
  <2>2. open # <<>> /\ open[Len(open)].at_end /\ open[Len(open)].transition # 1 =>
            Len(open) > 1 /\ open[Len(open)].node = start
      BY DEF DfsAll
  <2>3. ASSUME ~GivesUp, NEW w \in Wanted, Left(w.path, open) PROVE IsFound(w)
    <3>1. CASE ~first_next
        BY <1>3, <2>3, <3>1 DEF DfsAll, OthersFound
    <3>2. CASE first_next
      <4>1. start \in NodeIds
          BY DEF DfsInv
      <4>2. /\ open \in Seq(Frames) /\ open # <<>> /\ Stack!PathOf(open) = First(start)
            /\ \A x \in WalksFrom(start) : Left(x.path, open) => x = FirstSearchState(start)
          BY <3>2, <4>1, StartWalks DEF DfsAll
      <4>3. w.path = First(start)
        <5>1. w \in WalksFrom(start)
            BY DEF Wanted, WantedFor
        <5> QED BY <2>3, <4>2, <5>1 DEF FirstSearchState
      <4>4. ~Stack!IsAnswer(open[Len(open)])
          BY <1>1, <3>2
      <4> QED BY <2>1, <4>1, <4>2, <4>3, <4>4, NoAnswer
    <3> QED BY <3>1, <3>2
  <2> QED BY <1>1, <1>3, <2>1, <2>2, <2>3, DfsAllQuiet
<1> QED BY <1>2, <1>3

LEMMA DfsAllStep ==
    ASSUME Deterministic, UniqueEdges, DfsInv, DfsAll, DfsOnce, DfsInv', ~breadth_first, ~breadth_first',
           \/ Stack!Pipeline \/ Stack!TrailStep \/ Stack!SimpleStep \/ Stack!Interrupt
           \/ \E n \in NodeIds : \E e \in EndsOf(class) : Stack!Reset(n, e)
    PROVE  DfsAll'
<1>1. CASE Stack!StartMissing
    BY <1>1, DfsAllStartMissing
<1>2. CASE Stack!ReturnStart
    BY <1>2, DfsAllReturnStart
<1>3. CASE Stack!Exhausted \/ Stack!Interrupt
    BY <1>3, DfsAllSame DEF Stack!Exhausted, Stack!Interrupt
<1>4. CASE Stack!NextTransition
    BY <1>4, DfsAllNextTransition
<1>5. CASE Stack!StopAfterAnswer
    BY <1>5, DfsAllStopAfterAnswer
<1>6. CASE Stack!StopAtEnd \/ Stack!NoAnswerAtEnd
    BY <1>6, DfsAllGivesUp
<1>7. CASE Stack!VisitTrail
    BY <1>7, DfsAllVisitTrail
<1>8. CASE Stack!VisitSimple
    BY <1>8, DfsAllVisitSimple
<1>9. CASE Stack!DropCycle
    BY <1>9, DfsAllDrop
<1>10. ASSUME NEW decided, Stack!EnterLoop(decided), Stack!IsAnswer(Stack!Top) => decided PROVE DfsAll'
    BY <1>10, DfsAllEnterLoop DEF Stack!Top
<1>11. ASSUME NEW popped, Stack!ExpandResume(popped) PROVE DfsAll'
    BY <1>11, DfsAllSame DEF Stack!ExpandResume
<1>12. CASE Stack!SelectsTrails /\ Stack!ExpandFirst(Stack!AnswerOnTop)
    BY <1>12, DfsAllExpandFirst DEF Stack!SelectsTrails
<1>13. CASE Stack!SelectsSimple /\ Stack!ExpandFirst(Stack!NotExpanded)
    BY <1>13, DfsAllExpandFirst
<1>14. CASE \E n \in NodeIds : \E e \in EndsOf(class) : Stack!Reset(n, e)
    BY <1>14, DfsAllReset
<1>15. Stack!Pipeline => DfsAll'
    BY <1>1, <1>2, <1>3, <1>4 DEF Stack!Pipeline
<1>16. Stack!TrailStep => DfsAll'
    BY <1>5, <1>7, <1>10, <1>11, <1>12 DEF Stack!TrailStep
<1>17. Stack!SimpleStep => DfsAll'
    BY <1>6, <1>8, <1>9, <1>10, <1>11, <1>13 DEF Stack!SimpleStep
<1> QED BY <1>3, <1>14, <1>15, <1>16, <1>17

\* When nothing is left on the stack every answer was handed out.
LEMMA DfsAllDone ==
    ASSUME DfsInv, DfsAll, open = <<>>, ~GivesUp
    PROVE  IF start \in Nodes THEN \A w \in Wanted : IsFound(w) ELSE results = <<>>
<1>1. ~first_next
    BY DEF DfsInv
<1>2. ASSUME NEW w PROVE Left(w.path, open)
  <2>1. 1 .. Len(open) = {}
      OBVIOUS
  <2> QED BY <2>1 DEF Left
<1> QED BY <1>1, <1>2 DEF DfsAll, OthersFound

-----------------------------------------------------------------------------
(* Every answer is handed out, breadth first.  A walk that was not handed  *)
(* out as an answer continues a path in the queue, the one at the front by *)
(* a step that was not taken yet.                                          *)

\* The path q with the step that p takes after it.
OneFurther(q, p) == Append(q, p[Len(q) + 1])

Gone(p, queue, taken) ==
    \A j \in DOMAIN queue :
        Begins(queue[j].path, p) => j = 1 /\ OneFurther(queue[1].path, p) \in taken

LEMMA GoneFewer ==
    ASSUME NEW p, NEW queue, NEW taken, NEW more, taken \subseteq more, Gone(p, queue, taken)
    PROVE  Gone(p, queue, more)
BY DEF Gone

LEMMA GonePop ==
    ASSUME NEW queue, QueueInv(queue), queue # <<>>, NEW rest, rest = Dequeued(queue), NEW taken, NEW p,
           Begins(queue[1].path, p) => OneFurther(queue[1].path, p) \in taken, Gone(p, rest, {})
    PROVE  Gone(p, queue, taken)
<1>1. queue \in Seq(Entries) /\ 1 \in DOMAIN queue
    BY QueueFront
<1>2. \A j \in DOMAIN queue : j # 1 => \E i \in DOMAIN rest : rest[i] = queue[j]
  <2> SUFFICES ASSUME NEW j \in DOMAIN queue, j # 1 PROVE \E i \in DOMAIN rest : rest[i] = queue[j]
      OBVIOUS
  <2>1. j - 1 \in DOMAIN rest /\ rest[j - 1] = queue[(j - 1) + 1] /\ (j - 1) + 1 = j
      BY <1>1 DEF Dequeued
  <2> QED BY <2>1
<1> QED BY <1>2 DEF Gone

LEMMA GonePush ==
    ASSUME NEW queue \in Seq(Entries), queue # <<>>, NEW w \in Entries, NEW longer, longer = Append(queue, w),
           NEW taken, NEW p, Gone(p, longer, taken)
    PROVE  Gone(p, queue, taken) /\ ~Begins(w.path, p)
<1>1. /\ Len(queue) \in Nat \ {0} /\ DOMAIN queue = 1 .. Len(queue)
      /\ DOMAIN longer = 1 .. Len(queue) + 1
      /\ \A j \in 1 .. Len(queue) : longer[j] = queue[j]
      /\ longer[Len(queue) + 1] = w
  <2>1. Len(queue) \in Nat \ {0} /\ DOMAIN queue = 1 .. Len(queue)
      BY StackTop
  <2>2. /\ longer \in Seq(Entries) /\ Len(longer) = Len(queue) + 1 /\ longer[Len(queue) + 1] = w
        /\ \A j \in 1 .. Len(queue) : longer[j] = queue[j]
      BY AppendProperties
  <2> QED BY <2>1, <2>2
<1> DEFINE n == Len(queue)
<1> HIDE DEF n
<1>2. /\ n + 1 \in 1 .. n + 1 /\ n + 1 # 1 /\ 1 \in 1 .. n /\ \A j \in 1 .. n : j \in 1 .. n + 1
    BY <1>1 DEF n
<1> QED BY <1>1, <1>2 DEF Gone, n

LEMMA GoneTaken ==
    ASSUME NEW queue, QueueInv(queue), queue # <<>>, NEW x \in Steps, NEW w, w = Append(queue[1].path, x),
           NEW taken, NEW p \in Seq(Steps), Gone(p, queue, taken \cup {w})
    PROVE  Gone(p, queue, taken) \/ p = w \/ Begins(w, p)
<1> DEFINE q == queue[1].path
           l == Len(q)
<1>1. q \in Seq(Steps) /\ l \in Nat
    BY QueueFront
<1>2. CASE Begins(q, p) /\ OneFurther(q, p) = w
  <2> DEFINE m == Len(p)
  <2>1. m \in Nat /\ DOMAIN p = 1 .. m /\ l < m /\ \A i \in 1 .. l : p[i] = q[i]
      BY <1>2 DEF Begins
  <2> HIDE DEF m, l
  <2>2. l + 1 \in 1 .. m
      BY <1>1, <2>1
  <2>3. p[l + 1] \in Steps
      BY <2>1, <2>2
  <2> DEFINE y == p[l + 1]
  <2>4. Append(q, y) = Append(q, x)
      BY <1>2 DEF OneFurther, l
  <2> HIDE DEF q, y
  <2>5. y = x
      BY <1>1, <2>3, <2>4, BeginningSame DEF y
  <2>6. /\ w \in Seq(Steps) /\ Len(w) = l + 1 /\ w[l + 1] = x
        /\ \A i \in 1 .. l : w[i] = q[i]
      BY <1>1, AppendKeeps DEF q, l
  <2>7. \A i \in 1 .. l + 1 : p[i] = w[i]
    <3>1. \A i \in 1 .. l + 1 : i \in 1 .. l \/ i = l + 1
        BY <1>1
    <3> QED BY <2>1, <2>5, <2>6, <3>1 DEF y
  <2>8. CASE m = l + 1
      BY <2>6, <2>7, <2>8 DEF m
  <2>9. CASE m # l + 1
    <3>1. l + 1 < m
        BY <1>1, <2>1, <2>2, <2>9
    <3> QED BY <2>6, <2>7, <3>1 DEF Begins, m
  <2> QED BY <2>8, <2>9
<1>3. CASE ~(Begins(q, p) /\ OneFurther(q, p) = w)
    BY <1>3 DEF Gone
<1> QED BY <1>2, <1>3

LEMMA GoneEmpty ==
    ASSUME NEW p, NEW taken
    PROVE  Gone(p, <<>>, taken)
<1>1. DOMAIN <<>> = {}
    OBVIOUS
<1> QED BY <1>1 DEF Gone

\* Nothing is taken before the first transition, nor by moving to the next one,
\* and after the last one all is.
LEMMA TakenNothing ==
    ASSUME NEW w
    PROVE  TakenFrom(w, 1, GetIterator(OutgoingOf(w)[1], LastNode(w.path))) = {}
<1>1. \A k \in 1 .. 1 : k = 1
    OBVIOUS
<1> QED BY <1>1 DEF TakenFrom

LEMMA TakenBack ==
    ASSUME NEW w, NEW current \in Nat
    PROVE  TakenFrom(w, current + 1, GetIterator(OutgoingOf(w)[current + 1], LastNode(w.path)))
               \subseteq TakenFrom(w, current, {})
<1> DEFINE records(k) == GetIterator(OutgoingOf(w)[k], LastNode(w.path))
           path(k, r) == Extend(w.path, OutgoingOf(w)[k], r)
<1>1. TakenFrom(w, current, {}) =
          UNION {{path(k, r) : r \in {x \in records(k) : k = current => x \notin {}}} : k \in 1 .. current}
    BY DEF TakenFrom
<1>2. TakenFrom(w, current + 1, records(current + 1)) =
          UNION {{path(k, r) : r \in {x \in records(k) : k = current + 1 => x \notin records(current + 1)}} :
                     k \in 1 .. current + 1}
    BY DEF TakenFrom
<1>3. \A k \in 1 .. current + 1 : k \in 1 .. current \/ k = current + 1
    OBVIOUS
<1> SUFFICES TakenFrom(w, current + 1, records(current + 1)) \subseteq TakenFrom(w, current, {})
    OBVIOUS
<1> HIDE DEF records, path
<1> QED BY <1>1, <1>2, <1>3

LEMMA TakenOne ==
    ASSUME NEW w, NEW current, NEW left, NEW r
    PROVE  TakenFrom(w, current, left \ {r})
               \subseteq TakenFrom(w, current, left) \cup {Extend(w.path, OutgoingOf(w)[current], r)}
BY DEF TakenFrom

LEMMA TakenAll ==
    ASSUME NEW w \in Entries, NEW u \in Continuations(w)
    PROVE  u.path \in TakenFrom(w, Len(OutgoingOf(w)), {})
<1>1. PICK k \in DOMAIN OutgoingOf(w) : \E r \in GetIterator(OutgoingOf(w)[k], LastNode(w.path)) :
          u = NextSearchState(w, OutgoingOf(w)[k], r)
    BY Continuation
<1>2. PICK r \in GetIterator(OutgoingOf(w)[k], LastNode(w.path)) : u = NextSearchState(w, OutgoingOf(w)[k], r)
    BY <1>1
<1>3. u.path = Extend(w.path, OutgoingOf(w)[k], r)
    BY <1>2 DEF NextSearchState
<1>4. k \in 1 .. Len(OutgoingOf(w))
  <2>1. OutgoingOf(w) \in Seq(Transition)
      BY OutgoingType
  <2> QED BY <2>1
<1> DEFINE n == Len(OutgoingOf(w))
           records(i) == GetIterator(OutgoingOf(w)[i], LastNode(w.path))
           path(i, s) == Extend(w.path, OutgoingOf(w)[i], s)
<1>5. TakenFrom(w, n, {}) =
          UNION {{path(i, s) : s \in {x \in records(i) : i = n => x \notin {}}} : i \in 1 .. n}
    BY DEF TakenFrom
<1>6. k \in 1 .. n /\ r \in records(k) /\ u.path = path(k, r)
    BY <1>2, <1>3, <1>4
<1> HIDE DEF n, records, path
<1>7. u.path \in TakenFrom(w, n, {})
    BY <1>5, <1>6
<1> QED BY <1>7 DEF n

\* A walk that goes on from the front takes one of its continuations.
LEMMA FrontGoesOn ==
    ASSUME Deterministic, UniqueEdges, NEW n \in NodeIds, NEW v \in WalksFrom(n), NEW w \in WalksFrom(n),
           Begins(v.path, w.path)
    PROVE  OutgoingOf(v) # <<>> /\ OneFurther(v.path, w.path) \in TakenFrom(v, Len(OutgoingOf(v)), {})
<1>1. PICK u \in Continuations(v) : u.path = Append(v.path, w.path[Len(v.path) + 1])
    BY WalkGoesOn
<1>2. v \in Entries
    BY DEF WalksFrom
<1>3. u.path \in TakenFrom(v, Len(OutgoingOf(v)), {})
    BY <1>2, TakenAll
<1>4. OutgoingOf(v) # <<>>
    BY <1>2, Continuation
<1> QED BY <1>1, <1>3, <1>4 DEF OneFurther

\* What the map remembers of a node is the length of a path that was handed out.
Remembered ==
    \A v \in DOMAIN reached_final :
        \E i \in DOMAIN results : LastNode(results[i]) = v /\ Distance(results[i]) = reached_final[v]

ShortestFirst ==
    class.answers = "shortest" =>
        /\ \A i \in DOMAIN results : \A w \in Wanted :
               LastNode(w.path) = LastNode(results[i]) => Len(results[i]) <= Len(w.path)
        /\ open # <<>> => \A i \in DOMAIN results : LastNode(results[i]) \in DOMAIN reached_final

OthersGone == \A w \in Wanted : Gone(w.path, open, Taken) => IsFound(w)

BfsAll ==
    /\ \A i \in DOMAIN open : open[i] \in WalksFrom(start)
    /\ ResultsWanted /\ Remembered /\ ShortestFirst
    /\ first_next => open = <<FirstSearchState(start)>>
    /\ ~first_next /\ start \notin Nodes => open = <<>> /\ results = <<>>
    /\ ~first_next /\ start \in Nodes => OthersGone

\* An answer with the path p makes w one that was handed out.
CountsFor(p, w) ==
    \/ p = w.path
    \/ /\ LastNode(p) = LastNode(w.path)
       /\ class.answers = "any" \/ (class.answers = "shortest" /\ Len(p) < Len(w.path))

LEMMA BfsAllNothing ==
    ASSUME start \in NodeIds, results = <<>>, reached_final = <<>>, first_next,
           open = <<FirstSearchState(start)>>
    PROVE  BfsAll
<1>1. DOMAIN <<>> = {} /\ \A i \in DOMAIN open : open[i] = FirstSearchState(start)
    OBVIOUS
<1> QED BY <1>1, WalkFirst DEF BfsAll, ResultsWanted, Remembered, ShortestFirst

LEMMA BfsAllNothingNext ==
    ASSUME start' \in NodeIds, results' = <<>>, reached_final' = <<>>, first_next',
           open' = <<FirstSearchState(start')>>
    PROVE  BfsAll'
<1>1. DOMAIN <<>> = {} /\ \A i \in DOMAIN open' : open'[i] = FirstSearchState(start')
    OBVIOUS
<1> QED BY <1>1, WalkFirst DEF BfsAll, ResultsWanted, Remembered, ShortestFirst

\* Nothing is handed out.
LEMMA BfsAllQuiet ==
    ASSUME BfsAll, UNCHANGED <<class, start, end, results, reached_final>>, ~first_next', start \in Nodes,
           \A i \in DOMAIN open' : open'[i] \in WalksFrom(start),
           open = <<>> => open' = <<>>,
           \A w \in Wanted : Gone(w.path, open', Taken') => IsFound(w)
    PROVE  BfsAll'
<1>1. Wanted' = Wanted /\ \A w : IsFound(w) <=> IsFound(w)'
    BY DEF Wanted, IsFound
<1>2. ResultsWanted' /\ Remembered' /\ ShortestFirst' /\ OthersGone'
    BY <1>1 DEF BfsAll, ResultsWanted, Remembered, ShortestFirst, OthersGone
<1> QED BY <1>2 DEF BfsAll

LEMMA BfsAllSame ==
    ASSUME BfsAll, UNCHANGED <<class, start, end, open, first_next, results, reached_final>>, Taken' = Taken
    PROVE  BfsAll'
<1>1. Wanted' = Wanted /\ \A w : IsFound(w) <=> IsFound(w)'
    BY DEF Wanted, IsFound
<1>2. ResultsWanted' /\ Remembered' /\ ShortestFirst' /\ (OthersGone => OthersGone')
    BY <1>1 DEF BfsAll, ResultsWanted, Remembered, ShortestFirst, OthersGone
<1> QED BY <1>2 DEF BfsAll

LEMMA BfsAllClear ==
    ASSUME BfsAll, UNCHANGED <<class, start, end, results, reached_final>>, ~first_next', open' = <<>>,
           start \notin Nodes => results = <<>>,
           start \in Nodes => \A w \in Wanted : IsFound(w)
    PROVE  BfsAll'
<1>1. Wanted' = Wanted /\ \A w : IsFound(w) <=> IsFound(w)'
    BY DEF Wanted, IsFound
<1>2. ResultsWanted' /\ Remembered' /\ ShortestFirst' /\ (start \in Nodes => OthersGone')
    BY <1>1 DEF BfsAll, ResultsWanted, Remembered, ShortestFirst, OthersGone
<1>3. DOMAIN open' = {}
    OBVIOUS
<1> QED BY <1>2, <1>3 DEF BfsAll

LEMMA ReachedFacts ==
    ASSUME NEW p
    PROVE  /\ LastNode(p) \in DOMAIN reached_final => Queue!Reached(p) = reached_final
           /\ \A v \in DOMAIN Queue!Reached(p) :
                  \/ v \in DOMAIN reached_final /\ Queue!Reached(p)[v] = reached_final[v]
                  \/ v = LastNode(p) /\ v \notin DOMAIN reached_final /\ Queue!Reached(p)[v] = Distance(p)
           /\ DOMAIN Queue!Reached(p) = DOMAIN reached_final \cup {LastNode(p)}
<1>1. Queue!Distance(p) = Distance(p) /\ Queue!LastNode(p) = LastNode(p)
    BY QueueNames DEF Queue!Distance, Distance
<1> QED BY <1>1 DEF Queue!Reached

\* The path of w is handed out.
LEMMA BfsAllReturn ==
    ASSUME BfsAll, results \in Seq(Seq(Steps)), UNCHANGED <<class, start, end>>, ~first_next', start \in Nodes,
           NEW w \in Wanted, NEW p \in Seq(Steps), p = w.path, results' = Append(results, p),
           reached_final' = reached_final \/ reached_final' = Queue!Reached(p),
           class.answers = "shortest" =>
               /\ open' # <<>> => open # <<>> /\ reached_final' = Queue!Reached(p)
               /\ \A x \in Wanted : LastNode(x.path) = LastNode(p) => Len(p) <= Len(x.path),
           \A i \in DOMAIN open' : open'[i] \in WalksFrom(start),
           \A x \in Wanted : Gone(x.path, open', Taken') => IsFound(x) \/ CountsFor(p, x)
    PROVE  BfsAll'
<1>1. /\ \A x : IsFound(x) => IsFound(x)'
      /\ \A i \in DOMAIN results : i \in DOMAIN results' /\ results'[i] = results[i]
      /\ \A i \in DOMAIN results' : results'[i] = p \/ \E j \in DOMAIN results : results'[i] = results[j]
      /\ \E i \in DOMAIN results' : results'[i] = p
    BY FoundMore
<1>2. Wanted' = Wanted
    BY DEF Wanted
<1>3. ResultsWanted'
  <2>1. \A j \in DOMAIN results : \E x \in Wanted : results[j] = x.path
      BY DEF BfsAll, ResultsWanted
  <2>2. \E x \in Wanted : p = x.path
      OBVIOUS
  <2>3. ASSUME NEW i \in DOMAIN results' PROVE \E x \in Wanted : results'[i] = x.path
    <3>1. CASE results'[i] = p
        BY <2>2, <3>1
    <3>2. CASE \E j \in DOMAIN results : results'[i] = results[j]
        BY <2>1, <3>2
    <3> QED BY <1>1, <3>1, <3>2
  <2> QED BY <1>2, <2>3 DEF ResultsWanted
<1>4. Remembered'
  <2> SUFFICES ASSUME NEW v \in DOMAIN reached_final'
               PROVE  \E i \in DOMAIN results' : LastNode(results'[i]) = v /\ Distance(results'[i]) = reached_final'[v]
      BY DEF Remembered
  <2>1. \/ v \in DOMAIN reached_final /\ reached_final'[v] = reached_final[v]
        \/ v = LastNode(p) /\ reached_final'[v] = Distance(p)
      BY ReachedFacts
  <2>2. CASE v \in DOMAIN reached_final /\ reached_final'[v] = reached_final[v]
    <3>1. PICK i \in DOMAIN results : LastNode(results[i]) = v /\ Distance(results[i]) = reached_final[v]
        BY <2>2 DEF BfsAll, Remembered
    <3>2. i \in DOMAIN results' /\ results'[i] = results[i]
        BY <1>1
    <3> QED BY <2>2, <3>1, <3>2
  <2>3. CASE v = LastNode(p) /\ reached_final'[v] = Distance(p)
      BY <1>1, <2>3
  <2> QED BY <2>1, <2>2, <2>3
<1>5. ShortestFirst'
  <2> SUFFICES ASSUME class.answers = "shortest" PROVE ShortestFirst'
      BY DEF ShortestFirst
  <2>1. \A i \in DOMAIN results' : \A x \in Wanted :
            LastNode(x.path) = LastNode(results'[i]) => Len(results'[i]) <= Len(x.path)
      BY <1>1 DEF BfsAll, ShortestFirst
  <2>2. ASSUME open' # <<>>, NEW i \in DOMAIN results' PROVE LastNode(results'[i]) \in DOMAIN reached_final'
    <3>1. DOMAIN reached_final' = DOMAIN reached_final \cup {LastNode(p)} /\ open # <<>>
        BY <2>2, ReachedFacts
    <3>2. \A j \in DOMAIN results : LastNode(results[j]) \in DOMAIN reached_final
        BY <3>1 DEF BfsAll, ShortestFirst
    <3> QED BY <1>1, <3>1, <3>2
  <2> QED BY <1>2, <2>1, <2>2 DEF ShortestFirst
<1>6. OthersGone'
  <2> SUFFICES ASSUME NEW x \in Wanted, Gone(x.path, open', Taken') PROVE IsFound(x)'
      BY <1>2 DEF OthersGone
  <2>1. CASE IsFound(x)
      BY <1>1, <2>1
  <2>2. CASE CountsFor(p, x)
      BY <1>1, <2>2 DEF CountsFor, IsFound
  <2> QED BY <2>1, <2>2
<1> QED BY <1>3, <1>4, <1>5, <1>6 DEF BfsAll

LEMMA BfsAllReset ==
    ASSUME BfsAll, NEW n \in NodeIds, NEW e, Queue!Reset(n, e) PROVE BfsAll'
<1>1. CASE Queue!StartAt(n, e)
    BY <1>1, BfsAllNothingNext, QueueNames DEF Queue!StartAt
<1>2. CASE UNCHANGED <<class, start, end, open, iter, at_end, current_transition, first_next, results, reached_final>>
  <2>1. Taken' = Taken
      BY <1>2 DEF Taken
  <2> QED BY <1>2, <2>1, BfsAllSame
<1> QED BY <1>1, <1>2 DEF Queue!Reset

\* The front is popped when all that goes on from it was taken, or nothing does.
LEMMA BfsAllPop ==
    ASSUME Deterministic, UniqueEdges, BfsInv, BfsAll, open # <<>>, open' = Tail(open), at_end', start \in Nodes,
           ~first_next, ~first_next', UNCHANGED <<class, start, end, results, reached_final>>,
           OutgoingOf(open[1]) # <<>> => Taken = TakenFrom(open[1], Len(OutgoingOf(open[1])), {})
    PROVE  BfsAll'
<1>1. QueueInv(open) /\ start \in NodeIds /\ 1 \in DOMAIN open /\ open \in Seq(Entries) /\ open' = Dequeued(open)
    BY QueueFront DEF BfsInv, Dequeued
<1>2. Among(open', open) /\ Taken' = {}
    BY <1>1, QueuePop DEF Taken
<1>3. \A i \in DOMAIN open' : open'[i] \in WalksFrom(start)
    BY <1>2 DEF Among, BfsAll
<1>4. ASSUME NEW w \in Wanted, Gone(w.path, open', Taken') PROVE IsFound(w)
  <2>1. open[1] \in WalksFrom(start) /\ w \in WalksFrom(start)
      BY <1>1 DEF BfsAll, Wanted, WantedFor
  <2>2. ASSUME Begins(open[1].path, w.path) PROVE OneFurther(open[1].path, w.path) \in Taken
      BY <1>1, <2>1, <2>2, FrontGoesOn
  <2>3. Gone(w.path, open, Taken)
    <3> DEFINE taken == Taken
               p == w.path
               rest == open'
    <3>1. /\ Begins(open[1].path, p) => OneFurther(open[1].path, p) \in taken
          /\ Gone(p, rest, {}) /\ rest = Dequeued(open)
        BY <1>1, <1>2, <1>4, <2>2
    <3> HIDE DEF taken, p, rest
    <3>2. Gone(p, open, taken)
        BY <1>1, <3>1, GonePop
    <3> QED BY <3>2 DEF taken, p
  <2> QED BY <2>3 DEF BfsAll, OthersGone
<1> QED BY <1>3, <1>4, BfsAllQuiet

\* The front is kept, and no more was taken from it.
LEMMA BfsAllKeep ==
    ASSUME BfsAll, UNCHANGED <<class, start, end, open, results, reached_final>>, start \in Nodes,
           ~first_next, ~first_next', Taken' \subseteq Taken
    PROVE  BfsAll'
<1>1. \A w \in Wanted : Gone(w.path, open', Taken') => IsFound(w)
    BY GoneFewer DEF BfsAll, OthersGone
<1>2. \A i \in DOMAIN open' : open'[i] \in WalksFrom(start)
    BY DEF BfsAll
<1> QED BY <1>1, <1>2, BfsAllQuiet

LEMMA BfsStartIsThere ==
    ASSUME BfsInv, BfsAll, open # <<>>, pc \in {"loop", "expand"}
    PROVE  start \in Nodes /\ start \in NodeIds /\ ~first_next
BY DEF BfsInv, BfsAll

LEMMA BfsAllExpandFirst ==
    ASSUME Deterministic, UniqueEdges, BfsInv, BfsAll, Queue!ExpandFirst PROVE BfsAll'
<1>1. /\ pc = "loop" /\ open # <<>> /\ at_end /\ current_transition' = 1
      /\ UNCHANGED <<class, start, end, first_next, results, reached_final>>
    BY DEF Queue!ExpandFirst
<1>2. start \in Nodes /\ ~first_next
    BY <1>1, BfsStartIsThere
<1>3. Head(open) = open[1] /\ Queue!Outgoing = OutgoingOf(open[1])
    BY <1>1, QueueFront, QueueNames DEF BfsInv, Queue!Outgoing, Queue!Current
<1>4. CASE OutgoingOf(open[1]) = <<>>
  <2>1. open' = Tail(open) /\ at_end'
      BY <1>1, <1>3, <1>4 DEF Queue!ExpandFirst, Queue!Pop
  <2> QED BY <1>1, <1>2, <1>4, <2>1, BfsAllPop
<1>5. CASE OutgoingOf(open[1]) # <<>>
  <2>1. /\ open' = open /\ ~at_end' /\ iter' = GetIterator(OutgoingOf(open[1])[1], LastNode(open[1].path))
      BY <1>3, <1>5, QueueNames DEF Queue!ExpandFirst, Queue!Current
  <2>2. Taken' = {}
      BY <1>1, <2>1, TakenNothing DEF Taken
  <2> QED BY <1>1, <1>2, <2>1, <2>2, BfsAllKeep
<1> QED BY <1>4, <1>5

LEMMA BfsAllNextTransition ==
    ASSUME Deterministic, UniqueEdges, BfsInv, BfsAll, Queue!NextTransition PROVE BfsAll'
<1>1. /\ pc = "expand" /\ iter = {} /\ current_transition' = current_transition + 1
      /\ UNCHANGED <<class, start, end, first_next, results, reached_final>>
    BY DEF Queue!NextTransition
<1>2. /\ open # <<>> /\ ~at_end /\ Head(open) = open[1]
      /\ Queue!Outgoing = OutgoingOf(open[1]) /\ OutgoingOf(open[1]) \in Seq(Transition)
      /\ current_transition \in 1 .. Len(OutgoingOf(open[1])) /\ current_transition \in Nat
    BY <1>1, CurrentFacts, QueueFront, QueueNames DEF Queue!Outgoing, Queue!Current
<1>3. start \in Nodes /\ ~first_next
    BY <1>1, <1>2, BfsStartIsThere
<1>4. Taken = TakenFrom(open[1], current_transition, {})
    BY <1>1, <1>2 DEF Taken
<1>5. CASE Queue!MoreTransitions
  <2>1. /\ UNCHANGED <<open, at_end>>
        /\ iter' = GetIterator(OutgoingOf(open[1])[current_transition + 1], LastNode(open[1].path))
      BY <1>2, <1>5, QueueNames DEF Queue!NextTransition, Queue!Current
  <2>2. Taken' \subseteq Taken
    <3> DEFINE w == open[1]
               left == GetIterator(OutgoingOf(w)[current_transition + 1], LastNode(w.path))
    <3>1. Taken' = TakenFrom(w, current_transition + 1, left)
        BY <1>1, <1>2, <2>1 DEF Taken
    <3>2. TakenFrom(w, current_transition + 1, left) \subseteq TakenFrom(w, current_transition, {})
        BY <1>2, TakenBack
    <3> QED BY <1>4, <3>1, <3>2
  <2> QED BY <1>1, <1>3, <2>1, <2>2, BfsAllKeep
<1>6. CASE ~Queue!MoreTransitions
  <2>1. open' = Tail(open) /\ at_end'
      BY <1>6 DEF Queue!NextTransition, Queue!Pop
  <2>2. current_transition = Len(OutgoingOf(open[1]))
    <3> DEFINE n == Len(OutgoingOf(open[1]))
    <3>1. n \in Nat /\ current_transition \in 1 .. n /\ ~(current_transition < n)
        BY <1>2, <1>6 DEF Queue!MoreTransitions
    <3> HIDE DEF n
    <3>2. current_transition = n
        BY <3>1
    <3> QED BY <3>2 DEF n
  <2> QED BY <1>1, <1>2, <1>3, <1>4, <2>1, <2>2, BfsAllPop
<1> QED BY <1>5, <1>6

\* The step from the front to w.
LEMMA NextIsWalk ==
    ASSUME BfsInv, BfsAll, pc = "expand", NEW r \in iter, NEW w, w = NextState(r)
    PROVE  LET p == open[1].path
               t == CurrentTransition
           IN  /\ w \in WalksFrom(start) /\ w.path \in Seq(Steps) /\ w.path = Append(p, StepTo(t, r))
               /\ Extend(p, t, r) = w.path /\ StepTo(t, r) \in Steps
               /\ p \in Seq(Steps) /\ Len(p) \in Nat \ {0} /\ Len(w.path) = Len(p) + 1
               /\ LastNode(w.path) = r.node /\ p[1].node = start /\ w.path[1].node = start
               /\ \A i \in 1 .. Len(p) : w.path[i] = p[i]
               /\ w.path[Len(p) + 1].node = r.node /\ w.path[Len(p) + 1].edge = r.edge
<1> DEFINE front == open[1]
           t == CurrentTransition
           p == front.path
           s == StepTo(t, r)
<1>1. /\ front \in Entries /\ t \in Transition /\ r \in GetIterator(t, LastNode(p))
      /\ 1 \in DOMAIN open /\ QueueInv(open) /\ open # <<>>
      /\ current_transition \in 1 .. Len(OutgoingOf(front)) /\ t = OutgoingOf(front)[current_transition]
      /\ start \in NodeIds /\ w = NextSearchState(front, t, r)
    BY CurrentFacts DEF CurrentTransition, BfsInv, NextState
<1>2. front \in WalksFrom(start)
    BY <1>1 DEF BfsAll
<1> HIDE DEF front, t
<1>3. /\ w \in Entries /\ s \in Steps /\ w.path = Append(p, s) /\ Extend(p, t, r) = w.path
      /\ LastNode(w.path) = r.node
  <2> DEFINE next == NextSearchState(front, t, r)
             m == LastNode(p)
  <2>1. front \in Entries /\ t \in Transition /\ r \in GetIterator(t, m) /\ w = next
      BY <1>1
  <2> HIDE DEF m
  <2>2. /\ next \in Entries /\ s \in Steps /\ next.path = Append(front.path, s)
        /\ Extend(front.path, t, r) = next.path /\ LastNode(next.path) = r.node
    <3>1. /\ next \in Entries /\ s \in Steps /\ next.path = Append(front.path, s)
          /\ Extend(front.path, t, r) = Append(front.path, s) /\ LastNode(next.path) = r.node
        BY ONLY <2>1, LongerEntry
    <3> QED BY <3>1
  <2> HIDE DEF next
  <2> QED BY <2>1, <2>2
<1>4. w \in WalksFrom(start)
  <2>1. current_transition \in DOMAIN OutgoingOf(front)
    <3>1. OutgoingOf(front) \in Seq(Transition)
        BY <1>1, OutgoingType
    <3> QED BY <1>1, <3>1
  <2>2. w \in Continuations(front)
      BY <1>1, <2>1, Continuation
  <2> QED BY <1>2, <2>2, WalkNext
<1>5. p \in Seq(Steps) /\ Len(p) \in Nat \ {0} /\ p[1].node = start
    BY <1>1, <1>2, WalkLength, WalkSteps
<1>6. /\ w.path \in Seq(Steps) /\ Len(w.path) = Len(p) + 1 /\ w.path[Len(p) + 1] = s
      /\ \A i \in 1 .. Len(p) : w.path[i] = p[i]
    BY <1>3, <1>5, AppendKeeps
<1>7. s.node = r.node /\ s.edge = r.edge
    BY DEF StepTo
<1>8. w.path[1].node = start
    BY <1>1, <1>4, WalkSteps
<1> QED BY <1>3, <1>4, <1>5, <1>6, <1>7, <1>8 DEF front, t

\* What the map remembers, or what was handed out, is met before anything longer.
LEMMA BfsReachedFound ==
    ASSUME BfsInv, BfsOnce, BfsAll, open # <<>>, class.answers = "shortest", NEW v \in DOMAIN reached_final
    PROVE  \E i \in DOMAIN results : /\ LastNode(results[i]) = v /\ Len(results[i]) - 1 = reached_final[v]
                                     /\ Len(results[i]) \in Nat /\ Len(results[i]) <= Len(open[1].path) + 1
<1>1. PICK i \in DOMAIN results : LastNode(results[i]) = v /\ Distance(results[i]) = reached_final[v]
    BY DEF BfsAll, Remembered
<1>2. Len(results[i]) \in Nat /\ Len(results[i]) <= Len(open[1].path) + 1
  <2>1. results[i] \in Seq(Steps) /\ Passed(results[i], open, Taken)
      BY DEF BfsOnce
  <2> QED BY <2>1 DEF Passed
<1> QED BY <1>1, <1>2 DEF Distance

\* The first path to a node that has none yet is a shortest one, and so is one
\* of the same length.
LEMMA BfsShortest ==
    ASSUME BfsInv, BfsOnce, BfsAll, pc = "expand", class.answers = "shortest", NEW r \in iter,
           NEW w, w = NextState(r), Queue!IsOptimal(w.path), NEW x \in Wanted, LastNode(x.path) = LastNode(w.path)
    PROVE  Len(w.path) <= Len(x.path)
<1> DEFINE v == LastNode(w.path)
           n == Len(w.path)
           m == Len(x.path)
           l == Len(open[1].path)
<1>1. open # <<>> /\ QueueInv(open) /\ 1 \in DOMAIN open /\ start \in NodeIds /\ ~first_next /\ start \in Nodes
    BY CurrentFacts, BfsStartIsThere DEF BfsInv
<1>2. l \in Nat /\ n = l + 1
    BY NextIsWalk
<1>3. m \in Nat
    BY <1>1, WalkLength DEF Wanted, WantedFor
<1>4. v \in DOMAIN reached_final => reached_final[v] = n - 1
    BY QueueNames DEF Queue!IsOptimal, Queue!Distance
<1> HIDE DEF n, m, l, v
<1>5. CASE v \in DOMAIN reached_final
  <2>1. PICK i \in DOMAIN results : /\ LastNode(results[i]) = v /\ Len(results[i]) - 1 = reached_final[v]
                                    /\ Len(results[i]) \in Nat
      BY <1>1, <1>5, BfsReachedFound
  <2>2. Len(results[i]) <= m
      BY <2>1 DEF BfsAll, ShortestFirst, v, m
  <2>3. Len(results[i]) = n
      BY <1>2, <1>4, <1>5, <2>1
  <2> QED BY <2>2, <2>3 DEF n, m
<1>6. CASE v \notin DOMAIN reached_final
  <2>1. ~IsFound(x)
    <3>1. \A i \in DOMAIN results : LastNode(results[i]) # v
        BY <1>1, <1>6 DEF BfsAll, ShortestFirst
    <3> QED BY <3>1 DEF IsFound, v
  <2>2. ~Gone(x.path, open, Taken)
      BY <1>1, <2>1 DEF BfsAll, OthersGone
  <2>3. PICK j \in DOMAIN open : Begins(open[j].path, x.path)
      BY <2>2 DEF Gone
  <2>4. Len(open[j].path) < m
      BY <2>3 DEF Begins, m
  <2>5. Len(open[1].path) <= Len(open[j].path) /\ Len(open[j].path) \in Nat
    <3>1. open \in Seq(Entries) /\ open[j] \in Entries
        BY <1>1 DEF QueueInv
    <3>2. Len(open[j].path) \in Nat
        BY <3>1 DEF Entries
    <3>3. j = 1 \/ 1 < j
        BY <3>1
    <3>4. 1 < j => Len(open[1].path) <= Len(open[j].path)
        BY <1>1 DEF QueueInv, Sorted
    <3>5. j = 1 => Len(open[1].path) <= Len(open[j].path)
        BY <3>2
    <3> QED BY <3>2, <3>3, <3>4, <3>5
  <2> DEFINE k == Len(open[j].path)
  <2>6. k \in Nat /\ k < m /\ l <= k
      BY <2>4, <2>5 DEF l
  <2> HIDE DEF k
  <2>7. n <= m
      BY <1>2, <1>3, <2>6
  <2> QED BY <2>7 DEF n, m
<1> QED BY <1>5, <1>6

\* Also with the path of w, if it is handed out.
FoundNow(w, x) == IsFound(x) \/ (results' = Append(results, w.path) /\ CountsFor(w.path, x))

\* The record r is taken, its path is handed out, or not, and queued, or not.
LEMMA BfsAllVisit ==
    ASSUME Deterministic, UniqueEdges, BfsInv, BfsOnce, BfsAll, pc = "expand", NEW r \in iter, iter' = iter \ {r},
           UNCHANGED <<class, start, end, at_end, current_transition, first_next>>,
           NEW w, w = NextState(r),
           open' = open \/ open' = <<>> \/ open' = Append(open, w),
           \/ UNCHANGED <<results, reached_final>>
           \/ /\ results' = Append(results, w.path) /\ w \in Wanted
              /\ reached_final' = reached_final \/ reached_final' = Queue!Reached(w.path)
              /\ class.answers = "shortest" => Queue!IsOptimal(w.path) /\ reached_final' = Queue!Reached(w.path),
           \A x \in Wanted : x.path = w.path => FoundNow(w, x),
           open' = open => \A x \in Wanted : Begins(w.path, x.path) => FoundNow(w, x),
           open' = <<>> => \A x \in Wanted : FoundNow(w, x)
    PROVE  BfsAll'
<1> DEFINE front == open[1]
           t == CurrentTransition
           s == StepTo(t, r)
           taken == TakenFrom(front, current_transition, iter)
           more == TakenFrom(front, current_transition, iter \ {r})
<1>1. /\ QueueInv(open) /\ open # <<>> /\ front \in Entries /\ ~at_end /\ ~first_next /\ 1 \in DOMAIN open
      /\ taken = Taken /\ t = OutgoingOf(front)[current_transition]
      /\ open \in Seq(Entries) /\ start \in NodeIds /\ start \in Nodes
    BY CurrentFacts, BfsStartIsThere DEF CurrentTransition, Taken, QueueInv, BfsInv
<1>2. /\ w \in WalksFrom(start) /\ w \in Entries /\ w.path \in Seq(Steps) /\ s \in Steps
      /\ w.path = Append(front.path, s) /\ Extend(front.path, t, r) = w.path
    BY NextIsWalk DEF WalksFrom
<1>3. more \subseteq taken \cup {w.path}
  <2>1. more \subseteq taken \cup {Extend(front.path, OutgoingOf(front)[current_transition], r)}
      BY TakenOne
  <2> HIDE DEF more, taken
  <2> QED BY <1>1, <1>2, <2>1
<1> HIDE DEF front, t, s, taken, more
<1>4. open' # <<>> => open'[1] = front /\ Taken' = more
  <2>1. open' = Append(open, w) => open'[1] = front
      BY <1>1, <1>2, AppendFacts DEF front
  <2>2. open' # <<>> => open'[1] = front
      BY <2>1 DEF front
  <2> QED BY <1>1, <2>2 DEF Taken, more
<1>5. \A i \in DOMAIN open' : open'[i] \in WalksFrom(start)
  <2>1. CASE open' = open
      BY <2>1 DEF BfsAll
  <2>2. CASE open' = <<>>
    <3>1. DOMAIN open' = {}
        BY <2>2
    <3> QED BY <3>1
  <2>3. CASE open' = Append(open, w)
    <3>1. \A i \in DOMAIN open' : open'[i] = w \/ \E j \in DOMAIN open : open'[i] = open[j]
        BY <1>1, <1>2, <2>3, AppendFacts
    <3> QED BY <1>2, <3>1 DEF BfsAll
  <2> QED BY <2>1, <2>2, <2>3
<1>6. ASSUME NEW x \in Wanted, Gone(x.path, open', Taken') PROVE FoundNow(w, x)
  <2> DEFINE p == x.path
             q == w.path
             longer == open'
  <2>1. p \in Seq(Steps)
      BY <1>1, WalkLength DEF Wanted, WantedFor
  <2>2. CASE open' = <<>>
      BY <2>2
  <2>3. ASSUME Gone(p, open, more) PROVE Gone(p, open, taken) \/ p = q \/ Begins(q, p)
    <3>1. Gone(p, open, taken \cup {q})
        BY <1>3, <2>3, GoneFewer
    <3>2. q = Append(open[1].path, s)
        BY <1>2 DEF front
    <3> HIDE DEF p, q
    <3> QED BY <1>1, <1>2, <2>1, <3>1, <3>2, GoneTaken
  <2>4. CASE open' = open
    <3>1. Gone(p, open, more)
        BY <1>1, <1>4, <1>6, <2>4
    <3>2. CASE Gone(p, open, taken)
        BY <1>1, <3>2 DEF BfsAll, OthersGone, FoundNow
    <3> QED BY <2>3, <2>4, <3>1, <3>2
  <2>5. CASE open' = Append(open, w)
    <3>1. Gone(p, longer, more) /\ longer = Append(open, w)
      <4>1. Append(open, w) # <<>>
        <5>1. Len(Append(open, w)) = Len(open) + 1 /\ Len(open) \in Nat
            BY <1>1, <1>2, AppendProperties
        <5>2. Len(Append(open, w)) # 0
            BY <5>1
        <5> QED BY <5>2
      <4> QED BY <1>4, <1>6, <2>5, <4>1
    <3> HIDE DEF p, longer
    <3>2. Gone(p, open, more) /\ ~Begins(w.path, p)
        BY <1>1, <1>2, <3>1, GonePush
    <3>3. CASE Gone(p, open, taken)
        BY <1>1, <3>3 DEF BfsAll, OthersGone, FoundNow, p
    <3> QED BY <2>3, <3>2, <3>3 DEF p
  <2> QED BY <2>2, <2>4, <2>5
<1>7. results \in Seq(Seq(Steps))
    BY DEF BfsOnce
<1>8. CASE UNCHANGED <<results, reached_final>>
  <2>1. results' # Append(results, w.path)
    <3> DEFINE more1 == Append(results, w.path)
    <3>1. Len(more1) = Len(results) + 1 /\ Len(results) \in Nat
        BY <1>2, <1>7, AppendProperties
    <3>2. Len(more1) # Len(results)
        BY <3>1
    <3> QED BY <1>8, <3>2
  <2>2. \A x \in Wanted : Gone(x.path, open', Taken') => IsFound(x)
      BY <1>6, <2>1 DEF FoundNow
  <2> QED BY <1>1, <1>5, <1>8, <2>2, BfsAllQuiet
<1>9. CASE /\ results' = Append(results, w.path) /\ w \in Wanted
           /\ reached_final' = reached_final \/ reached_final' = Queue!Reached(w.path)
           /\ class.answers = "shortest" => Queue!IsOptimal(w.path) /\ reached_final' = Queue!Reached(w.path)
  <2>1. \A x \in Wanted : Gone(x.path, open', Taken') => IsFound(x) \/ CountsFor(w.path, x)
      BY <1>6 DEF FoundNow
  <2>2. class.answers = "shortest" =>
            \A x \in Wanted : LastNode(x.path) = LastNode(w.path) => Len(w.path) <= Len(x.path)
      BY <1>9, BfsShortest
  <2> QED BY <1>1, <1>2, <1>5, <1>7, <1>9, <2>1, <2>2, BfsAllReturn
<1> QED BY <1>8, <1>9

\* A walk that the path of w answers, if it is handed out.
LEMMA FoundNowFacts ==
    ASSUME Deterministic, UniqueEdges, BfsInv, BfsOnce, BfsAll, pc = "expand", NEW r \in iter,
           NEW w, w = NextState(r)
    PROVE  /\ \A x \in Wanted : x.path = w.path => x = w
           /\ \A x \in Wanted : Begins(w.path, x.path) => Len(w.path) < Len(x.path)
           /\ class.answers = "any" /\ LastNode(w.path) \in DOMAIN reached_final =>
                  \A x \in Wanted : LastNode(x.path) = LastNode(w.path) => IsFound(x)
           /\ class.answers = "shortest" /\ LastNode(w.path) \in DOMAIN reached_final =>
                  \A x \in Wanted : /\ LastNode(x.path) = LastNode(w.path)
                                    /\ Begins(w.path, x.path) \/ (x.path = w.path /\ ~Queue!IsOptimal(w.path))
                                    => IsFound(x)
<1> DEFINE v == LastNode(w.path)
           n == Len(w.path)
           l == Len(open[1].path)
<1>1. /\ open # <<>> /\ start \in NodeIds /\ w \in WalksFrom(start) /\ l \in Nat /\ n = l + 1
    BY CurrentFacts, NextIsWalk DEF BfsInv
<1>2. \A x \in Wanted : x \in WalksFrom(start)
    BY DEF Wanted, WantedFor
<1>3. \A x \in Wanted : x.path = w.path => x = w
    BY <1>1, <1>2, OneWalk
<1>4. \A x \in Wanted : Begins(w.path, x.path) => n < Len(x.path)
    BY DEF Begins
<1> HIDE DEF v, n, l
<1>5. ASSUME class.answers = "any", v \in DOMAIN reached_final, NEW x \in Wanted, LastNode(x.path) = v
      PROVE  IsFound(x)
  <2>1. PICK i \in DOMAIN results : LastNode(results[i]) = v
      BY <1>5 DEF BfsAll, Remembered
  <2> QED BY <1>5, <2>1 DEF IsFound
<1>6. ASSUME class.answers = "shortest", v \in DOMAIN reached_final, NEW x \in Wanted, LastNode(x.path) = v,
             Begins(w.path, x.path) \/ (x.path = w.path /\ ~Queue!IsOptimal(w.path))
      PROVE  IsFound(x)
  <2>1. PICK i \in DOMAIN results : /\ LastNode(results[i]) = v /\ Len(results[i]) - 1 = reached_final[v]
                                    /\ Len(results[i]) \in Nat /\ Len(results[i]) <= l + 1
      BY <1>1, <1>6, BfsReachedFound DEF l
  <2>2. Len(results[i]) < Len(x.path)
    <3>1. CASE Begins(w.path, x.path)
      <4> DEFINE m == Len(x.path)
      <4>1. n < m /\ m \in Nat
          BY <1>1, <1>2, <1>4, <3>1, WalkLength
      <4> HIDE DEF m
      <4>2. Len(results[i]) < m
          BY <1>1, <2>1, <4>1
      <4> QED BY <4>2 DEF m
    <3>2. CASE x.path = w.path /\ ~Queue!IsOptimal(w.path)
      <4>1. reached_final[v] # n - 1
          BY <3>2, QueueNames DEF Queue!IsOptimal, Queue!Distance, v, n
      <4>2. Len(results[i]) < n
          BY <1>1, <2>1, <4>1
      <4> QED BY <3>2, <4>2 DEF n
    <3> QED BY <1>6, <3>1, <3>2
  <2> QED BY <1>6, <2>1, <2>2 DEF IsFound
<1> QED BY <1>3, <1>4, <1>5, <1>6 DEF v, n

\* What the classes can be.
LEMMA ClassFacts ==
    ASSUME class \in QueueClasses
    PROVE  /\ class.answers \in {"all", "any", "shortest"}
           /\ class.walks \in {"trails", "simple"}
           /\ class.check \in BOOLEAN /\ class.cyclic \in BOOLEAN
           /\ class.walks = "trails" => ~class.cyclic
BY DEF QueueClasses, StackClasses, AllTrails, AnyTrails, AllShortestTrails, AllSimple, AnySimple, AllShortestSimple

\* Once a check of the shortest paths has one, what goes on from w is too long.
LEMMA BfsStops ==
    ASSUME BfsInv, BfsOnce, BfsAll, pc = "expand", NEW r \in iter, NEW w, w = NextState(r),
           class.answers = "shortest", class.check, DOMAIN reached_final # {},
           NEW x \in Wanted, Begins(w.path, x.path)
    PROVE  IsFound(x)
<1> DEFINE n == Len(w.path)
           m == Len(x.path)
           l == Len(open[1].path)
<1>1. open # <<>> /\ start \in NodeIds /\ l \in Nat /\ n = l + 1
    BY CurrentFacts, NextIsWalk DEF BfsInv
<1>2. m \in Nat /\ n < m
    BY <1>1, WalkLength DEF Wanted, WantedFor, Begins
<1>3. PICK v \in DOMAIN reached_final : TRUE
    OBVIOUS
<1> HIDE DEF n, m, l
<1>4. PICK i \in DOMAIN results : Len(results[i]) \in Nat /\ Len(results[i]) <= l + 1
    BY <1>1, <1>3, BfsReachedFound DEF l
<1>5. LastNode(results[i]) = end /\ LastNode(x.path) = end
    BY DEF BfsAll, ResultsWanted, Wanted, WantedFor
<1>6. Len(results[i]) < m
    BY <1>1, <1>2, <1>4
<1> QED BY <1>5, <1>6 DEF IsFound, m

LEMMA BeginsKeeps ==
    ASSUME NEW q \in Seq(Steps), NEW p \in Seq(Steps), p = q \/ Begins(q, p), NEW i \in 1 .. Len(q)
    PROVE  i \in DOMAIN p /\ i \in 1 .. Len(p) /\ p[i] = q[i] /\ (Begins(q, p) => i # Len(p))
<1> DEFINE n == Len(q)
           m == Len(p)
<1>1. n \in Nat /\ m \in Nat /\ DOMAIN p = 1 .. m
    OBVIOUS
<1>2. p = q \/ (n < m /\ \A j \in 1 .. n : p[j] = q[j])
    BY DEF Begins
<1>3. n <= m /\ p[i] = q[i] /\ (Begins(q, p) => n < m)
    BY <1>1, <1>2 DEF Begins
<1> HIDE DEF n, m
<1>4. i \in 1 .. m /\ (n < m => i # m)
    BY <1>1, <1>3 DEF n
<1> QED BY <1>1, <1>3, <1>4 DEF n, m

LEMMA AppendChanges ==
    ASSUME NEW queue \in Seq(Entries), NEW w \in Entries
    PROVE  Append(queue, w) # queue /\ Append(queue, w) # <<>>
<1> DEFINE longer == Append(queue, w)
<1>1. Len(longer) = Len(queue) + 1 /\ Len(queue) \in Nat
    BY AppendProperties
<1> HIDE DEF longer
<1>2. Len(longer) # Len(queue) /\ Len(longer) # 0
    BY <1>1
<1> QED BY <1>2 DEF longer

LEMMA BfsAllVisitTrail ==
    ASSUME Deterministic, UniqueEdges, class \in QueueClasses, BfsInv, BfsOnce, BfsAll, Queue!VisitTrail
    PROVE  BfsAll'
<1>1. /\ pc = "expand" /\ class.walks = "trails"
      /\ UNCHANGED <<class, start, end, at_end, current_transition, first_next>>
    BY DEF Queue!VisitTrail, Queue!SelectsTrails
<1>2. PICK r \in iter :
          /\ iter' = iter \ {r}
          /\ \/ /\ ~is_trail(open[1].path, r.edge) \/ Queue!ShortestCheckSkips(NextState(r))
                /\ UNCHANGED <<open, reached_final, results>>
             \/ /\ is_trail(open[1].path, r.edge) /\ ~Queue!ShortestCheckSkips(NextState(r))
                /\ Queue!IsAnswer(NextState(r)) /\ Queue!TakeTrail(NextState(r))
             \/ /\ is_trail(open[1].path, r.edge) /\ ~Queue!ShortestCheckSkips(NextState(r))
                /\ ~Queue!IsAnswer(NextState(r)) /\ Queue!GoOn(NextState(r))
  <2>1. \A r : Queue!NextSearchState(Queue!Current, Queue!Outgoing[current_transition], r) = NextState(r)
      BY <1>1, CurrentFacts, QueueNames
         DEF Queue!Current, Queue!Outgoing, NextState, CurrentTransition
  <2>2. \A r : Queue!ExtendsTrail(Queue!Current.path, r.edge) <=> is_trail(open[1].path, r.edge)
      BY <1>1, CurrentFacts, QueueNames DEF Queue!Current, Queue!ExtendsTrail
  <2>3. PICK r \in iter :
            LET w == NextState(r)
                extends == is_trail(open[1].path, r.edge)
            IN  /\ iter' = iter \ {r}
                /\ \/ /\ ~extends \/ Queue!ShortestCheckSkips(w)
                      /\ UNCHANGED <<open, reached_final, results>>
                   \/ /\ extends /\ ~Queue!ShortestCheckSkips(w)
                      /\ IF Queue!IsAnswer(w) THEN Queue!TakeTrail(w) ELSE Queue!GoOn(w)
      BY <2>1, <2>2 DEF Queue!VisitTrail
  <2> QED BY <2>3
<1> DEFINE w == NextState(r)
           q == open[1].path
           l == Len(q)
<1>3. /\ w \in WalksFrom(start) /\ w \in Entries /\ w.path \in Seq(Steps) /\ q \in Seq(Steps)
      /\ l \in Nat \ {0} /\ Len(w.path) = l + 1
      /\ \A i \in 1 .. l : w.path[i] = q[i]
      /\ w.path[l + 1].edge = r.edge
      /\ open \in Seq(Entries) /\ open # <<>>
    BY <1>1, NextIsWalk, CurrentFacts DEF WalksFrom, QueueInv
<1>4. /\ class.answers \in {"all", "any", "shortest"} /\ class.check \in BOOLEAN /\ ~class.cyclic
    BY <1>1, ClassFacts
<1>5. /\ \A x \in Wanted : x.path = w.path => x = w
      /\ \A x \in Wanted : Begins(w.path, x.path) => Len(w.path) < Len(x.path)
      /\ class.answers = "any" /\ LastNode(w.path) \in DOMAIN reached_final =>
             \A x \in Wanted : LastNode(x.path) = LastNode(w.path) => IsFound(x)
      /\ class.answers = "shortest" /\ LastNode(w.path) \in DOMAIN reached_final =>
             \A x \in Wanted : /\ LastNode(x.path) = LastNode(w.path)
                               /\ Begins(w.path, x.path) \/ (x.path = w.path /\ ~Queue!IsOptimal(w.path))
                               => IsFound(x)
    BY <1>1, FoundNowFacts
<1>6. /\ \A x \in Wanted : x.path \in Seq(Steps) /\ IsTrail(x.path) /\ x.automaton_state \in FinalStates
      /\ class.check => \A x \in Wanted : LastNode(x.path) = end
  <2>1. \A x \in Wanted : x.path \in Seq(Steps)
      BY WalkLength DEF Wanted, WantedFor, BfsInv
  <2> QED BY <1>1, <2>1 DEF Wanted, WantedFor, Fits
<1>7. is_trail(q, r.edge) => IsTrail(w.path)
    BY <1>1, NextGrows DEF Grows
<1>8. Queue!IsOptimal(w.path) \/ LastNode(w.path) \in DOMAIN reached_final
    BY QueueNames DEF Queue!IsOptimal
<1>9. Append(open, w) # open /\ Append(open, w) # <<>>
    BY <1>3, AppendChanges
<1> HIDE DEF w
<1>10. CASE ~is_trail(q, r.edge) /\ UNCHANGED <<open, reached_final, results>>
  <2> HIDE DEF q, l
  <2>1. PICK i \in 1 .. l : q[i].edge = r.edge
      BY <1>3, <1>10 DEF is_trail, l
  <2>2. i \in 1 .. Len(w.path) /\ l + 1 \in 1 .. Len(w.path) /\ i # l + 1 /\ w.path[i].edge = w.path[l + 1].edge
      BY <1>3, <2>1
  <2>3. \A x \in Wanted : x.path # w.path /\ ~Begins(w.path, x.path)
    <3> SUFFICES ASSUME NEW x \in Wanted, x.path = w.path \/ Begins(w.path, x.path) PROVE FALSE
        OBVIOUS
    <3>1. i \in DOMAIN x.path /\ l + 1 \in DOMAIN x.path /\ x.path[i] = w.path[i] /\ x.path[l + 1] = w.path[l + 1]
        BY <1>3, <1>6, <2>2, BeginsKeeps
    <3> QED BY <1>6, <2>2, <3>1 DEF IsTrail
  <2> QED BY <1>1, <1>2, <1>3, <1>10, <2>3, BfsAllVisit DEF w
<1>11. CASE Queue!ShortestCheckSkips(w) /\ UNCHANGED <<open, reached_final, results>>
  <2>1. class.answers = "shortest" /\ class.check /\ LastNode(w.path) = end /\ ~Queue!IsOptimal(w.path)
      BY <1>11, QueueNames DEF Queue!ShortestCheckSkips, Queue!Shortest, Queue!Check
  <2>2. \A x \in Wanted : x.path = w.path \/ Begins(w.path, x.path) => IsFound(x)
      BY <1>5, <1>6, <1>8, <2>1
  <2> QED BY <1>1, <1>2, <1>3, <1>11, <2>2, BfsAllVisit DEF w, FoundNow
<1>12. CASE is_trail(q, r.edge) /\ Queue!IsAnswer(w) /\ Queue!TakeTrail(w)
  <2>1. /\ w.automaton_state \in FinalStates /\ (class.check => LastNode(w.path) = end)
        /\ class.answers = "shortest" => Queue!IsOptimal(w.path)
      BY <1>12, QueueNames
         DEF Queue!IsAnswer, Queue!All, Queue!Any, Queue!Shortest, Queue!Check, Queue!AllEnumAnswer,
             Queue!AllCheckAnswer, Queue!AnyEnumAnswer, Queue!AnyCheckAnswer, Queue!ShortestEnumAnswer,
             Queue!ShortestCheckAnswer, Queue!Final
  <2>2. w \in Wanted
      BY <1>1, <1>3, <1>7, <1>12, <2>1 DEF Wanted, WantedFor, Fits
  <2>3. /\ results' = Append(results, w.path)
        /\ reached_final' = reached_final \/ reached_final' = Queue!Reached(w.path)
        /\ class.answers = "shortest" => reached_final' = Queue!Reached(w.path)
        /\ \/ open' = <<>> /\ class.answers = "any" /\ class.check
           \/ open' = open /\ class.answers = "shortest" /\ class.check
           \/ open' = Append(open, w)
      BY <1>12 DEF Queue!TakeTrail, Queue!Return, Queue!All, Queue!Any, Queue!Shortest, Queue!Check,
                   Queue!Clear, Queue!Enqueue
  <2>4. \A x \in Wanted : x.path = w.path => FoundNow(w, x)
      BY <2>3 DEF FoundNow, CountsFor
  <2>5. open' = open => \A x \in Wanted : Begins(w.path, x.path) => FoundNow(w, x)
      BY <1>3, <1>5, <1>6, <1>9, <2>1, <2>3 DEF FoundNow, CountsFor
  <2>6. open' = <<>> => \A x \in Wanted : FoundNow(w, x)
      BY <1>3, <1>6, <1>9, <2>1, <2>3 DEF FoundNow, CountsFor
  <2> QED BY <1>1, <1>2, <2>1, <2>2, <2>3, <2>4, <2>5, <2>6, BfsAllVisit DEF w
<1>13. CASE ~Queue!IsAnswer(w) /\ Queue!GoOn(w)
  <2>1. /\ UNCHANGED <<results, reached_final>>
        /\ \/ open' = open /\ class.answers = "shortest" /\ class.check /\ DOMAIN reached_final # {}
           \/ open' = Append(open, w)
      BY <1>13 DEF Queue!GoOn, Queue!StopsGrowing, Queue!Shortest, Queue!Check, Queue!Enqueue
  <2>2. w \in Wanted => IsFound(w)
    <3> SUFFICES ASSUME w \in Wanted PROVE IsFound(w)
        OBVIOUS
    <3>1. w.automaton_state \in FinalStates /\ (class.check => LastNode(w.path) = end)
        BY <1>6
    <3>2. \/ class.answers = "any" /\ LastNode(w.path) \in DOMAIN reached_final
          \/ class.answers = "shortest" /\ ~Queue!IsOptimal(w.path)
        BY <1>4, <1>13, <3>1, QueueNames
           DEF Queue!IsAnswer, Queue!All, Queue!Any, Queue!Shortest, Queue!Check, Queue!AllEnumAnswer,
               Queue!AllCheckAnswer, Queue!AnyEnumAnswer, Queue!AnyCheckAnswer, Queue!ShortestEnumAnswer,
               Queue!ShortestCheckAnswer, Queue!Final
    <3> QED BY <1>5, <1>8, <3>2
  <2>3. \A x \in Wanted : x.path = w.path => FoundNow(w, x)
      BY <1>5, <2>2 DEF FoundNow
  <2>4. open' = open => \A x \in Wanted : Begins(w.path, x.path) => FoundNow(w, x)
      BY <1>1, <1>9, <2>1, BfsStops DEF FoundNow, w
  <2>5. open' # <<>>
      BY <1>3, <1>9, <2>1
  <2> QED BY <1>1, <1>2, <2>1, <2>3, <2>4, <2>5, BfsAllVisit DEF w
<1> QED BY <1>2, <1>10, <1>11, <1>12, <1>13 DEF w

\* What simple paths that are asked for look like.
LEMMA WantedSimple ==
    ASSUME class.walks = "simple", start \in NodeIds, NEW x \in Wanted
    PROVE  /\ x.path \in Seq(Steps) /\ Len(x.path) \in Nat \ {0} /\ x.path[1].node = start
           /\ x.automaton_state \in FinalStates
           /\ IsAcyclic(x.path) \/ (class.cyclic /\ IsCycle(x.path))
           /\ class.check => LastNode(x.path) = end
<1>1. x \in WalksFrom(start)
    BY DEF Wanted, WantedFor
<1>2. x.path \in Seq(Steps) /\ Len(x.path) \in Nat \ {0} /\ x.path[1].node = start
    BY <1>1, WalkLength, WalkSteps
<1> QED BY <1>2 DEF Wanted, WantedFor, Fits

\* None of them goes on from a path that visits a node again.
LEMMA NotAgain ==
    ASSUME class.walks = "simple", start \in NodeIds, NEW x \in Wanted, NEW q \in Seq(Steps),
           NEW i \in 1 .. Len(q), NEW j \in 1 .. Len(q), i < j, q[i].node = q[j].node
    PROVE  ~Begins(q, x.path)
<1> SUFFICES ASSUME Begins(q, x.path) PROVE FALSE
    OBVIOUS
<1> DEFINE p == x.path
<1>1. p \in Seq(Steps) /\ (IsAcyclic(p) \/ IsCycle(p)) /\ Begins(q, p)
    BY WantedSimple
<1> HIDE DEF p
<1>2. /\ i \in 1 .. Len(p) /\ j \in 1 .. Len(p) /\ p[i] = q[i] /\ p[j] = q[j] /\ j # Len(p)
    BY <1>1, BeginsKeeps
<1>3. p[i].node = p[j].node
    BY <1>2
<1> QED BY <1>1, <1>2, <1>3, VisitsAgain

\* Nor, for a check, from one that has reached the end node.
LEMMA NotPast ==
    ASSUME class.walks = "simple", class.check, start \in NodeIds, NEW x \in Wanted, NEW q \in Seq(Steps),
           Len(q) > 1, LastNode(q) = end
    PROVE  ~Begins(q, x.path)
<1> SUFFICES ASSUME Begins(q, x.path) PROVE FALSE
    OBVIOUS
<1> DEFINE p == x.path
           n == Len(q)
           m == Len(p)
<1>1. /\ p \in Seq(Steps) /\ (IsAcyclic(p) \/ IsCycle(p)) /\ Begins(q, p) /\ LastNode(p) = end
      /\ m \in Nat
    BY WantedSimple
<1>2. n \in Nat /\ n > 1 /\ n \in 1 .. n
    <2>1. n \in Nat /\ n > 1
        OBVIOUS
    <2> HIDE DEF n
    <2> QED BY <2>1
<1> HIDE DEF p
<1>3. n \in 1 .. m /\ p[n] = q[n] /\ n # m
    BY <1>1, <1>2, BeginsKeeps
<1>4. p[n].node = p[m].node
    BY <1>1, <1>3 DEF LastNode
<1> HIDE DEF n
<1>5. n < m /\ m \in 1 .. m /\ 1 \in 1 .. m /\ 1 < n
  <2> HIDE DEF m
  <2> QED BY <1>1, <1>2, <1>3
<1>6. IsCycle(p)
    BY <1>1, <1>3, <1>4, <1>5, VisitsAgain
<1>7. p[1].node = p[n].node
    BY <1>4, <1>6 DEF IsCycle, LastNode
<1> QED BY <1>1, <1>3, <1>5, <1>7, VisitsAgain

\* A step back to the first node makes a cycle of a path that has none.
LEMMA ClosesIt ==
    ASSUME NEW p \in Seq(Steps), Len(p) > 0, NEW x \in Steps, NEW q, q = Append(p, x), IsAcyclic(p),
           x.node = p[1].node
    PROVE  IsCycle(q)
<1> DEFINE n == Len(p)
           m == Len(q)
<1>1. m = n + 1 /\ n \in Nat /\ n > 0 /\ q[n + 1] = x /\ \A i \in 1 .. n : q[i] = p[i]
    BY AppendKeeps
<1>2. SubSeq(q, 1, m - 1) = p
    BY AppendProperties
<1> HIDE DEF n, m
<1>3. m > 1 /\ 1 \in 1 .. n
    BY <1>1
<1>4. q[m].node = q[1].node
    BY <1>1, <1>3
<1> QED BY <1>2, <1>3, <1>4 DEF IsCycle, LastNode, m

LEMMA BfsAllVisitSimple ==
    ASSUME Deterministic, UniqueEdges, class \in QueueClasses, BfsInv, BfsOnce, BfsAll, Queue!VisitSimple
    PROVE  BfsAll'
<1>1. /\ pc = "expand" /\ class.walks = "simple"
      /\ UNCHANGED <<class, start, end, at_end, current_transition, first_next>>
    BY DEF Queue!VisitSimple, Queue!SelectsSimple
<1>2. PICK r \in iter :
          LET simple == is_simple_path(open[1].path, r.node)
              w == NextState(r)
          IN  /\ iter' = iter \ {r}
              /\ \/ ~simple /\ Queue!ClosesCycle(w) /\ Queue!TakeSimple(w) /\ Queue!KeepQueue
                 \/ simple /\ Queue!CheckAnswer(w) /\ Queue!TakeSimple(w) /\ Queue!KeepQueue
                 \/ /\ ~simple /\ ~Queue!ClosesCycle(w)
                    /\ UNCHANGED <<open, reached_final, results>>
                 \/ /\ simple /\ Queue!ReachesEnd(w) /\ ~Queue!CheckAnswer(w)
                    /\ UNCHANGED <<open, reached_final, results>>
                 \/ /\ simple /\ ~Queue!ReachesEnd(w)
                    /\ IF Queue!StopsGrowing THEN UNCHANGED open ELSE Queue!Enqueue(w)
                    /\ IF Queue!EnumAnswer(w) THEN Queue!TakeSimple(w)
                                              ELSE UNCHANGED <<reached_final, results>>
  <2>1. \A r : Queue!NextSearchState(Queue!Current, Queue!Outgoing[current_transition], r) = NextState(r)
      BY <1>1, CurrentFacts, QueueNames
         DEF Queue!Current, Queue!Outgoing, NextState, CurrentTransition
  <2>2. \A r : Queue!is_simple_path(Queue!Current.path, r.node) <=> is_simple_path(open[1].path, r.node)
      BY <1>1, CurrentFacts, QueueNames DEF Queue!Current
  <2> QED BY <2>1, <2>2 DEF Queue!VisitSimple
<1> DEFINE w == NextState(r)
           q == open[1].path
           l == Len(q)
           simple == is_simple_path(q, r.node)
<1>3. /\ w \in WalksFrom(start) /\ w \in Entries /\ w.path \in Seq(Steps) /\ q \in Seq(Steps)
      /\ l \in Nat \ {0} /\ Len(w.path) = l + 1
      /\ \A i \in 1 .. l : w.path[i] = q[i]
      /\ w.path[l + 1].node = r.node /\ LastNode(w.path) = r.node /\ q[1].node = start
      /\ open \in Seq(Entries) /\ open # <<>> /\ start \in NodeIds
    BY <1>1, NextIsWalk, CurrentFacts DEF WalksFrom, QueueInv, BfsInv
<1>4. /\ class.answers \in {"all", "any", "shortest"} /\ class.check \in BOOLEAN /\ class.cyclic \in BOOLEAN
    BY <1>1, ClassFacts
<1>5. /\ \A x \in Wanted : x.path = w.path => x = w
      /\ class.answers = "any" /\ LastNode(w.path) \in DOMAIN reached_final =>
             \A x \in Wanted : LastNode(x.path) = LastNode(w.path) => IsFound(x)
      /\ class.answers = "shortest" /\ LastNode(w.path) \in DOMAIN reached_final =>
             \A x \in Wanted : /\ LastNode(x.path) = LastNode(w.path)
                               /\ Begins(w.path, x.path) \/ (x.path = w.path /\ ~Queue!IsOptimal(w.path))
                               => IsFound(x)
    BY <1>1, FoundNowFacts
<1>6. class.check => \A x \in Wanted : LastNode(x.path) = end
    BY DEF Wanted, WantedFor
<1>7. simple => IsAcyclic(w.path)
  <2>1. open[1] \in Entries /\ CurrentTransition \in Transition /\ IsAcyclic(open[1].path)
        /\ r \in GetIterator(CurrentTransition, LastNode(open[1].path))
      BY <1>1, CurrentFacts DEF Grows
  <2>2. w = NextSearchState(open[1], CurrentTransition, r)
      BY DEF NextState
  <2> HIDE DEF w
  <2> QED BY <2>1, <2>2, LongerEntry
<1>8. Queue!IsOptimal(w.path) \/ LastNode(w.path) \in DOMAIN reached_final
    BY QueueNames DEF Queue!IsOptimal
<1>9. Append(open, w) # open /\ Append(open, w) # <<>>
    BY <1>3, AppendChanges
<1>10. r.node = start => IsCycle(w.path) \/ simple
  <2>1. w.path = Append(q, StepTo(CurrentTransition, r)) /\ StepTo(CurrentTransition, r) \in Steps
      BY <1>1, NextIsWalk
  <2>2. IsAcyclic(q)
      BY <1>1, CurrentFacts DEF Grows
  <2>3. StepTo(CurrentTransition, r).node = r.node
      BY DEF StepTo
  <2>4. l > 0
      BY <1>3
  <2> HIDE DEF w, q
  <2> QED BY <1>3, <2>1, <2>2, <2>3, <2>4, ClosesIt
<1> HIDE DEF w
<1>11. ~simple => /\ \A x \in Wanted : ~Begins(w.path, x.path)
                  /\ ~IsAcyclic(w.path)
  <2> SUFFICES ASSUME ~simple PROVE (\A x \in Wanted : ~Begins(w.path, x.path)) /\ ~IsAcyclic(w.path)
      OBVIOUS
  <2>1. PICK i \in 1 .. l : q[i].node = r.node
    <3>1. \E i \in DOMAIN q : q[i].node = r.node
        BY DEF is_simple_path
    <3>2. DOMAIN q = 1 .. l
        BY <1>3
    <3> QED BY <3>1, <3>2
  <2> HIDE DEF q, l
  <2>2. /\ i \in 1 .. Len(w.path) /\ l + 1 \in 1 .. Len(w.path) /\ i < l + 1
        /\ w.path[i].node = w.path[l + 1].node
      BY <1>3, <2>1
  <2>3. \A x \in Wanted : ~Begins(w.path, x.path)
      BY <1>1, <1>3, <2>2, NotAgain
  <2>4. ~IsAcyclic(w.path)
    <3>1. i \in DOMAIN w.path /\ l + 1 \in DOMAIN w.path /\ i # l + 1
        BY <1>3, <2>2
    <3> QED BY <2>2, <3>1 DEF IsAcyclic
  <2> QED BY <2>3, <2>4
<1>12. Queue!ReachesEnd(w) => \A x \in Wanted : ~Begins(w.path, x.path)
  <2>1. Queue!ReachesEnd(w) => class.check /\ LastNode(w.path) = end
      BY QueueNames DEF Queue!ReachesEnd, Queue!Check
  <2>2. Len(w.path) > 1
    <3> HIDE DEF q, l
    <3> QED BY <1>3
  <2> QED BY <1>1, <1>3, <2>1, <2>2, NotPast
<1>13. Queue!TakeSimple(w) =>
           /\ results' = Append(results, w.path)
           /\ reached_final' = reached_final \/ reached_final' = Queue!Reached(w.path)
           /\ class.answers = "shortest" => reached_final' = Queue!Reached(w.path)
    BY DEF Queue!TakeSimple, Queue!Return, Queue!All, Queue!Any, Queue!Check
<1>14. Queue!KeepQueue => open' = open \/ (open' = <<>> /\ class.answers = "any" /\ class.check)
    BY DEF Queue!KeepQueue, Queue!Clear, Queue!Any, Queue!Check
<1>15. ASSUME w \in Wanted, \A x \in Wanted : ~Begins(w.path, x.path),
              class.answers = "shortest" => Queue!IsOptimal(w.path), Queue!TakeSimple(w), Queue!KeepQueue
       PROVE  BfsAll'
  <2>1. \A x \in Wanted : x.path = w.path => FoundNow(w, x)
      BY <1>13, <1>15 DEF FoundNow, CountsFor
  <2>2. open' = <<>> => \A x \in Wanted : FoundNow(w, x)
      BY <1>3, <1>6, <1>13, <1>14, <1>15 DEF FoundNow, CountsFor
  <2>3. open' = open => \A x \in Wanted : Begins(w.path, x.path) => FoundNow(w, x)
      BY <1>15
  <2> QED BY <1>1, <1>2, <1>13, <1>14, <1>15, <2>1, <2>2, <2>3, BfsAllVisit DEF w
<1>16. ASSUME \A x \in Wanted : ~Begins(w.path, x.path), w \in Wanted => IsFound(w),
              UNCHANGED <<open, reached_final, results>>
       PROVE  BfsAll'
  <2>1. \A x \in Wanted : x.path = w.path => FoundNow(w, x)
      BY <1>5, <1>16 DEF FoundNow
  <2> QED BY <1>1, <1>2, <1>3, <1>16, <2>1, BfsAllVisit DEF w
<1>17. CASE ~simple /\ Queue!ClosesCycle(w) /\ Queue!TakeSimple(w) /\ Queue!KeepQueue
  <2>1. /\ class.cyclic /\ w.automaton_state \in FinalStates /\ LastNode(w.path) = start
        /\ class.check => start = end
        /\ class.answers = "shortest" => Queue!IsOptimal(w.path)
      BY <1>4, <1>17, QueueNames
         DEF Queue!ClosesCycle, Queue!AllEnumCloses, Queue!CheckCloses, Queue!AnyEnumCloses, Queue!ShortestEnumCloses,
             Queue!ShortestCheckCloses, Queue!All, Queue!Any, Queue!Shortest, Queue!Check, Queue!Cyclic, Queue!Final
  <2>2. w \in Wanted
      BY <1>1, <1>3, <1>10, <1>17, <2>1 DEF Wanted, WantedFor, Fits
  <2> QED BY <1>11, <1>15, <1>17, <2>1, <2>2
<1>18. CASE simple /\ Queue!CheckAnswer(w) /\ Queue!TakeSimple(w) /\ Queue!KeepQueue
  <2>1. /\ Queue!ReachesEnd(w) /\ w.automaton_state \in FinalStates /\ LastNode(w.path) = end
        /\ class.answers = "shortest" => Queue!IsOptimal(w.path)
      BY <1>18, QueueNames DEF Queue!CheckAnswer, Queue!ReachesEnd, Queue!Shortest, Queue!Final
  <2>2. w \in Wanted
      BY <1>1, <1>3, <1>7, <1>18, <2>1 DEF Wanted, WantedFor, Fits
  <2> QED BY <1>12, <1>15, <1>18, <2>1, <2>2
<1>19. CASE ~simple /\ ~Queue!ClosesCycle(w) /\ UNCHANGED <<open, reached_final, results>>
  <2>1. ASSUME w \in Wanted PROVE IsFound(w)
    <3>1. /\ class.cyclic /\ w.automaton_state \in FinalStates /\ IsCycle(w.path)
          /\ class.check => LastNode(w.path) = end
        BY <1>1, <1>3, <1>11, <1>19, <2>1, WantedSimple
    <3>2. LastNode(w.path) = start
      <4>1. LastNode(w.path) = w.path[1].node
          BY <3>1 DEF IsCycle, LastNode
      <4>2. w.path[1].node = start
          BY <1>1, <1>3, <2>1, WantedSimple
      <4> QED BY <4>1, <4>2
    <3>3. \/ class.answers = "any" /\ start \in DOMAIN reached_final
          \/ class.answers = "shortest" /\ ~Queue!IsOptimal(w.path)
        BY <1>4, <1>19, <3>1, <3>2, QueueNames
           DEF Queue!ClosesCycle, Queue!AllEnumCloses, Queue!CheckCloses, Queue!AnyEnumCloses,
               Queue!ShortestEnumCloses, Queue!ShortestCheckCloses, Queue!All, Queue!Any, Queue!Shortest,
               Queue!Check, Queue!Cyclic, Queue!Final
    <3> QED BY <1>5, <1>8, <2>1, <3>2, <3>3
  <2> QED BY <1>11, <1>16, <1>19, <2>1
<1>20. CASE /\ simple /\ Queue!ReachesEnd(w) /\ ~Queue!CheckAnswer(w)
            /\ UNCHANGED <<open, reached_final, results>>
  <2>1. ASSUME w \in Wanted PROVE IsFound(w)
    <3>1. w.automaton_state \in FinalStates
        BY <1>1, <1>3, <2>1, WantedSimple
    <3>2. class.answers = "shortest" /\ ~Queue!IsOptimal(w.path)
        BY <1>20, <3>1 DEF Queue!CheckAnswer, Queue!Shortest, Queue!Final
    <3> QED BY <1>5, <1>8, <2>1, <3>2
  <2> QED BY <1>12, <1>16, <1>20, <2>1
<1>21. CASE /\ simple /\ ~Queue!ReachesEnd(w)
            /\ IF Queue!StopsGrowing THEN UNCHANGED open ELSE Queue!Enqueue(w)
            /\ IF Queue!EnumAnswer(w) THEN Queue!TakeSimple(w) ELSE UNCHANGED <<reached_final, results>>
  <2>1. \/ open' = open /\ class.answers = "shortest" /\ class.check /\ DOMAIN reached_final # {}
        \/ open' = Append(open, w)
      BY <1>21 DEF Queue!StopsGrowing, Queue!Shortest, Queue!Check, Queue!Enqueue
  <2>2. Queue!EnumAnswer(w) => /\ ~class.check /\ w.automaton_state \in FinalStates
                               /\ class.answers = "shortest" => Queue!IsOptimal(w.path)
      BY QueueNames DEF Queue!EnumAnswer, Queue!AllEnumAnswer, Queue!AnyEnumAnswer, Queue!ShortestEnumAnswer,
                        Queue!All, Queue!Any, Queue!Shortest, Queue!Check, Queue!Final
  <2>3. Queue!EnumAnswer(w) => w \in Wanted
      BY <1>1, <1>3, <1>7, <1>21, <2>2 DEF Wanted, WantedFor, Fits
  <2>4. ASSUME w \in Wanted, ~Queue!EnumAnswer(w) PROVE IsFound(w)
    <3>1. w.automaton_state \in FinalStates /\ ~class.check
        BY <1>1, <1>3, <1>4, <1>21, <2>4, WantedSimple, QueueNames DEF Queue!ReachesEnd, Queue!Check
    <3>2. \/ class.answers = "any" /\ LastNode(w.path) \in DOMAIN reached_final
          \/ class.answers = "shortest" /\ ~Queue!IsOptimal(w.path)
        BY <1>4, <2>4, <3>1, QueueNames
           DEF Queue!EnumAnswer, Queue!AllEnumAnswer, Queue!AnyEnumAnswer, Queue!ShortestEnumAnswer,
               Queue!All, Queue!Any, Queue!Shortest, Queue!Check, Queue!Final
    <3> QED BY <1>5, <1>8, <2>4, <3>2
  <2>5. \A x \in Wanted : x.path = w.path => FoundNow(w, x)
      BY <1>5, <1>13, <1>21, <2>4 DEF FoundNow, CountsFor
  <2>6. open' = open => \A x \in Wanted : Begins(w.path, x.path) => FoundNow(w, x)
      BY <1>1, <1>9, <2>1, BfsStops DEF FoundNow, w
  <2>7. open' # <<>>
      BY <1>3, <1>9, <2>1
  <2>8. \/ UNCHANGED <<results, reached_final>>
        \/ /\ results' = Append(results, w.path) /\ w \in Wanted
           /\ reached_final' = reached_final \/ reached_final' = Queue!Reached(w.path)
           /\ class.answers = "shortest" => Queue!IsOptimal(w.path) /\ reached_final' = Queue!Reached(w.path)
      BY <1>13, <1>21, <2>2, <2>3
  <2> QED BY <1>1, <1>2, <2>1, <2>5, <2>6, <2>7, <2>8, BfsAllVisit DEF w
<1> QED BY <1>2, <1>17, <1>18, <1>19, <1>20, <1>21 DEF w

\* The start node is an answer when its state is final, and what goes on from
\* the queue of the start node is all that is asked for but that.
LEMMA BfsStartFacts ==
    ASSUME start \in NodeIds
    PROVE  /\ FirstSearchState(start) \in WalksFrom(start) /\ First(start) \in Seq(Steps)
           /\ FirstSearchState(start).path = First(start) /\ Len(First(start)) = 1 /\ LastNode(First(start)) = start
           /\ FirstSearchState(start) \in Wanted <=> StartState \in FinalStates /\ (class.check => start = end)
           /\ \A x \in Wanted : /\ x.path \in Seq(Steps) /\ Len(x.path) \in Nat \ {0}
                                /\ Len(x.path) = 1 => x = FirstSearchState(start)
                                /\ Gone(x.path, <<FirstSearchState(start)>>, {}) => x = FirstSearchState(start)
<1> DEFINE w == FirstSearchState(start)
           p == First(start)
<1>1. /\ w \in WalksFrom(start) /\ w.path = p /\ w.automaton_state = StartState /\ p[1].node = start
      /\ Len(p) = 1 /\ IsTrail(p) /\ IsAcyclic(p)
  <2>1. w.path = p /\ w.automaton_state = StartState /\ p[1].node = start
      BY DEF FirstSearchState, First
  <2> QED BY <2>1, WalkFirst, StartEntry
<1>2. p \in Seq(Steps) /\ LastNode(p) = start
    BY <1>1, WalkLength DEF LastNode
<1> HIDE DEF w, p
<1>3. w \in Wanted <=> StartState \in FinalStates /\ (class.check => start = end)
    BY <1>1, <1>2 DEF Wanted, WantedFor, Fits
<1>4. ASSUME NEW x \in Wanted
      PROVE  /\ x.path \in Seq(Steps) /\ Len(x.path) \in Nat \ {0} /\ (Len(x.path) = 1 => x = w)
             /\ Gone(x.path, <<w>>, {}) => x = w
  <2>1. x \in WalksFrom(start)
      BY DEF Wanted, WantedFor
  <2>2. x.path \in Seq(Steps) /\ Len(x.path) \in Nat \ {0} /\ (Len(x.path) = 1 => x = w)
      BY <2>1, WalkLength DEF w
  <2>3. x.path[1] = p[1]
      BY <2>1, WalkSteps DEF p
  <2>4. ASSUME Len(x.path) # 1 PROVE ~Gone(x.path, <<w>>, {})
    <3>1. DOMAIN <<w>> = {1} /\ <<w>>[1] = w
        OBVIOUS
    <3> DEFINE m == Len(x.path)
    <3>2. m \in Nat \ {0} /\ m # 1
        BY <2>2, <2>4
    <3> HIDE DEF m
    <3>3. 1 < m /\ 1 .. 1 = {1}
        BY <3>2
    <3>4. Begins(w.path, x.path)
        BY <1>1, <2>3, <3>3 DEF Begins, m
    <3> QED BY <3>1, <3>4 DEF Gone
  <2> QED BY <2>2, <2>4
<1> QED BY <1>1, <1>2, <1>3, <1>4 DEF w, p

\* Before the first call.
LEMMA BfsBeforeFirst ==
    ASSUME BfsInv, BfsAll, first_next
    PROVE  /\ start \in NodeIds /\ open = <<FirstSearchState(start)>> /\ open # <<>> /\ at_end /\ Taken = {}
           /\ open \in Seq(Entries)
BY DEF BfsInv, BfsAll, Taken, QueueInv

LEMMA BfsAllStartMissing ==
    ASSUME BfsInv, BfsOnce, BfsAll, Queue!StartMissing PROVE BfsAll'
<1>1. /\ first_next /\ start \notin Nodes /\ ~first_next' /\ open' = Tail(open)
      /\ UNCHANGED <<class, start, end, results, reached_final>>
    BY DEF Queue!StartMissing, Queue!Pop
<1>2. open' = <<>>
  <2>1. open = <<FirstSearchState(start)>>
      BY <1>1, BfsBeforeFirst
  <2>2. Tail(<<FirstSearchState(start)>>) = <<>>
      OBVIOUS
  <2> QED BY <1>1, <2>1, <2>2
<1>3. results = <<>>
    BY <1>1 DEF BfsOnce
<1> QED BY <1>1, <1>2, <1>3, BfsAllClear

\* The start node is handed out.
LEMMA BfsAllReturnStart ==
    ASSUME class \in QueueClasses, BfsInv, BfsOnce, BfsAll, Queue!ReturnTrailStart \/ Queue!ReturnSimpleStart
    PROVE  BfsAll'
<1> DEFINE w == FirstSearchState(start)
           p == First(start)
<1>1. /\ first_next /\ ~first_next' /\ UNCHANGED <<class, start, end, iter, at_end, current_transition>>
      /\ start \in Nodes /\ StartState \in FinalStates /\ (class.check => start = end)
      /\ results' = Append(results, p)
      /\ \/ open' = open /\ reached_final' = reached_final /\ class.answers = "all"
         \/ open' = open /\ reached_final' = Queue!Reached(p) /\ class.answers # "all"
         \/ open' = <<>> /\ reached_final' = reached_final /\ class.answers # "all" /\ class.check
         \/ open' = <<>> /\ reached_final' = reached_final /\ class.answers = "all" /\ class.check
            /\ class.walks = "simple" /\ ~class.cyclic
    BY DEF Queue!ReturnTrailStart, Queue!ReturnSimpleStart, Queue!StartIsAnswer, Queue!SelectsSimple,
           Queue!AllStart, Queue!EnumStart, Queue!CheckStart, Queue!AllEnumStart, Queue!AllCheckStart,
           Queue!Return, Queue!Clear, Queue!All, Queue!Check, Queue!Cyclic, Queue!First, First, Queue!NoEdge, NoEdge
<1>2. /\ start \in NodeIds /\ open = <<w>> /\ open # <<>> /\ at_end /\ Taken = {}
    BY <1>1, BfsBeforeFirst
<1>3. /\ w \in Wanted /\ p \in Seq(Steps) /\ p = w.path /\ Len(p) = 1 /\ LastNode(p) = start
      /\ w \in WalksFrom(start)
      /\ \A x \in Wanted : /\ x.path \in Seq(Steps) /\ Len(x.path) \in Nat \ {0} /\ (Len(x.path) = 1 => x = w)
                           /\ Gone(x.path, open, {}) => x = w
    BY <1>1, <1>2, BfsStartFacts
<1>4. \A i \in DOMAIN open' : open'[i] \in WalksFrom(start)
  <2>1. open' = <<>> => DOMAIN open' = {}
      OBVIOUS
  <2> QED BY <1>1, <2>1 DEF BfsAll
<1>5. class.answers \in {"all", "any", "shortest"}
    BY ClassFacts
<1> HIDE DEF w, p
<1>6. ASSUME NEW x \in Wanted, Gone(x.path, open', Taken') PROVE CountsFor(p, x)
  <2>1. CASE open' = open
    <3>1. Taken' = {}
        BY <1>1, <1>2 DEF Taken
    <3> QED BY <1>3, <1>6, <2>1, <3>1 DEF CountsFor
  <2>2. CASE open' = <<>> /\ class.answers # "all" /\ class.check
    <3>1. LastNode(x.path) = start
        BY <1>1, <2>2 DEF Wanted, WantedFor
    <3>2. CASE Len(x.path) = 1
        BY <1>3, <3>2 DEF CountsFor
    <3>3. CASE Len(x.path) # 1
      <4> DEFINE m == Len(x.path)
      <4>1. m \in Nat \ {0} /\ m # 1
          BY <1>3, <3>3
      <4> HIDE DEF m
      <4>2. 1 < m
          BY <4>1
      <4> QED BY <1>3, <1>5, <2>2, <3>1, <4>2 DEF CountsFor, m
    <3> QED BY <3>2, <3>3
  <2>3. CASE class.check /\ class.walks = "simple" /\ ~class.cyclic
    <3>1. /\ x.path[1].node = start /\ LastNode(x.path) = start /\ IsAcyclic(x.path)
        BY <1>1, <1>2, <2>3, WantedSimple
    <3> DEFINE m == Len(x.path)
               q == x.path
    <3>2. m \in Nat \ {0} /\ q \in Seq(Steps) /\ DOMAIN q = 1 .. m
        BY <1>3
    <3> HIDE DEF m
    <3>3. 1 \in 1 .. m /\ m \in 1 .. m
        BY <3>2
    <3>4. m = 1
        BY <3>1, <3>2, <3>3 DEF IsAcyclic, LastNode, m
    <3> QED BY <1>3, <3>4 DEF CountsFor, m
  <2> QED BY <1>1, <2>1, <2>2, <2>3
<1>7. \A x \in Wanted : LastNode(x.path) = LastNode(p) => Len(p) <= Len(x.path)
  <2> SUFFICES ASSUME NEW x \in Wanted PROVE Len(p) <= Len(x.path)
      OBVIOUS
  <2> DEFINE m == Len(x.path)
  <2>1. m \in Nat \ {0}
      BY <1>3
  <2> HIDE DEF m
  <2>2. 1 <= m
      BY <2>1
  <2> QED BY <1>3, <2>2 DEF m
<1>8. class.answers = "shortest" /\ open' # <<>> => open # <<>> /\ reached_final' = Queue!Reached(p)
    BY <1>1, <1>2
<1>9. results \in Seq(Seq(Steps))
    BY DEF BfsOnce
<1>10. reached_final' = reached_final \/ reached_final' = Queue!Reached(p)
    BY <1>1
<1> QED BY <1>1, <1>3, <1>4, <1>6, <1>7, <1>8, <1>9, <1>10, BfsAllReturn

\* A check from a node to itself, of paths that visit no node twice.
LEMMA BfsAllNoAnswerAtEnd ==
    ASSUME BfsInv, BfsAll, Queue!NoAnswerAtEnd PROVE BfsAll'
<1>1. /\ class.walks = "simple" /\ first_next /\ ~first_next' /\ open' = <<>> /\ start \in Nodes
      /\ UNCHANGED <<class, start, end, results, reached_final>>
      /\ class.check /\ ~class.cyclic /\ start = end /\ StartState \notin FinalStates
    BY DEF Queue!NoAnswerAtEnd, Queue!SelectsSimple, Queue!Clear, Queue!StartIsAnswer, Queue!StartIsEnd,
           Queue!Check, Queue!Cyclic
<1>2. start \in NodeIds
    BY DEF BfsInv
<1>3. ASSUME NEW x \in Wanted PROVE FALSE
  <2> DEFINE m == Len(x.path)
             q == x.path
  <2>1. /\ q[1].node = start /\ q[m].node = start /\ IsAcyclic(q) /\ m \in Nat \ {0} /\ DOMAIN q = 1 .. m
      BY <1>1, <1>2, WantedSimple DEF LastNode
  <2> HIDE DEF m, q
  <2>2. 1 \in 1 .. m /\ m \in 1 .. m
      BY <2>1
  <2>3. m = 1
      BY <2>1, <2>2 DEF IsAcyclic
  <2>4. x = FirstSearchState(start)
      BY <1>2, <2>3, BfsStartFacts DEF m, q
  <2> QED BY <1>1, <1>2, <2>4, BfsStartFacts
<1> QED BY <1>1, <1>3, BfsAllClear

LEMMA BfsAllEnterLoop ==
    ASSUME BfsInv, BfsAll, NEW decided, Queue!EnterLoop(decided), Queue!StartIsAnswer => decided PROVE BfsAll'
<1>1. /\ UNCHANGED <<class, start, end, open, iter, at_end, current_transition, reached_final, results>>
      /\ ~first_next' /\ (first_next => start \in Nodes /\ ~decided) /\ Taken' = Taken
    BY DEF Queue!EnterLoop, BfsInv, Taken
<1>2. CASE ~first_next
  <2>1. CASE start \notin Nodes
      BY <1>1, <1>2, <2>1, BfsAllClear DEF BfsAll
  <2>2. CASE start \in Nodes
      BY <1>1, <1>2, <2>2, BfsAllKeep
  <2> QED BY <2>1, <2>2
<1>3. CASE first_next
  <2>1. open = <<FirstSearchState(start)>> /\ Taken = {} /\ start \in NodeIds
      BY <1>3, BfsBeforeFirst
  <2>2. ~(StartState \in FinalStates /\ (class.check => start = end))
      BY <1>1, <1>3 DEF Queue!StartIsAnswer, Queue!Check
  <2>3. ASSUME NEW x \in Wanted, Gone(x.path, open', Taken') PROVE FALSE
    <3>1. x = FirstSearchState(start)
        BY <1>1, <2>1, <2>3, BfsStartFacts
    <3> QED BY <2>1, <2>2, <3>1, BfsStartFacts
  <2>4. \A i \in DOMAIN open' : open'[i] \in WalksFrom(start)
      BY <1>1 DEF BfsAll
  <2> QED BY <1>1, <1>3, <2>3, <2>4, BfsAllQuiet
<1> QED BY <1>2, <1>3

LEMMA BfsAllStep ==
    ASSUME Deterministic, UniqueEdges, class \in QueueClasses, BfsInv, BfsOnce, BfsAll,
           \/ Queue!Pipeline \/ Queue!TrailStep \/ Queue!SimpleStep \/ Queue!Interrupt
           \/ \E n \in NodeIds, e \in EndsOf(class) : Queue!Reset(n, e)
    PROVE  BfsAll'
<1>1. CASE Queue!StartMissing
    BY <1>1, BfsAllStartMissing
<1>2. CASE Queue!Exhausted \/ Queue!ExpandResume \/ Queue!Interrupt
  <2>1. UNCHANGED <<class, start, end, open, first_next, results, reached_final>> /\ Taken' = Taken
      BY <1>2 DEF Queue!Exhausted, Queue!ExpandResume, Queue!Interrupt, Taken
  <2> QED BY <2>1, BfsAllSame
<1>3. CASE Queue!ExpandFirst
    BY <1>3, BfsAllExpandFirst
<1>4. CASE Queue!NextTransition
    BY <1>4, BfsAllNextTransition
<1>5. CASE Queue!ReturnTrailStart \/ Queue!ReturnSimpleStart
    BY <1>5, BfsAllReturnStart
<1>6. CASE Queue!NoAnswerAtEnd
    BY <1>6, BfsAllNoAnswerAtEnd
<1>7. CASE Queue!EnterLoop(Queue!StartIsAnswer) \/ Queue!EnterLoop(Queue!StartIsAnswer \/ Queue!StartIsEnd)
    BY <1>7, BfsAllEnterLoop
<1>8. CASE Queue!VisitTrail
    BY <1>8, BfsAllVisitTrail
<1>9. CASE Queue!VisitSimple
    BY <1>9, BfsAllVisitSimple
<1>10. CASE \E n \in NodeIds, e \in EndsOf(class) : Queue!Reset(n, e)
    BY <1>10, BfsAllReset
<1> QED BY <1>1, <1>2, <1>3, <1>4, <1>5, <1>6, <1>7, <1>8, <1>9, <1>10
        DEF Queue!Pipeline, Queue!TrailStep, Queue!SimpleStep

\* When the queue is empty every answer was handed out.
LEMMA BfsAllDone ==
    ASSUME BfsInv, BfsAll, open = <<>>
    PROVE  IF start \in Nodes THEN \A w \in Wanted : IsFound(w) ELSE results = <<>>
BY GoneEmpty DEF BfsInv, BfsAll, OthersGone

-----------------------------------------------------------------------------
(* What either kind of operator has handed out, and what it should.        *)

\* What a step does that a parent can tell: nothing is handed out, one more path
\* is, the operator is reset, or it is at its end.
Ended == {"interrupted", "undefined"}

Quietly ==
    /\ UNCHANGED <<class, start, end, results>> /\ pc \notin Ended
    /\ open = <<>> => open' = <<>>

HandsOut ==
    /\ UNCHANGED <<class, start, end>> /\ pc \notin Ended /\ pc' = "ready" /\ open # <<>>
    /\ ~breadth_first => open' # <<>>
    /\ \E p \in Seq(Steps) : results' = Append(results, p)

StartsAgain ==
    /\ class' = class /\ start' \in NodeIds /\ end' \in EndsOf(class)
    /\ results' = <<>> /\ open' # <<>> /\ pc' = "ready"

Ends == UNCHANGED <<class, start, end, results, open>> /\ pc' \in Ended

LEMMA DfsHandsOut ==
    ASSUME DfsInv', DfsAll', DfsOnce, results' = Append(results, Stack!PathOf(open')), class' = class
    PROVE  open' # <<>> /\ \E p \in Seq(Steps) : results' = Append(results, p)
<1> DEFINE p == Stack!PathOf(open')
<1>1. open' \in Seq(Frames) /\ start' \in NodeIds /\ results \in Seq(Seq(Steps))
    BY DEF DfsInv, StackInv, DfsOnce
<1>2. p \in Seq(Steps) /\ Len(p) = Len(open')
    BY <1>1, PathOfStack
<1> HIDE DEF p
<1>3. \E i \in DOMAIN results' : results'[i] = p
    BY <1>1, <1>2, FoundMore DEF p
<1>4. PICK w \in Wanted' : p = w.path
    BY <1>3 DEF DfsAll, ResultsWanted
<1>5. w \in WalksFrom(start')
    BY DEF Wanted, WantedFor
<1>6. Len(p) \in Nat \ {0}
    BY <1>1, <1>4, <1>5, WalkLength
<1>7. open' # <<>>
  <2>1. open' = <<>> => Len(open') = 0
      OBVIOUS
  <2> QED BY <1>2, <1>6, <2>1
<1> QED BY <1>2, <1>7 DEF p

LEMMA DfsKinds ==
    ASSUME DfsInv, DfsOnce, DfsInv', DfsAll', ~breadth_first,
           \/ Stack!Pipeline \/ Stack!TrailStep \/ Stack!SimpleStep \/ Stack!Interrupt
           \/ \E n \in NodeIds : \E e \in EndsOf(class) : Stack!Reset(n, e)
    PROVE  Quietly \/ HandsOut \/ StartsAgain \/ Ends
<1>1. ASSUME UNCHANGED <<class, start, end>>, pc \notin Ended, open # <<>>, Stack!Return(open') PROVE HandsOut
  <2>1. results' = Append(results, Stack!PathOf(open')) /\ pc' = "ready"
      BY <1>1 DEF Stack!Return
  <2> QED BY <1>1, <2>1, DfsHandsOut DEF HandsOut
<1>2. CASE Stack!ReturnStart
  <2>1. /\ UNCHANGED <<class, start, end, open>> /\ pc \notin Ended /\ open # <<>> /\ Stack!Return(open')
      BY <1>2 DEF Stack!ReturnStart, Ended, DfsInv
  <2> QED BY <1>1, <2>1
<1>3. CASE Stack!VisitTrail \/ Stack!VisitSimple
  <2>1. UNCHANGED <<class, start, end>> /\ pc \notin Ended /\ open # <<>>
      BY <1>3 DEF Stack!VisitTrail, Stack!VisitSimple, Ended, DfsInv
  <2>2. results' = results \/ Stack!Return(open')
      BY <1>3 DEF Stack!VisitTrail, Stack!VisitSimple, Stack!Reach
  <2> QED BY <1>1, <2>1, <2>2 DEF Quietly
<1>4. CASE Stack!StartMissing \/ Stack!NextTransition
  <2>1. open # <<>>
      BY <1>4 DEF Stack!StartMissing, Stack!NextTransition, DfsInv
  <2> QED BY <1>4, <2>1 DEF Stack!StartMissing, Stack!NextTransition, Quietly, Ended
<1>5. CASE Stack!Exhausted
    BY <1>5 DEF Stack!Exhausted, Quietly, Ended
<1>6. CASE Stack!StopAfterAnswer \/ Stack!StopAtEnd \/ Stack!NoAnswerAtEnd \/ Stack!DropCycle
    BY <1>6 DEF Stack!StopAfterAnswer, Stack!StopAtEnd, Stack!NoAnswerAtEnd, Stack!DropCycle, Stack!Clear,
                Quietly, Ended
<1>7. ASSUME NEW b, Stack!EnterLoop(b) \/ Stack!ExpandFirst(b) \/ Stack!ExpandResume(b) PROVE Quietly
    BY <1>7 DEF Stack!EnterLoop, Stack!ExpandFirst, Stack!ExpandResume, Quietly, Ended
<1>8. CASE Stack!Interrupt
    BY <1>8 DEF Stack!Interrupt, Ends, Ended
<1>9. CASE \E n \in NodeIds : \E e \in EndsOf(class) : Stack!Reset(n, e)
  <2>1. PICK n \in NodeIds : \E e \in EndsOf(class) : Stack!Reset(n, e)
      BY <1>9
  <2>2. PICK e \in EndsOf(class) : Stack!Reset(n, e)
      BY <2>1
  <2>3. /\ class' = class /\ start' = n /\ end' = e /\ results' = <<>> /\ pc' = "ready"
        /\ open' = <<Stack!Frame(StartState, n, Stack!NoEdge, FALSE)>>
      BY <2>2 DEF Stack!Reset
  <2>4. open' # <<>>
      BY <2>3
  <2> QED BY <2>3, <2>4 DEF StartsAgain
<1>10. Stack!Pipeline => Quietly \/ HandsOut \/ StartsAgain \/ Ends
    BY <1>2, <1>4, <1>5 DEF Stack!Pipeline
<1>11. Stack!TrailStep => Quietly \/ HandsOut \/ StartsAgain \/ Ends
    BY <1>3, <1>6, <1>7 DEF Stack!TrailStep
<1>12. Stack!SimpleStep => Quietly \/ HandsOut \/ StartsAgain \/ Ends
    BY <1>3, <1>6, <1>7 DEF Stack!SimpleStep
<1> QED BY <1>8, <1>9, <1>10, <1>11, <1>12

LEMMA BfsKinds ==
    ASSUME BfsInv, BfsOnce, BfsAll, breadth_first,
           \/ Queue!Pipeline \/ Queue!TrailStep \/ Queue!SimpleStep \/ Queue!Interrupt
           \/ \E n \in NodeIds, e \in EndsOf(class) : Queue!Reset(n, e)
    PROVE  Quietly \/ HandsOut \/ StartsAgain \/ Ends
<1>1. CASE Queue!ReturnTrailStart \/ Queue!ReturnSimpleStart
  <2>1. /\ UNCHANGED <<class, start, end>> /\ pc \notin Ended /\ pc' = "ready" /\ first_next
        /\ results' = Append(results, First(start))
      BY <1>1 DEF Queue!ReturnTrailStart, Queue!ReturnSimpleStart, Queue!Return, Ended, Queue!First, First,
                  Queue!NoEdge, NoEdge
  <2>2. open # <<>> /\ First(start) \in Seq(Steps)
      BY <2>1, BfsBeforeFirst, BfsStartFacts
  <2> QED BY <2>1, <2>2 DEF HandsOut
<1>2. CASE Queue!VisitTrail \/ Queue!VisitSimple
  <2>1. pc = "expand" /\ UNCHANGED <<class, start, end>> /\ pc \notin Ended /\ open # <<>>
      BY <1>2 DEF Queue!VisitTrail, Queue!VisitSimple, Ended, BfsInv
  <2>2. \A r : Queue!NextSearchState(Queue!Current, Queue!Outgoing[current_transition], r) = NextState(r)
      BY <2>1, CurrentFacts, QueueNames
         DEF Queue!Current, Queue!Outgoing, NextState, CurrentTransition
  <2>3. results' = results \/ \E r \in iter : Queue!Return(NextState(r).path)
      BY <1>2, <2>2 DEF Queue!VisitTrail, Queue!VisitSimple, Queue!TakeTrail, Queue!TakeSimple, Queue!GoOn
  <2>4. \A r \in iter : NextState(r).path \in Seq(Steps)
      BY <2>1, NextIsWalk
  <2> QED BY <2>1, <2>3, <2>4 DEF Queue!Return, Quietly, HandsOut
<1>3. CASE Queue!StartMissing \/ Queue!NextTransition
  <2>1. open # <<>>
      BY <1>3 DEF Queue!StartMissing, Queue!NextTransition, BfsInv
  <2> QED BY <1>3, <2>1 DEF Queue!StartMissing, Queue!NextTransition, Quietly, Ended
<1>4. CASE Queue!Exhausted \/ Queue!ExpandFirst \/ Queue!ExpandResume \/ Queue!NoAnswerAtEnd
    BY <1>4 DEF Queue!Exhausted, Queue!ExpandFirst, Queue!ExpandResume, Queue!NoAnswerAtEnd, Queue!Clear,
                Quietly, Ended
<1>5. ASSUME NEW b, Queue!EnterLoop(b) PROVE Quietly
    BY <1>5 DEF Queue!EnterLoop, Quietly, Ended
<1>6. CASE Queue!Interrupt
    BY <1>6 DEF Queue!Interrupt, Ends, Ended
<1>7. CASE \E n \in NodeIds, e \in EndsOf(class) : Queue!Reset(n, e)
  <2>1. PICK n \in NodeIds, e \in EndsOf(class) : Queue!Reset(n, e)
      BY <1>7
  <2>2. CASE Queue!StartAt(n, e)
    <3>1. /\ class' = class /\ start' = n /\ end' = e /\ results' = <<>> /\ pc' = "ready"
          /\ open' = <<FirstSearchState(n)>>
        BY <2>2, QueueNames DEF Queue!StartAt
    <3>2. open' # <<>>
        BY <3>1
    <3> QED BY <3>1, <3>2 DEF StartsAgain
  <2>3. CASE pc' = "undefined" /\ UNCHANGED <<class, start, end, results, open>>
      BY <2>3 DEF Ends, Ended
  <2> QED BY <2>1, <2>2, <2>3 DEF Queue!Reset
<1>8. Queue!Pipeline => Quietly \/ HandsOut \/ StartsAgain \/ Ends
    BY <1>3, <1>4 DEF Queue!Pipeline
<1>9. Queue!TrailStep => Quietly \/ HandsOut \/ StartsAgain \/ Ends
    BY <1>1, <1>2, <1>5 DEF Queue!TrailStep
<1>10. Queue!SimpleStep => Quietly \/ HandsOut \/ StartsAgain \/ Ends
    BY <1>1, <1>2, <1>4, <1>5 DEF Queue!SimpleStep
<1> QED BY <1>6, <1>7, <1>8, <1>9, <1>10

-----------------------------------------------------------------------------
(* Either kind of operator keeps its promise.                              *)

AllInv ==
    /\ IF breadth_first THEN BfsAll ELSE DfsAll /\ class \in StackClasses
    /\ <<class, start, end>> \in Inputs

LEMMA InputFacts ==
    <<class, start, end>> \in Inputs <=> class \in Classes /\ start \in NodeIds /\ end \in EndsOf(class)
BY DEF Inputs, EndsOf

LEMMA InputFactsNext ==
    <<class', start', end'>> \in Inputs <=> class' \in Classes /\ start' \in NodeIds /\ end' \in EndsOf(class')
BY DEF Inputs, EndsOf

LEMMA AllInvInit == Init => AllInv
<1> SUFFICES ASSUME Init PROVE AllInv
    OBVIOUS
<1>1. <<class, start, end>> \in Inputs
  <2>1. \A c : EndsOf(c) = Queue!EndsOf(c) /\ EndsOf(c) = Stack!EndsOf(c)
      BY DEF EndsOf, Queue!EndsOf, Stack!EndsOf, Queue!NoEnd, Stack!NoEnd, NoEnd
  <2> QED BY <2>1, InputFacts DEF Init, Queue!Init, Stack!Init
<1>2. CASE breadth_first /\ Queue!Init
  <2>1. start \in NodeIds /\ results = <<>> /\ reached_final = <<>> /\ first_next /\ open = <<FirstSearchState(start)>>
      BY <1>2, QueueNames DEF Queue!Init
  <2> QED BY <1>1, <1>2, <2>1, BfsAllNothing DEF AllInv
<1>3. CASE ~breadth_first /\ Stack!Init /\ class \in StackClasses
    BY <1>1, <1>3, DfsAllInit DEF AllInv
<1> QED BY <1>2, <1>3 DEF Init

LEMMA AllInvStep ==
    ASSUME Deterministic, UniqueEdges, Classes \subseteq QueueClasses, Inv, OnceInv, AllInv, Inv', Next
    PROVE  AllInv' /\ (Quietly \/ HandsOut \/ StartsAgain \/ Ends)
<1>1. class \in QueueClasses
    BY InputFacts DEF AllInv
<1>2. ASSUME Quietly \/ HandsOut \/ StartsAgain \/ Ends
      PROVE  class' = class /\ <<class', start', end'>> \in Inputs
  <2>1. class' = class /\ (start' \in NodeIds \/ start' = start) /\ (end' \in EndsOf(class) \/ end' = end)
      BY <1>2 DEF Quietly, HandsOut, StartsAgain, Ends
  <2> QED BY <2>1, InputFacts, InputFactsNext DEF AllInv
<1>3. CASE /\ breadth_first /\ breadth_first'
           /\ \/ Queue!Pipeline \/ Queue!TrailStep \/ Queue!SimpleStep \/ Queue!Interrupt
              \/ \E n \in NodeIds, e \in EndsOf(class) : Queue!Reset(n, e)
  <2>1. BfsInv /\ BfsOnce /\ BfsAll
      BY <1>3 DEF Inv, OnceInv, AllInv
  <2>2. BfsAll'
      BY <1>1, <1>3, <2>1, BfsAllStep
  <2>3. Quietly \/ HandsOut \/ StartsAgain \/ Ends
      BY <1>3, <2>1, BfsKinds
  <2> QED BY <1>2, <1>3, <2>2, <2>3 DEF AllInv
<1>4. CASE /\ ~breadth_first /\ ~breadth_first'
           /\ \/ Stack!Pipeline \/ Stack!TrailStep \/ Stack!SimpleStep \/ Stack!Interrupt
              \/ \E n \in NodeIds : \E e \in EndsOf(class) : Stack!Reset(n, e)
  <2>1. DfsInv /\ DfsInv' /\ DfsOnce /\ DfsAll /\ class \in StackClasses
      BY <1>4 DEF Inv, OnceInv, AllInv
  <2>2. DfsAll'
      BY <1>4, <2>1, DfsAllStep
  <2>3. Quietly \/ HandsOut \/ StartsAgain \/ Ends
      BY <1>4, <2>1, <2>2, DfsKinds
  <2> QED BY <1>2, <1>4, <2>1, <2>2, <2>3 DEF AllInv
<1> QED BY <1>3, <1>4 DEF Next, Search, BreadthFirst, DepthFirst

LEMMA AllInvStutter == ASSUME AllInv, UNCHANGED once_vars PROVE AllInv'
<1>1. BfsAll => BfsAll'
  <2>1. UNCHANGED <<class, start, end, open, first_next, results, reached_final>> /\ Taken' = Taken
      BY DEF once_vars, inv_vars, Taken
  <2> QED BY <2>1, BfsAllSame
<1>2. DfsAll => DfsAll'
  <2>1. UNCHANGED <<class, start, end, open, first_next, results, reached_final>>
      BY DEF once_vars, inv_vars
  <2> QED BY <2>1, DfsAllSame
<1> QED BY <1>1, <1>2 DEF AllInv, once_vars, inv_vars

\* Only answers are handed out, and when nothing is left to be searched all of them.
LEMMA HandedExpected ==
    ASSUME FiniteAssumption, Classes \subseteq QueueClasses, Inv, OnceInv, AllInv,
           NEW input, input = <<class, start, end>>
    PROVE  /\ Handed \subseteq Expected[input]
           /\ open = <<>> /\ ~MayGiveUp => Handed = Expected[input]
<1> DEFINE paths == {w.path : w \in Wanted}
           asked == IF class.answers = "shortest" THEN ShortestOf(paths) ELSE paths
<1>1. /\ start \notin Nodes => Expected[input] = {}
      /\ start \in Nodes => Expected[input] = {AnswerOf(class, p) : p \in asked}
  <2>1. input \in Inputs
      BY DEF AllInv
  <2> HIDE DEF paths
  <2>2. paths = {w.path : w \in WantedFor(class, start, end)}
      BY DEF paths, Wanted
  <2> QED BY <2>1, <2>2, ExpectedWanted
<1>2. /\ ResultsWanted /\ start \in NodeIds
      /\ start \notin Nodes => results = <<>>
      /\ class.answers = "shortest" => ShortestFirst
  <2>1. CASE breadth_first
      BY <2>1 DEF Inv, OnceInv, AllInv, BfsInv, BfsOnce, BfsAll
  <2>2. CASE ~breadth_first
    <3>1. class.answers # "shortest"
        BY <2>2 DEF AllInv, StackClasses, AllTrails, AnyTrails, AllSimple, AnySimple
    <3> QED BY <2>2, <3>1 DEF Inv, AllInv, DfsInv, DfsAll
  <2> QED BY <2>1, <2>2
<1>3. \A p \in paths : Len(p) \in Nat /\ \E w \in Wanted : p = w.path
    BY <1>2, WalkLength DEF Wanted, WantedFor
<1>4. \A i \in DOMAIN results : results[i] \in asked
  <2> SUFFICES ASSUME NEW i \in DOMAIN results PROVE results[i] \in asked
      OBVIOUS
  <2>1. results[i] \in paths
      BY <1>2 DEF ResultsWanted
  <2>2. CASE class.answers = "shortest"
    <3>1. \A x \in paths : LastNode(x) = LastNode(results[i]) => Len(results[i]) <= Len(x)
        BY <1>2, <2>2 DEF ShortestFirst
    <3> QED BY <2>1, <2>2, <3>1 DEF ShortestOf
  <2> QED BY <2>1, <2>2
<1>5. Handed \subseteq Expected[input]
  <2>1. CASE start \notin Nodes
    <3>1. DOMAIN results = {}
        BY <1>2, <2>1
    <3> QED BY <3>1 DEF Handed
  <2>2. CASE start \in Nodes
    <3> HIDE DEF asked
    <3> QED BY <1>1, <1>4, <2>2 DEF Handed
  <2> QED BY <2>1, <2>2
<1>6. ASSUME open = <<>>, ~MayGiveUp PROVE Expected[input] \subseteq Handed
  <2>1. start \in Nodes => \A w \in Wanted : IsFound(w)
    <3>1. CASE breadth_first
        BY <1>6, <3>1, BfsAllDone DEF Inv, AllInv
    <3>2. CASE ~breadth_first
        BY <1>6, <3>2, DfsAllDone DEF Inv, AllInv, MayGiveUp, GivesUp
    <3> QED BY <3>1, <3>2
  <2>2. ASSUME start \in Nodes, NEW p \in asked PROVE AnswerOf(class, p) \in Handed
    <3>1. p \in paths /\ (class.answers = "shortest" =>
                              \A x \in paths : LastNode(x) = LastNode(p) => Len(p) <= Len(x))
        BY <2>2 DEF ShortestOf
    <3>2. PICK w \in Wanted : p = w.path
        BY <3>1
    <3>3. PICK i \in DOMAIN results :
              \/ results[i] = p
              \/ /\ LastNode(results[i]) = LastNode(p)
                 /\ \/ class.answers = "any"
                    \/ class.answers = "shortest" /\ Len(results[i]) < Len(p)
        BY <2>1, <2>2, <3>2 DEF IsFound
    <3>4. ~(class.answers = "shortest" /\ LastNode(results[i]) = LastNode(p) /\ Len(results[i]) < Len(p))
      <4>1. results[i] \in paths
          BY <1>2 DEF ResultsWanted
      <4>2. Len(results[i]) \in Nat /\ Len(p) \in Nat
          BY <1>3, <3>1, <4>1
      <4>3. class.answers = "shortest" /\ LastNode(results[i]) = LastNode(p) => Len(p) <= Len(results[i])
          BY <3>1, <4>1
      <4> HIDE DEF paths
      <4> QED BY <4>2, <4>3
    <3>5. AnswerOf(class, results[i]) = AnswerOf(class, p)
        BY <3>3, <3>4 DEF AnswerOf
    <3> QED BY <3>5 DEF Handed
  <2> HIDE DEF asked
  <2> QED BY <1>1, <2>2
<1> QED BY <1>5, <1>6

LEMMA HandedFacts ==
    FiniteAssumption /\ Classes \subseteq QueueClasses /\ Inv /\ OnceInv /\ AllInv =>
        /\ Handed \subseteq Expected[<<class, start, end>>]
        /\ open = <<>> /\ ~MayGiveUp => Handed = Expected[<<class, start, end>>]
BY HandedExpected

Promise == INSTANCE Enumeration WITH
    input <- <<class, start, end>>, reported <- Handed, status <- Status

LEMMA HandedNone == ASSUME results = <<>> PROVE Handed = {}
<1>1. DOMAIN results = {}
    OBVIOUS
<1> QED BY <1>1 DEF Handed

LEMMA HandedNoneNext == ASSUME results' = <<>> PROVE Handed' = {}
<1>1. DOMAIN results' = {}
    OBVIOUS
<1> QED BY <1>1 DEF Handed

\* One more path is one more answer.
LEMMA HandedMore ==
    ASSUME results \in Seq(Seq(Steps)), NEW p \in Seq(Steps), results' = Append(results, p), class' = class, NoneTwice'
    PROVE  Handed' = Handed \cup {AnswerOf(class, p)} /\ AnswerOf(class, p) \notin Handed
<1> DEFINE n == Len(results)
           a == AnswerOf(class, p)
<1>1. /\ n \in Nat /\ DOMAIN results = 1 .. n /\ DOMAIN results' = 1 .. n + 1 /\ results'[n + 1] = p
      /\ \A i \in 1 .. n : results'[i] = results[i]
  <2>1. /\ results' \in Seq(Seq(Steps)) /\ Len(results') = Len(results) + 1
        /\ results'[Len(results) + 1] = p
        /\ \A i \in 1 .. Len(results) : results'[i] = results[i]
      BY AppendProperties
  <2> QED BY <2>1
<1> HIDE DEF n
<1>2. /\ \A i \in 1 .. n + 1 : i \in 1 .. n \/ i = n + 1
      /\ \A i \in 1 .. n : i \in 1 .. n + 1 /\ i # n + 1
      /\ n + 1 \in 1 .. n + 1
    BY <1>1
<1>3. \A i, j \in DOMAIN results' : AnswerOf(class, results'[i]) = AnswerOf(class, results'[j]) => i = j
    BY DEF NoneTwice, AnswerOf
<1>4. Handed' = {AnswerOf(class, results'[i]) : i \in DOMAIN results'}
    BY DEF Handed, AnswerOf
<1>5. a \notin Handed
  <2> SUFFICES ASSUME NEW i \in DOMAIN results, AnswerOf(class, results[i]) = a PROVE FALSE
      BY DEF Handed
  <2> QED BY <1>1, <1>2, <1>3
<1> QED BY <1>1, <1>2, <1>4, <1>5 DEF Handed

LEMMA PromiseInit == Init => Promise!Init
<1> SUFFICES ASSUME Init PROVE Promise!Init
    OBVIOUS
<1>1. <<class, start, end>> \in Inputs
    BY AllInvInit DEF AllInv
<1>2. results = <<>> /\ pc = "ready"
    BY DEF Init, Queue!Init, Stack!Init
<1>3. open # <<>>
  <2>1. open = <<Queue!FirstSearchState(start)>> \/ open = <<Stack!Frame(StartState, start, Stack!NoEdge, FALSE)>>
      BY DEF Init, Queue!Init, Stack!Init
  <2> QED BY <2>1, OneNotEmpty
<1> QED BY <1>1, <1>2, <1>3, HandedNone DEF Promise!Init, Status

\* Every step is one the promise allows: a path that is handed out is an answer
\* that was not, and only when all were does the search end.
LEMMA PromiseStep ==
    ASSUME Deterministic, UniqueEdges, FiniteAssumption, Classes \subseteq QueueClasses,
           Inv, OnceInv, AllInv, Inv', OnceInv', AllInv', Next
    PROVE  Promise!Next \/ UNCHANGED Promise!vars
<1> DEFINE input == <<class, start, end>>
<1>1. breadth_first' = breadth_first
    BY DEF Next, Search, BreadthFirst, DepthFirst
<1>2. /\ Handed \subseteq Expected[input]
      /\ open = <<>> /\ ~MayGiveUp => Handed = Expected[input]
    BY HandedFacts
<1>3. /\ Handed' \subseteq Expected[input']
      /\ open' = <<>> /\ ~MayGiveUp' => Handed' = Expected[input']
  <2>1. (FiniteAssumption /\ Classes \subseteq QueueClasses /\ Inv /\ OnceInv /\ AllInv =>
             /\ Handed \subseteq Expected[<<class, start, end>>]
             /\ open = <<>> /\ ~MayGiveUp => Handed = Expected[<<class, start, end>>])'
      BY HandedFacts, PTL
  <2> QED BY <2>1
<1>4. CASE Quietly
  <2>1. Handed' = Handed /\ input' = input /\ MayGiveUp' = MayGiveUp /\ pc \notin Ended
        /\ (open = <<>> => open' = <<>>)
      BY <1>1, <1>4 DEF Quietly, Handed, AnswerOf, MayGiveUp
  <2> HIDE DEF input
  <2>2. CASE Status' = "aborted"
      BY <2>1, <2>2 DEF Promise!Next, Promise!Abort, input
  <2>3. CASE Status' # "aborted"
    <3>1. /\ Status' = IF open' = <<>> THEN "done" ELSE "open"
          /\ open' = <<>> => ~MayGiveUp'
        BY <2>3 DEF Status
    <3>2. Status = IF open = <<>> THEN "done" ELSE "open"
        BY <2>1, <3>1 DEF Status, Ended
    <3>3. CASE open' = <<>> /\ open # <<>>
      <4>1. Handed = Expected[input]
          BY <1>3, <2>1, <3>1, <3>3 DEF input
      <4> QED BY <2>1, <3>1, <3>2, <3>3, <4>1 DEF Promise!Next, Promise!Finish, input
    <3>4. CASE (open' = <<>>) <=> (open = <<>>)
        BY <2>1, <3>1, <3>2, <3>4 DEF Promise!vars, input
    <3> QED BY <2>1, <3>3, <3>4
  <2> QED BY <2>2, <2>3
<1>5. CASE HandsOut
  <2>1. PICK p \in Seq(Steps) : results' = Append(results, p)
      BY <1>5 DEF HandsOut
  <2> DEFINE a == AnswerOf(class, p)
  <2>2. Handed' = Handed \cup {a} /\ a \notin Handed
    <3>1. results \in Seq(Seq(Steps)) /\ NoneTwice'
        BY DEF OnceInv, BfsOnce, DfsOnce
    <3> QED BY <1>5, <2>1, <3>1, HandedMore DEF HandsOut
  <2>3. input' = input /\ MayGiveUp' = MayGiveUp /\ pc \notin Ended /\ pc' = "ready" /\ open # <<>>
        /\ (MayGiveUp => open' # <<>>)
      BY <1>1, <1>5 DEF HandsOut, MayGiveUp
  <2> HIDE DEF input, a
  <2>4. Status = "open" /\ Status' = IF open' = <<>> THEN "done" ELSE "open"
      BY <2>3 DEF Status, Ended
  <2>5. a \in Expected[input]
      BY <1>3, <2>2, <2>3 DEF input
  <2>6. Status' = "done" => Handed' = Expected[input]
      BY <1>3, <2>3, <2>4 DEF input
  <2>7. Promise!Report(a)
      BY <2>2, <2>3, <2>4, <2>5, <2>6 DEF Promise!Report, input
  <2> QED BY <2>5, <2>7 DEF Promise!Next, input
<1>6. CASE StartsAgain
  <2>1. Handed' = {} /\ input' \in Inputs
      BY <1>6, HandedNoneNext DEF StartsAgain, AllInv
  <2>2. Status' = "open"
      BY <1>6 DEF StartsAgain, Status
  <2> QED BY <2>1, <2>2 DEF Promise!Next, Promise!Restart
<1>7. CASE Ends
  <2>1. Handed' = Handed /\ input' = input /\ Status' = "aborted"
      BY <1>7 DEF Ends, Ended, Handed, AnswerOf, Status
  <2> QED BY <2>1 DEF Promise!Next, Promise!Abort
<1> QED BY <1>4, <1>5, <1>6, <1>7, AllInvStep

LEMMA PromiseStutter == UNCHANGED once_vars => UNCHANGED Promise!vars
BY DEF once_vars, inv_vars, Promise!vars, Handed, AnswerOf, Status, MayGiveUp
=============================================================================
