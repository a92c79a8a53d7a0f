------------------------- MODULE AnyOperatorsProofs -------------------------
(***************************************************************************)
(* Proofs about AnyOperators, for every graph and every automaton: the     *)
(* depth-first searches keep a path on their stack and expand completely   *)
(* what they take off it, BFSCheck hands out a shortest path, and all of   *)
(* them hand out the answers to their input, each once (Enumeration).      *)
(***************************************************************************)
EXTENDS AnyOperators, BreadthFirst, TLAPS

USE GraphAssumption, AutomatonAssumption

all_vars == <<vars, iter, current_transition>>

LEMMA IteratorNodes ==
    ASSUME NEW t \in Transition, NEW n, NEW r \in GetIterator(t, n)
    PROVE  r.node \in Nodes
BY DEF GetIterator, Transition

-----------------------------------------------------------------------------
(* Stacks of frames over a set of visited states, without the variables.   *)

Records == UNION {GetIterator(t, n) : t \in Transition, n \in NodeIds}

Frames == [state : SearchStates, transition : Nat, iter : SUBSET Records, at_end : BOOLEAN]

\* What the transitions up to that of the frame lead to was visited, but for
\* the records its iterator still holds.
Explored(f, seen) ==
    \A k \in 1 .. f.transition :
        \A r \in GetIterator(Connections[f.state[1]][k], f.state[2]) :
            \/ k = f.transition /\ r \in f.iter
            \/ <<Connections[f.state[1]][k].to, r.node>> \in seen

FrameInv(f, seen) ==
    /\ f.state \in seen
    /\ ~f.at_end =>
           /\ f.transition \in 1 .. Len(Connections[f.state[1]])
           /\ f.iter \subseteq GetIterator(Connections[f.state[1]][f.transition], f.state[2])
           /\ Explored(f, seen)

StackInv(stack, previous) ==
    /\ stack \in Seq(Frames)
    /\ \A i \in DOMAIN stack : FrameInv(stack[i], DOMAIN previous)
    /\ \A i \in 1 .. Len(stack) - 1 :
           /\ previous[stack[i + 1].state] = stack[i].state
           /\ Step(stack[i].state, stack[i + 1].state)

\* What left the stack has no unvisited successor.
LeftInv(stack, previous) ==
    \A p \in DOMAIN previous : \A q \in Product :
        (\A i \in DOMAIN stack : stack[i].state # p) /\ Step(p, q) => q \in DOMAIN previous

\* changed is the stack with another frame for the same state on top.
Retop(changed, stack, f) ==
    /\ changed \in Seq(Frames) /\ Len(changed) = Len(stack)
    /\ \A i \in 1 .. Len(stack) - 1 : changed[i] = stack[i]
    /\ changed[Len(stack)] = f
    /\ f.state = stack[Len(stack)].state

LEMMA TopFrame ==
    ASSUME NEW previous, NEW stack, StackInv(stack, previous), stack # <<>>
    PROVE  /\ Len(stack) \in DOMAIN stack /\ stack[Len(stack)] \in Frames
           /\ stack[Len(stack)].state \in DOMAIN previous
           /\ stack[Len(stack)].state \in SearchStates
           /\ stack[Len(stack)].state[1] \in States
           /\ Connections[stack[Len(stack)].state[1]] \in Seq(Transition)
<1>1. Len(stack) \in DOMAIN stack /\ stack[Len(stack)] \in Frames
    BY StackTop DEF StackInv
<1>2. stack[Len(stack)].state \in DOMAIN previous
    BY <1>1 DEF StackInv, FrameInv
<1>3. stack[Len(stack)].state \in SearchStates
    BY <1>1 DEF Frames
<1>4. stack[Len(stack)].state[1] \in States
    BY <1>3 DEF SearchStates
<1> QED BY <1>1, <1>2, <1>3, <1>4

\* A frame at its last transition with nothing to come has no unvisited successor.
LEMMA FrameExpanded ==
    ASSUME NEW f, NEW seen, FrameInv(f, seen), ~f.at_end, f.iter = {}, f.state[1] \in States,
           ~(f.transition < Len(Connections[f.state[1]])),
           NEW q \in Product, Step(f.state, q)
    PROVE  q \in seen
<1> DEFINE outgoing == Connections[f.state[1]]
<1>1. outgoing \in Seq(Transition)
    OBVIOUS
<1>2. f.transition \in 1 .. Len(outgoing) /\ Explored(f, seen)
    BY DEF FrameInv
<1>3. DOMAIN outgoing = 1 .. f.transition
    BY <1>1, <1>2
<1>4. PICK k \in DOMAIN outgoing :
          q[1] = outgoing[k].to /\ \E r \in GetIterator(outgoing[k], f.state[2]) : q[2] = r.node
    BY DEF Step
<1>5. PICK r \in GetIterator(outgoing[k], f.state[2]) : q[2] = r.node
    BY <1>4
<1>6. q = <<outgoing[k].to, r.node>>
    BY <1>4, <1>5 DEF Product
<1> QED BY <1>2, <1>3, <1>5, <1>6 DEF Explored

LEMMA StackPop ==
    ASSUME NEW previous, NEW stack, StackInv(stack, previous), stack # <<>>
    PROVE  /\ StackInv(SubSeq(stack, 1, Len(stack) - 1), previous)
           /\ LeftInv(stack, previous)
              /\ (\A q \in Product : Step(stack[Len(stack)].state, q) => q \in DOMAIN previous) =>
                  LeftInv(SubSeq(stack, 1, Len(stack) - 1), previous)
<1> DEFINE rest == SubSeq(stack, 1, Len(stack) - 1)
<1>1. /\ rest \in Seq(Frames) /\ Len(rest) = Len(stack) - 1 /\ Len(stack) \in Nat \ {0}
      /\ \A i \in 1 .. Len(stack) - 1 : rest[i] = stack[i]
      /\ DOMAIN stack = 1 .. Len(stack)
    BY StackTop DEF StackInv
<1>2. DOMAIN rest = 1 .. Len(stack) - 1
    BY <1>1
<1> HIDE DEF rest
<1>3. StackInv(rest, previous)
    <2>1. \A i \in DOMAIN rest : FrameInv(rest[i], DOMAIN previous)
        BY <1>1, <1>2 DEF StackInv
    <2>2. ASSUME NEW i \in 1 .. Len(rest) - 1
          PROVE  /\ previous[rest[i + 1].state] = rest[i].state
                 /\ Step(rest[i].state, rest[i + 1].state)
        <3>1. i \in 1 .. Len(stack) - 1 /\ rest[i] = stack[i] /\ rest[i + 1] = stack[i + 1]
            BY <1>1, <2>2
        <3> QED BY <3>1 DEF StackInv
    <2> QED BY <1>1, <2>1, <2>2 DEF StackInv
<1>4. ASSUME LeftInv(stack, previous), NEW p \in DOMAIN previous, NEW q \in Product,
             \A x \in Product : Step(stack[Len(stack)].state, x) => x \in DOMAIN previous,
             \A i \in DOMAIN rest : rest[i].state # p, Step(p, q)
      PROVE  q \in DOMAIN previous
    <2>1. CASE p = stack[Len(stack)].state
        BY <1>4, <2>1
    <2>2. CASE p # stack[Len(stack)].state
        <3>1. \A i \in DOMAIN stack : i \in DOMAIN rest \/ i = Len(stack)
            BY <1>1, <1>2
        <3>2. \A i \in DOMAIN stack : stack[i].state # p
            BY <1>1, <1>2, <1>4, <2>2, <3>1
        <3> QED BY <1>4, <3>2 DEF LeftInv
    <2> QED BY <2>1, <2>2
<1>5. LeftInv(stack, previous)
      /\ (\A q \in Product : Step(stack[Len(stack)].state, q) => q \in DOMAIN previous) =>
          LeftInv(rest, previous)
    BY <1>4 DEF LeftInv
<1> QED BY <1>3, <1>5 DEF rest

\* A frame of the same state on top, while other states may be visited.
LEMMA StackRetop ==
    ASSUME NEW previous, NEW stack, StackInv(stack, previous), stack # <<>>,
           NEW new, DOMAIN previous \subseteq DOMAIN new,
           \A x \in DOMAIN previous : new[x] = previous[x],
           NEW f, FrameInv(f, DOMAIN new), NEW changed, Retop(changed, stack, f)
    PROVE  /\ StackInv(changed, new)
           /\ \A i \in DOMAIN stack : i \in DOMAIN changed /\ changed[i].state = stack[i].state
           /\ DOMAIN changed = DOMAIN stack
<1>1. /\ Len(stack) \in Nat \ {0} /\ DOMAIN stack = 1 .. Len(stack) /\ stack \in Seq(Frames)
      /\ changed \in Seq(Frames) /\ DOMAIN changed = 1 .. Len(stack) /\ Len(changed) = Len(stack)
    BY StackTop DEF StackInv, Retop
<1>2. \A i \in 1 .. Len(stack) : changed[i].state = stack[i].state
    <2> DEFINE n == Len(stack)
    <2>1. n \in Nat /\ changed[n] = f /\ (\A i \in 1 .. n - 1 : changed[i] = stack[i])
          /\ f.state = stack[n].state
        BY <1>1 DEF Retop
    <2> HIDE DEF n
    <2>2. \A i \in 1 .. n : i = n \/ i \in 1 .. n - 1
        BY <2>1
    <2>3. \A i \in 1 .. n : changed[i].state = stack[i].state
        BY <2>1, <2>2
    <2> QED BY <2>3 DEF n
<1>3. \A i \in 1 .. Len(stack) : stack[i].state \in DOMAIN previous
    BY <1>1 DEF StackInv, FrameInv
<1> DEFINE n == Len(stack)
<1>a. n \in Nat /\ DOMAIN stack = 1 .. n
    BY <1>1
<1>b. changed[n] = f /\ \A i \in 1 .. n - 1 : changed[i] = stack[i]
    BY DEF Retop
<1> HIDE DEF n
<1>4. ASSUME NEW i \in 1 .. n PROVE FrameInv(changed[i], DOMAIN new)
    <2>1. CASE i = n
        BY <1>b, <2>1
    <2>2. CASE i # n
        <3>1. i \in 1 .. n - 1
            BY <1>a, <2>2
        <3>2. changed[i] = stack[i] /\ FrameInv(stack[i], DOMAIN previous)
            BY <1>a, <1>b, <3>1 DEF StackInv
        <3> QED BY <3>2 DEF FrameInv, Explored
    <2> QED BY <2>1, <2>2
<1> USE DEF n
<1>5. ASSUME NEW i \in 1 .. Len(stack) - 1
      PROVE  /\ new[changed[i + 1].state] = changed[i].state
             /\ Step(changed[i].state, changed[i + 1].state)
    <2>1. i \in 1 .. Len(stack) /\ i + 1 \in 1 .. Len(stack)
        BY <1>1
    <2>2. /\ previous[stack[i + 1].state] = stack[i].state
          /\ Step(stack[i].state, stack[i + 1].state)
        BY DEF StackInv
    <2> QED BY <1>2, <1>3, <2>1, <2>2
<1>6. StackInv(changed, new)
    BY <1>1, <1>4, <1>5 DEF StackInv
<1> QED BY <1>1, <1>2, <1>6

\* A new frame for a state found from the one on top.
LEMMA StackPush ==
    ASSUME NEW previous, NEW stack, StackInv(stack, previous), stack # <<>>,
           NEW p \in SearchStates, p \in DOMAIN previous,
           previous[p] = stack[Len(stack)].state, Step(stack[Len(stack)].state, p)
    PROVE  /\ StackInv(Append(stack, Frame(p)), previous)
           /\ \A i \in DOMAIN stack :
                  i \in DOMAIN Append(stack, Frame(p)) /\ Append(stack, Frame(p))[i] = stack[i]
           /\ \E i \in DOMAIN Append(stack, Frame(p)) : Append(stack, Frame(p))[i].state = p
<1> DEFINE f == Frame(p)
           longer == Append(stack, f)
<1>1. f \in Frames /\ f.state = p /\ f.at_end
    BY DEF Frame, Frames
<1>2. stack \in Seq(Frames) /\ Len(stack) \in Nat \ {0} /\ DOMAIN stack = 1 .. Len(stack)
    BY StackTop DEF StackInv
<1> HIDE DEF f
<1>3. /\ longer \in Seq(Frames) /\ Len(longer) = Len(stack) + 1
      /\ \A i \in 1 .. Len(stack) : longer[i] = stack[i]
      /\ longer[Len(stack) + 1] = f
    BY <1>1, <1>2, AppendProperties
<1>4. DOMAIN longer = 1 .. Len(stack) + 1
    BY <1>2, <1>3
<1> HIDE DEF longer
<1>5. ASSUME NEW i \in DOMAIN longer PROVE FrameInv(longer[i], DOMAIN previous)
    <2>1. CASE i = Len(stack) + 1
        BY <1>1, <1>3, <2>1 DEF FrameInv
    <2>2. CASE i # Len(stack) + 1
        BY <1>2, <1>3, <1>4, <2>2 DEF StackInv
    <2> QED BY <2>1, <2>2
<1>6. ASSUME NEW i \in 1 .. Len(longer) - 1
      PROVE  /\ previous[longer[i + 1].state] = longer[i].state
             /\ Step(longer[i].state, longer[i + 1].state)
    <2>1. CASE i = Len(stack)
        BY <1>1, <1>2, <1>3, <2>1
    <2>2. CASE i # Len(stack)
        <3>1. i \in 1 .. Len(stack) - 1 /\ longer[i] = stack[i] /\ longer[i + 1] = stack[i + 1]
            BY <1>2, <1>3, <2>2
        <3> QED BY <3>1 DEF StackInv
    <2> QED BY <2>1, <2>2
<1>7. StackInv(longer, previous)
    BY <1>3, <1>5, <1>6 DEF StackInv
<1>8. /\ \A i \in DOMAIN stack : i \in DOMAIN longer /\ longer[i] = stack[i]
      /\ \E i \in DOMAIN longer : longer[i].state = p
    BY <1>1, <1>2, <1>3, <1>4
<1> QED BY <1>7, <1>8 DEF longer, f

LEMMA StackExcept ==
    ASSUME NEW stack \in Seq(Frames), stack # <<>>, NEW f \in Frames,
           f.state = stack[Len(stack)].state
    PROVE  Retop([stack EXCEPT ![Len(stack)] = f], stack, f)
<1> DEFINE n == Len(stack)
           changed == [stack EXCEPT ![n] = f]
<1>1. n \in Nat \ {0} /\ DOMAIN stack = 1 .. n
    BY StackTop
<1>2. changed \in Seq(Frames) /\ Len(changed) = n
    BY <1>1
<1> HIDE DEF n
<1>a. \A i \in 1 .. n - 1 : i \in DOMAIN stack /\ i # n
    BY <1>1
<1>b. n \in DOMAIN stack
    BY <1>1
<1>3. changed[n] = f /\ \A i \in 1 .. n - 1 : changed[i] = stack[i]
    BY <1>a, <1>b, ExceptFacts
<1> USE DEF n
<1> HIDE DEF changed
<1>4. Retop(changed, stack, f)
    BY <1>2, <1>3 DEF Retop
<1> QED BY <1>4 DEF changed

\* The frame set_iter() leaves on top.
AtTransition(f, k) ==
    [f EXCEPT !.transition = k, !.iter = GetIterator(Connections[f.state[1]][k], f.state[2]),
              !.at_end = FALSE]

LEMMA SetIterTop ==
    ASSUME NEW stack \in Seq(Frames), stack # <<>>, NEW k \in Nat
    PROVE  SetIter([stack EXCEPT ![Len(stack)].transition = k]) =
               [stack EXCEPT ![Len(stack)] = AtTransition(stack[Len(stack)], k)]
<1> DEFINE n == Len(stack)
           f == stack[n]
           moved == [stack EXCEPT ![n].transition = k]
<1>1. n \in Nat \ {0} /\ DOMAIN stack = 1 .. n /\ f \in Frames
    BY StackTop
<1>a. n \in DOMAIN stack
    BY <1>1
<1>b. DOMAIN moved = 1 .. n /\ moved[n] = [f EXCEPT !.transition = k]
    <2> HIDE DEF n
    <2> QED BY <1>1, <1>a, ExceptFacts
<1>2. Len(moved) = n /\ DOMAIN moved = 1 .. n /\ moved[n] = [f EXCEPT !.transition = k]
    BY <1>1, <1>b
<1>3. moved[n].state = f.state /\ moved[n].transition = k
    BY <1>1, <1>2 DEF Frames
<1> HIDE DEF moved
<1>4. SetIter(moved) =
          [moved EXCEPT ![n].iter = GetIterator(Connections[f.state[1]][k], f.state[2]),
                        ![n].at_end = FALSE]
    BY <1>2, <1>3 DEF SetIter
<1>5. SetIter(moved) =
          [moved EXCEPT ![n] = [moved[n] EXCEPT
              !.iter = GetIterator(Connections[f.state[1]][k], f.state[2]), !.at_end = FALSE]]
    BY <1>1, <1>2, <1>4
<1>6. SetIter(moved) = [moved EXCEPT ![n] = AtTransition(f, k)]
    BY <1>2, <1>5 DEF AtTransition
<1>7. [moved EXCEPT ![n] = AtTransition(f, k)] = [stack EXCEPT ![n] = AtTransition(f, k)]
    BY DEF moved
<1> QED BY <1>6, <1>7 DEF moved

-----------------------------------------------------------------------------
(* What the steps of expand_neighbors() do to a stack.                     *)

\* What left the stack stays expanded while the stack keeps its states and
\* holds every new one.
LEMMA LeftKept ==
    ASSUME NEW previous, NEW stack, LeftInv(stack, previous),
           NEW new, NEW longer, DOMAIN previous \subseteq DOMAIN new,
           \A i \in DOMAIN stack : \E j \in DOMAIN longer : longer[j].state = stack[i].state,
           \A x \in DOMAIN new : x \in DOMAIN previous \/ \E j \in DOMAIN longer : longer[j].state = x
    PROVE  LeftInv(longer, new)
BY DEF LeftInv

\* set_iter() for the next transition of the state on top.
LEMMA StackMove ==
    ASSUME NEW previous, NEW stack, StackInv(stack, previous), stack # <<>>,
           NEW k \in 1 .. Len(Connections[stack[Len(stack)].state[1]]),
           \/ k = 1
           \/ /\ ~stack[Len(stack)].at_end /\ stack[Len(stack)].iter = {}
              /\ k = stack[Len(stack)].transition + 1
    PROVE  /\ StackInv(SetIter([stack EXCEPT ![Len(stack)].transition = k]), previous)
           /\ LeftInv(stack, previous) =>
                  LeftInv(SetIter([stack EXCEPT ![Len(stack)].transition = k]), previous)
           /\ LET new == SetIter([stack EXCEPT ![Len(stack)].transition = k])
              IN  new # <<>> /\ ~new[Len(new)].at_end
<1> DEFINE f == stack[Len(stack)]
           g == AtTransition(f, k)
           moved == [stack EXCEPT ![Len(stack)] = g]
<1>1. /\ f \in Frames /\ f.state \in DOMAIN previous /\ f.state[1] \in States
      /\ Connections[f.state[1]] \in Seq(Transition) /\ stack \in Seq(Frames)
      /\ f.state[2] \in NodeIds /\ Len(stack) \in DOMAIN stack
    BY TopFrame DEF StackInv, SearchStates
<1>2. k \in Nat /\ k \in DOMAIN Connections[f.state[1]]
    BY <1>1
<1>3. Connections[f.state[1]][k] \in Transition
    BY <1>1, <1>2
<1> HIDE DEF f
<1>a. GetIterator(Connections[f.state[1]][k], f.state[2]) \subseteq Records
    BY <1>1, <1>3 DEF Records
<1>4. /\ g.state = f.state /\ g.transition = k /\ ~g.at_end
      /\ g.iter = GetIterator(Connections[f.state[1]][k], f.state[2]) /\ g \in Frames
    BY <1>1, <1>2, <1>a DEF AtTransition, Frames
<1> HIDE DEF g
<1>5. FrameInv(f, DOMAIN previous)
    BY <1>1 DEF StackInv, f
<1>6. Explored(g, DOMAIN previous)
    <2>1. CASE k = 1
        BY <1>4, <2>1 DEF Explored
    <2>2. CASE k # 1
        <3>1. f.iter = {} /\ k = f.transition + 1 /\ Explored(f, DOMAIN previous)
            BY <2>2, <1>5 DEF FrameInv, f
        <3>2. f.transition \in Nat
            BY <1>1 DEF Frames
        <3>3. \A j \in 1 .. k : j = k \/ j \in 1 .. f.transition
            BY <3>1, <3>2
        <3> QED BY <1>4, <3>1, <3>3 DEF Explored
    <2> QED BY <2>1, <2>2
<1>b. /\ g.state \in DOMAIN previous
      /\ g.transition \in 1 .. Len(Connections[g.state[1]])
      /\ g.iter \subseteq GetIterator(Connections[g.state[1]][g.transition], g.state[2])
    BY <1>1, <1>4 DEF f
<1>7. FrameInv(g, DOMAIN previous)
    BY <1>6, <1>b DEF FrameInv
<1>8. Retop(moved, stack, g)
    BY <1>1, <1>4, StackExcept DEF f
<1>9. /\ StackInv(moved, previous)
      /\ \A i \in DOMAIN stack : i \in DOMAIN moved /\ moved[i].state = stack[i].state
    <2> HIDE DEF moved
    <2> QED BY <1>7, <1>8, StackRetop
<1>10. SetIter([stack EXCEPT ![Len(stack)].transition = k]) = moved
    BY <1>1, <1>2, SetIterTop DEF f, g
<1>11. moved # <<>> /\ ~moved[Len(moved)].at_end
    BY <1>1, <1>4, <1>8 DEF Retop
<1> HIDE DEF moved
<1>12. LeftInv(stack, previous) => LeftInv(moved, previous)
    BY <1>9, LeftKept
<1> QED BY <1>9, <1>10, <1>11, <1>12

\* The stack once the record r was taken from the iterator on top.
Consumed(stack, r) == [stack EXCEPT ![Len(stack)].iter = @ \ {r}]

\* The state a record of the iterator of f leads to.
Reached(f, r) == <<Connections[f.state[1]][f.transition].to, r.node>>

LEMMA StackConsume ==
    ASSUME NEW previous, NEW stack, StackInv(stack, previous), stack # <<>>,
           ~stack[Len(stack)].at_end, NEW r \in stack[Len(stack)].iter,
           NEW new, DOMAIN previous \subseteq DOMAIN new,
           \A x \in DOMAIN previous : new[x] = previous[x],
           Reached(stack[Len(stack)], r) \in DOMAIN new
    PROVE  /\ StackInv(Consumed(stack, r), new)
           /\ \A i \in DOMAIN stack :
                  /\ i \in DOMAIN Consumed(stack, r)
                  /\ Consumed(stack, r)[i].state = stack[i].state
           /\ Len(Consumed(stack, r)) = Len(stack) /\ Consumed(stack, r) # <<>>
           /\ ~Consumed(stack, r)[Len(stack)].at_end
           /\ Reached(stack[Len(stack)], r) \in Product
           /\ Step(stack[Len(stack)].state, Reached(stack[Len(stack)], r))
<1> DEFINE f == stack[Len(stack)]
           g == [f EXCEPT !.iter = @ \ {r}]
           p == Reached(f, r)
           outgoing == Connections[f.state[1]]
<1>1. /\ f \in Frames /\ f.state \in DOMAIN previous /\ f.state[1] \in States
      /\ outgoing \in Seq(Transition) /\ stack \in Seq(Frames)
      /\ Len(stack) \in DOMAIN stack
    BY TopFrame DEF StackInv
<1>2. FrameInv(f, DOMAIN previous)
    BY <1>1 DEF StackInv
<1>3. Consumed(stack, r) = [stack EXCEPT ![Len(stack)] = g]
    BY <1>1 DEF Consumed
<1>4. Len(stack) \in Nat \ {0}
    BY <1>1, StackTop
<1> HIDE DEF f, outgoing
<1>5. /\ g \in Frames /\ g.state = f.state /\ g.transition = f.transition
      /\ g.iter = f.iter \ {r} /\ g.at_end = f.at_end
    BY <1>1 DEF Frames
<1>6. /\ f.transition \in DOMAIN outgoing /\ r \in GetIterator(outgoing[f.transition], f.state[2])
      /\ ~f.at_end /\ Explored(f, DOMAIN previous) /\ r \in f.iter
      /\ f.transition \in 1 .. Len(outgoing)
      /\ f.iter \subseteq GetIterator(outgoing[f.transition], f.state[2])
    BY <1>1, <1>2 DEF FrameInv, f, outgoing
<1>7. p = <<outgoing[f.transition].to, r.node>>
    BY DEF Reached, outgoing
<1>8. outgoing[f.transition] \in Transition
    BY <1>1, <1>6
<1>9. p \in Product /\ Step(f.state, p)
    <2>1. r.node \in Nodes
        BY <1>6, <1>8, IteratorNodes
    <2>2. p \in Product /\ p[1] = outgoing[f.transition].to /\ p[2] = r.node
        BY <1>7, <1>8, <2>1 DEF Product, Transition
    <2> QED BY <1>6, <2>2 DEF Step, outgoing
<1> HIDE DEF g
<1>10. Explored(g, DOMAIN new)
    <2> SUFFICES ASSUME NEW k \in 1 .. f.transition, NEW x \in GetIterator(outgoing[k], f.state[2]),
                        ~(k = f.transition /\ x \in g.iter)
                 PROVE  <<outgoing[k].to, x.node>> \in DOMAIN new
        BY <1>5 DEF Explored, outgoing
    <2>1. CASE k = f.transition /\ x = r
        BY <1>7, <2>1 DEF f
    <2>2. CASE ~(k = f.transition /\ x = r)
        <3>1. ~(k = f.transition /\ x \in f.iter)
            BY <1>5, <2>2
        <3>2. <<outgoing[k].to, x.node>> \in DOMAIN previous
            BY <1>6, <3>1 DEF Explored, outgoing
        <3> QED BY <3>2
    <2> QED BY <2>1, <2>2
<1>11. FrameInv(g, DOMAIN new)
    BY <1>1, <1>5, <1>6, <1>10 DEF FrameInv, outgoing
<1>12. Retop(Consumed(stack, r), stack, g)
    BY <1>1, <1>3, <1>5, StackExcept DEF f
<1>13. /\ StackInv(Consumed(stack, r), new)
       /\ \A i \in DOMAIN stack :
              /\ i \in DOMAIN Consumed(stack, r)
              /\ Consumed(stack, r)[i].state = stack[i].state
    BY <1>11, <1>12, StackRetop
<1>14. /\ Len(Consumed(stack, r)) = Len(stack) /\ Consumed(stack, r)[Len(stack)] = g
       /\ Consumed(stack, r) \in Seq(Frames)
    BY <1>12 DEF Retop
<1>15. Consumed(stack, r) # <<>>
    BY <1>4, <1>14
<1>16. ~Consumed(stack, r)[Len(stack)].at_end
    BY <1>5, <1>6, <1>14
<1> QED BY <1>9, <1>13, <1>14, <1>15, <1>16 DEF f

\* A record that leads to a new state puts it on the stack.
LEMMA StackVisit ==
    ASSUME NEW previous, NEW stack, StackInv(stack, previous), stack # <<>>,
           ~stack[Len(stack)].at_end, NEW r \in stack[Len(stack)].iter,
           NEW p, p = Reached(stack[Len(stack)], r), p \notin DOMAIN previous,
           NEW new, new = Extended(previous, p, stack[Len(stack)].state)
    PROVE  /\ StackInv(Append(Consumed(stack, r), Frame(p)), new)
           /\ LeftInv(stack, previous) => LeftInv(Append(Consumed(stack, r), Frame(p)), new)
<1> DEFINE f == stack[Len(stack)]
           rest == Consumed(stack, r)
           longer == Append(rest, Frame(p))
<1>1. /\ DOMAIN new = DOMAIN previous \cup {p} /\ new[p] = f.state
      /\ \A x \in DOMAIN previous : new[x] = previous[x]
    BY DEF Extended
<1> HIDE DEF f
<1>2. /\ StackInv(rest, new) /\ rest # <<>> /\ Len(rest) = Len(stack)
      /\ \A i \in DOMAIN stack : i \in DOMAIN rest /\ rest[i].state = stack[i].state
      /\ p \in Product /\ Step(f.state, p)
    BY <1>1, StackConsume DEF f
<1>3. Len(stack) \in DOMAIN stack
    BY TopFrame
<1> HIDE DEF rest
<1>4. rest[Len(rest)].state = f.state
    BY <1>2, <1>3 DEF f
<1>5. p \in SearchStates
    BY <1>2, GraphAssumption DEF Product, SearchStates
<1>6. /\ StackInv(longer, new)
      /\ \A i \in DOMAIN rest : i \in DOMAIN longer /\ longer[i] = rest[i]
      /\ \E i \in DOMAIN longer : longer[i].state = p
    BY <1>1, <1>2, <1>4, <1>5, StackPush
<1> HIDE DEF longer
<1>7. LeftInv(stack, previous) => LeftInv(longer, new)
    <2>1. \A i \in DOMAIN stack : \E j \in DOMAIN longer : longer[j].state = stack[i].state
        BY <1>2, <1>6
    <2> QED BY <1>1, <1>6, <2>1, LeftKept
<1> QED BY <1>6, <1>7 DEF longer, rest

-----------------------------------------------------------------------------
(* The depth-first searches.                                               *)

DfsInv ==
    /\ start \in NodeIds
    /\ StackInv(open, visited)
    /\ start \in Nodes /\ ~(Check /\ results # <<>>) => LeftInv(open, visited)
    /\ pc = "expand" => open # <<>> /\ ~Top.at_end
    /\ first_next => pc = "ready" /\ open = <<Frame(Origin(start))>>

LEMMA OriginStack ==
    ASSUME NEW n \in NodeIds
    PROVE  /\ StackInv(<<Frame(Origin(n))>>, [p \in {Origin(n)} |-> Null])
           /\ LeftInv(<<Frame(Origin(n))>>, [p \in {Origin(n)} |-> Null])
<1> DEFINE o == Origin(n)
           f == Frame(o)
           stack == <<f>>
           previous == [p \in {o} |-> Null]
<1>1. f \in Frames /\ f.state = o /\ f.at_end
    BY DEF Frame, Frames, Origin, SearchStates
<1>2. DOMAIN previous = {o}
    OBVIOUS
<1> HIDE DEF o, f, previous
<1>3. stack \in Seq(Frames) /\ Len(stack) = 1 /\ DOMAIN stack = {1} /\ stack[1] = f
    BY <1>1
<1> HIDE DEF stack
<1>4. StackInv(stack, previous) /\ LeftInv(stack, previous)
    BY <1>1, <1>2, <1>3 DEF StackInv, LeftInv, FrameInv
<1> QED BY <1>4 DEF stack, f, previous, o

LEMMA EmptyStack ==
    ASSUME NEW previous
    PROVE  StackInv(<<>>, previous)
<1>1. <<>> \in Seq(Frames) /\ Len(<<>>) = 0 /\ DOMAIN <<>> = {}
    OBVIOUS
<1> QED BY <1>1 DEF StackInv

LEMMA DfsInit == ~BfsChosen /\ Init => DfsInv
BY OriginStack DEF Init, DfsInv

LEMMA DfsStep == ASSUME DfsInv, Next PROVE DfsInv'
<1>1. CASE StartMissing
  <2>1. open # <<>>
      BY <1>1, OneNotEmpty DEF StartMissing, DfsInv
  <2>2. /\ UNCHANGED <<start, visited>> /\ start \notin Nodes /\ pc' = "done" /\ ~first_next'
        /\ open' = SubSeq(open, 1, Len(open) - 1)
      BY <1>1 DEF StartMissing, Pop
  <2>3. StackInv(open', visited)
      BY <2>1, <2>2, StackPop DEF DfsInv
  <2> QED BY <2>2, <2>3 DEF DfsInv
<1>2. CASE StartIsAnswer
  <2>1. /\ UNCHANGED <<class, start, visited>> /\ pc' = "ready" /\ ~first_next'
        /\ results' = Append(results, Top.state)
        /\ open' = IF Check THEN <<>> ELSE open
      BY <1>2 DEF StartIsAnswer, TakeAnswer, Return
  <2>2. CASE Check
      <3>1. open' = <<>> /\ Check' /\ results' # <<>>
          BY <2>1, <2>2 DEF Check
      <3> QED BY <2>1, <3>1, EmptyStack DEF DfsInv
  <2>3. CASE ~Check
      <3>1. open' = open /\ ~Check'
          BY <2>1, <2>3 DEF Check
      <3> QED BY <2>1, <2>3, <3>1 DEF DfsInv
  <2> QED BY <2>2, <2>3
<1>3. CASE EnterLoop
    BY <1>3 DEF EnterLoop, DfsInv, Check
<1>4. CASE Exhausted
    BY <1>4 DEF Exhausted, DfsInv, Check
<1>5. CASE ExpandFirst
  <2>1. /\ open # <<>> /\ UNCHANGED <<class, start, visited, first_next, results>>
        /\ pc = "loop" /\ Top.at_end
      BY <1>5 DEF ExpandFirst
  <2>2. Top.state[1] \in States /\ TopConnections \in Seq(Transition)
      BY <2>1, TopFrame DEF DfsInv, Top, TopConnections
  <2>3. CASE TopConnections = <<>>
    <3>1. pc' = "loop" /\ open' = SubSeq(open, 1, Len(open) - 1)
        BY <1>5, <2>1, <2>3 DEF ExpandFirst, Pop
    <3>2. \A q \in Product : ~Step(open[Len(open)].state, q)
      <4>1. DOMAIN TopConnections = {}
          BY <2>3
      <4> QED BY <4>1 DEF Step, Top, TopConnections
    <3>3. StackInv(open', visited) /\ (LeftInv(open, visited) => LeftInv(open', visited))
        BY <2>1, <3>1, <3>2, StackPop DEF DfsInv
    <3> QED BY <2>1, <3>1, <3>3 DEF DfsInv, Check
  <2>4. CASE TopConnections # <<>>
    <3>1. pc' = "expand" /\ open' = SetIter([open EXCEPT ![Len(open)].transition = 1])
        BY <1>5, <2>4 DEF ExpandFirst
    <3>2. 1 \in 1 .. Len(Connections[open[Len(open)].state[1]])
        BY <2>2, <2>4 DEF Top, TopConnections
    <3>3. /\ StackInv(open', visited) /\ (LeftInv(open, visited) => LeftInv(open', visited))
          /\ open' # <<>> /\ ~open'[Len(open')].at_end
        BY <2>1, <3>1, <3>2, StackMove DEF DfsInv
    <3> QED BY <2>1, <3>1, <3>3 DEF DfsInv, Check, Top
  <2> QED BY <2>3, <2>4
<1>6. CASE ExpandResume
    BY <1>6 DEF ExpandResume, DfsInv, Check, Top
<1>7. CASE Visit
  <2>1. PICK r \in Top.iter : Visit!2!(r)
      BY <1>7 DEF Visit
  <2> DEFINE p == Reached(Top, r)
  <2>2. /\ open # <<>> /\ ~Top.at_end /\ pc = "expand" /\ ~first_next
        /\ UNCHANGED <<class, start, first_next>>
        /\ StackInv(open, visited) /\ start \in NodeIds
      BY <1>7 DEF Visit, DfsInv
  <2>3. /\ p = <<TopConnections[Top.transition].to, r.node>>
        /\ Consumed(open, r) = [open EXCEPT ![Len(open)].iter = @ \ {r}]
      BY DEF Reached, TopConnections, Consumed
  <2>4. r \in open[Len(open)].iter /\ ~open[Len(open)].at_end
      BY <2>2 DEF Top
  <2>5. CASE p \in DOMAIN visited
    <3>1. open' = Consumed(open, r) /\ UNCHANGED <<visited, results, pc>>
        BY <2>1, <2>3, <2>5
    <3>2. /\ StackInv(open', visited)
          /\ \A i \in DOMAIN open : i \in DOMAIN open' /\ open'[i].state = open[i].state
          /\ Len(open') = Len(open) /\ open' # <<>> /\ ~open'[Len(open)].at_end
        BY <2>2, <2>4, <2>5, <3>1, StackConsume DEF Top
    <3>3. LeftInv(open, visited) => LeftInv(open', visited)
        BY <3>2, LeftKept
    <3> QED BY <2>2, <3>1, <3>2, <3>3 DEF DfsInv, Check, Top
  <2>6. CASE p \notin DOMAIN visited
    <3> DEFINE longer == Append(Consumed(open, r), Frame(p))
    <3>1. /\ visited' = Insert(p)
          /\ IF IsAnswer(p)
             THEN TakeAnswer(p, longer)
             ELSE open' = longer /\ pc' = "loop" /\ UNCHANGED results
        BY <2>1, <2>3, <2>6
    <3>2. visited' = Extended(visited, p, open[Len(open)].state)
        BY <3>1 DEF Insert, Extended, Top
    <3>3. /\ StackInv(longer, visited')
          /\ LeftInv(open, visited) => LeftInv(longer, visited')
        BY <2>2, <2>4, <2>6, <3>2, StackVisit DEF Top
    <3>4. CASE ~IsAnswer(p)
        BY <2>2, <3>1, <3>3, <3>4 DEF DfsInv, Check
    <3>5. CASE IsAnswer(p) /\ ~Check
        BY <2>2, <3>1, <3>3, <3>5 DEF DfsInv, Check, TakeAnswer, Return
    <3>6. CASE IsAnswer(p) /\ Check
      <4>1. open' = <<>> /\ pc' = "ready" /\ results' = Append(results, p) /\ Check'
          BY <2>2, <3>1, <3>6 DEF TakeAnswer, Return, Check
      <4>2. results' # <<>>
          BY <4>1
      <4> QED BY <2>2, <4>1, <4>2, EmptyStack DEF DfsInv
    <3> QED BY <3>4, <3>5, <3>6
  <2> QED BY <2>5, <2>6
<1>8. CASE NextTransition
  <2>1. /\ pc = "expand" /\ Top.iter = {} /\ open # <<>> /\ ~Top.at_end
        /\ UNCHANGED <<class, start, visited, first_next, results>>
        /\ StackInv(open, visited) /\ start \in NodeIds /\ ~first_next
      BY <1>8 DEF NextTransition, DfsInv
  <2>2. /\ Top.state[1] \in States /\ TopConnections \in Seq(Transition)
        /\ Top \in Frames /\ FrameInv(Top, DOMAIN visited)
      BY <2>1, TopFrame DEF StackInv, Top, TopConnections
  <2>3. Top.transition \in 1 .. Len(TopConnections)
      BY <2>1, <2>2 DEF FrameInv, TopConnections
  <2>4. CASE MoreTransitions
    <3> DEFINE k == Top.transition + 1
    <3>1. pc' = "expand" /\ open' = SetIter([open EXCEPT ![Len(open)].transition = k])
        BY <1>8, <2>1, <2>4 DEF NextTransition, Top
    <3>2. k \in 1 .. Len(Connections[open[Len(open)].state[1]])
        BY <2>2, <2>3, <2>4 DEF MoreTransitions, Top, TopConnections
    <3>3. k = open[Len(open)].transition + 1
        BY DEF Top
    <3> HIDE DEF k
    <3>4. /\ StackInv(open', visited) /\ (LeftInv(open, visited) => LeftInv(open', visited))
          /\ open' # <<>> /\ ~open'[Len(open')].at_end
        BY <2>1, <3>1, <3>2, <3>3, StackMove DEF Top
    <3> QED BY <2>1, <3>1, <3>4 DEF DfsInv, Check, Top
  <2>5. CASE ~MoreTransitions
    <3>1. pc' = "loop" /\ open' = SubSeq(open, 1, Len(open) - 1)
        BY <1>8, <2>5 DEF NextTransition, Pop
    <3>2. \A q \in Product : Step(open[Len(open)].state, q) => q \in DOMAIN visited
        BY <2>1, <2>2, <2>5, FrameExpanded DEF MoreTransitions, TopConnections, Top
    <3>3. StackInv(open', visited) /\ (LeftInv(open, visited) => LeftInv(open', visited))
        BY <2>1, <3>1, <3>2, StackPop
    <3> QED BY <2>1, <3>1, <3>3 DEF DfsInv, Check
  <2> QED BY <2>4, <2>5
<1>9. CASE Interrupt
    BY <1>9 DEF Interrupt, DfsInv, Check
<1>10. ASSUME NEW n \in NodeIds, NEW e \in EndsOf(class), Reset(n, e) PROVE DfsInv'
    BY <1>10, OriginStack DEF Reset, DfsInv
<1> QED
    BY <1>1, <1>2, <1>3, <1>4, <1>5, <1>6, <1>7, <1>8, <1>9, <1>10 DEF Next, Search

-----------------------------------------------------------------------------
(* BFSCheck.                                                               *)

LEMMA BfsNames ==
    /\ \A t, n : Bfs!GetIterator(t, n) = GetIterator(t, n)
    /\ \A n : Bfs!Origin(n) = Origin(n)
    /\ \A p : Bfs!IsFinal(p) <=> IsFinal(p)
    /\ Bfs!Null = <<>>
BY DEF Bfs!GetIterator, GetIterator, Bfs!Origin, Origin, Bfs!IsFinal, IsFinal, Bfs!Null

\* The records the index still holds are of the current transition of the
\* front, and all before them led to visited pairs.
Expanding ==
    LET front == open[1]
        outgoing == Connections[front[1]]
    IN  /\ open # <<>> /\ start \in Nodes /\ results = <<>>
        /\ current_transition \in 0 .. Len(outgoing)
        /\ current_transition = 0 => iter = {}
        /\ current_transition # 0 =>
               iter \subseteq GetIterator(outgoing[current_transition], front[2])
        /\ \A k \in 1 .. current_transition : \A r \in GetIterator(outgoing[k], front[2]) :
               \/ k = current_transition /\ r \in iter
               \/ <<outgoing[k].to, r.node>> \in DOMAIN visited

IsEnd(p) == IsFinal(p) /\ p[2] = end_object_id

BfsInv ==
    /\ start \in NodeIds
    /\ first_next => /\ pc = "ready" /\ results = <<>> /\ open = <<Origin(start)>>
                     /\ DOMAIN visited = {Origin(start)}
    /\ ~first_next /\ start \notin Nodes => open = <<>>
    /\ start \in Nodes /\ results = <<>> =>
           /\ Layers(visited, open, start)
           /\ ~first_next => \A q \in DOMAIN visited : ~IsEnd(q)
    /\ pc = "expand" => ~first_next /\ Expanding
    /\ results # <<>> =>
           /\ open = <<>>
           /\ \E p : results = <<p>> /\ Depth(visited)[p] = AnswerDistance[start][p[2]]

LEMMA BfsInit ==
    ASSUME Bfs!Init PROVE BfsInv
<1>1. /\ start \in NodeIds /\ visited = [p \in {Origin(start)} |-> <<>>]
      /\ open = <<Origin(start)>> /\ first_next /\ results = <<>> /\ pc = "ready"
    BY BfsNames DEF Bfs!Init
<1>2. DOMAIN visited = {Origin(start)}
    BY <1>1
<1>3. start \in Nodes => Layers(visited, open, start)
    BY <1>1, LayersOrigin
<1> QED BY <1>1, <1>2, <1>3 DEF BfsInv

\* While there is no result the pairs of the queue are pairs of the product.
LEMMA FrontType ==
    ASSUME NEW n \in Nodes, NEW previous, NEW queue, Layers(previous, queue, n), queue # <<>>
    PROVE  /\ queue[1] \in Product /\ queue[1] \in DOMAIN previous /\ Head(queue) = queue[1]
           /\ Connections[queue[1][1]] \in Seq(Transition)
           /\ DOMAIN previous \subseteq Product
<1>1. queue \in Seq(DOMAIN previous) /\ DOMAIN previous \subseteq Product
    BY DEF Layers, SortedQueue, WalksOfDepth
<1>2. queue[1] \in DOMAIN previous /\ Head(queue) = queue[1]
    BY <1>1
<1>3. queue[1][1] \in States
    BY <1>1, <1>2 DEF Product
<1> QED BY <1>1, <1>2, <1>3

LEMMA BfsReady ==
    ASSUME BfsInv, Bfs!StartMissing \/ Bfs!StartIsAnswer \/ Bfs!EnterLoop \/ Bfs!Exhausted
    PROVE  BfsInv'
<1>0. first_next => /\ open = <<Origin(start)>> /\ Head(open) = Origin(start)
                    /\ Tail(open) = <<>> /\ results = <<>>
                    /\ DOMAIN visited = {Origin(start)}
    <2>1. ASSUME NEW o PROVE Head(<<o>>) = o /\ Tail(<<o>>) = <<>>
        OBVIOUS
    <2> QED BY <2>1 DEF BfsInv
<1>1. CASE Bfs!StartMissing
    BY <1>0, <1>1 DEF Bfs!StartMissing, BfsInv
<1>2. CASE Bfs!StartIsAnswer
  <2>1. /\ first_next /\ ~first_next' /\ pc' = "ready" /\ start \in Nodes
        /\ UNCHANGED <<start, visited>> /\ open' = <<>>
        /\ results' = Append(results, Head(open)) /\ IsFinal(Head(open))
      BY <1>2, BfsNames DEF Bfs!StartIsAnswer, Bfs!Return, Bfs!IsAnswer, Bfs!Front
  <2>2. results' = <<Origin(start)>> /\ IsFinal(Origin(start))
      BY <1>0, <2>1
  <2>3. Layers(visited, open, start) /\ DOMAIN visited = {Origin(start)}
      BY <2>1, <1>0 DEF BfsInv
  <2>4. Depth(visited)[Origin(start)] = 0
      BY <2>1, <2>3, OriginDepth
  <2>5. Origin(start)[1] = StartState /\ Origin(start)[2] = start
      BY DEF Origin
  <2>6. AnswerDistance[start][Origin(start)[2]] = 0
      BY <2>1, <2>2, <2>5, OriginIsShortest DEF IsFinal
  <2>7. \E p : results' = <<p>> /\ Depth(visited)[p] = AnswerDistance[start][p[2]]
      BY <2>2, <2>4, <2>6
  <2>8. results' # <<>>
      BY <2>2, OneNotEmpty
  <2> QED BY <2>1, <2>7, <2>8 DEF BfsInv
<1>3. CASE Bfs!EnterLoop
  <2>1. /\ UNCHANGED <<start, visited, open, results, end_object_id>>
        /\ ~first_next' /\ pc' = "loop"
        /\ first_next => start \in Nodes /\ ~IsEnd(Head(open))
      BY <1>3, BfsNames DEF Bfs!EnterLoop, Bfs!IsAnswer, Bfs!Front, IsEnd, BfsInv
  <2>2. first_next => \A q \in DOMAIN visited : ~IsEnd(q)
      BY <1>0, <2>1
  <2>3. (\A q \in DOMAIN visited : ~IsEnd(q)) => (\A q \in DOMAIN visited : ~IsEnd(q))'
      BY <2>1 DEF IsEnd
  <2> QED BY <2>1, <2>2, <2>3 DEF BfsInv
<1>4. CASE Bfs!Exhausted
    BY <1>4 DEF Bfs!Exhausted, BfsInv, IsEnd
<1> QED BY <1>1, <1>2, <1>3, <1>4

\* While a pair is being expanded.
LEMMA BfsExpanding ==
    ASSUME BfsInv, pc = "expand"
    PROVE  /\ start \in Nodes /\ results = <<>> /\ ~first_next /\ open # <<>> /\ start \in NodeIds
           /\ Layers(visited, open, start) /\ \A q \in DOMAIN visited : ~IsEnd(q)
           /\ Bfs!Front = open[1] /\ Bfs!Outgoing = Connections[open[1][1]]
           /\ open[1] \in Product /\ Connections[open[1][1]] \in Seq(Transition)
<1>1. /\ start \in Nodes /\ results = <<>> /\ ~first_next /\ open # <<>> /\ start \in NodeIds
      /\ Layers(visited, open, start) /\ \A q \in DOMAIN visited : ~IsEnd(q)
    BY DEF BfsInv, Expanding
<1>2. /\ Head(open) = open[1] /\ open[1] \in Product
      /\ Connections[open[1][1]] \in Seq(Transition)
    BY <1>1, FrontType
<1> QED BY <1>1, <1>2 DEF Bfs!Front, Bfs!Outgoing

\* What a record of the iterator leads to.
LEMMA BfsReached ==
    ASSUME BfsInv, pc = "expand", NEW r \in iter,
           NEW p, p = <<Connections[open[1][1]][current_transition].to, r.node>>
    PROVE  /\ p \in Product /\ Step(open[1], p)
           /\ current_transition \in DOMAIN Connections[open[1][1]]
<1> DEFINE outgoing == Connections[open[1][1]]
           k == current_transition
<1>1. open[1] \in Product /\ outgoing \in Seq(Transition)
    BY BfsExpanding
<1>2. Expanding
    BY DEF BfsInv
<1> HIDE DEF outgoing
<1>3. /\ k \in 0 .. Len(outgoing) /\ k # 0
      /\ r \in GetIterator(outgoing[k], open[1][2])
    BY <1>2 DEF Expanding, outgoing
<1>4. k \in DOMAIN outgoing
    BY <1>1, <1>3
<1>5. outgoing[k] \in Transition
    BY <1>1, <1>4
<1>6. r.node \in Nodes /\ outgoing[k].to \in States
    BY <1>3, <1>5, IteratorNodes DEF Transition
<1>7. p \in Product /\ p[1] = outgoing[k].to /\ p[2] = r.node
    BY <1>6 DEF Product, outgoing
<1>8. Step(open[1], p)
    BY <1>3, <1>4, <1>7 DEF Step, outgoing
<1> QED BY <1>4, <1>7, <1>8 DEF outgoing

LEMMA BfsVisit == ASSUME BfsInv, Bfs!Visit PROVE BfsInv'
<1> DEFINE outgoing == Connections[open[1][1]]
<1>1. pc = "expand" /\ UNCHANGED <<start, current_transition, first_next, end_object_id>>
    BY DEF Bfs!Visit
<1>2. /\ start \in Nodes /\ results = <<>> /\ ~first_next /\ open # <<>> /\ start \in NodeIds
      /\ Layers(visited, open, start) /\ \A q \in DOMAIN visited : ~IsEnd(q)
      /\ Bfs!Front = open[1] /\ Bfs!Outgoing = outgoing
    BY <1>1, BfsExpanding
<1>3. PICK r \in iter :
          LET p == <<outgoing[current_transition].to, r.node>>
          IN  IF p \in DOMAIN visited
              THEN iter' = iter \ {r} /\ UNCHANGED <<visited, open, results, pc>>
              ELSE /\ iter' = iter \ {r}
                   /\ visited' = [x \in DOMAIN visited \cup {p} |->
                                     IF x = p THEN open[1] ELSE visited[x]]
                   /\ IF Bfs!IsAnswer(p)
                      THEN Bfs!Return(p)
                      ELSE Bfs!Push(p) /\ UNCHANGED <<results, pc>>
    BY <1>2 DEF Bfs!Visit
<1> DEFINE p == <<outgoing[current_transition].to, r.node>>
<1>4. p \in Product /\ Step(open[1], p) /\ current_transition \in DOMAIN outgoing
    BY <1>1, BfsReached
<1>5. Bfs!IsAnswer(p) <=> IsEnd(p)
    BY BfsNames DEF Bfs!IsAnswer, IsEnd
<1>6. /\ Expanding /\ iter' = iter \ {r} /\ p \in DOMAIN visited'
      /\ DOMAIN visited \subseteq DOMAIN visited'
    BY <1>1, <1>3 DEF BfsInv
<1>7. ASSUME open'[1] = open[1], open' # <<>>, results' = <<>> PROVE Expanding'
  <2>1. /\ current_transition \in 0 .. Len(outgoing)
        /\ current_transition = 0 => iter = {}
        /\ current_transition # 0 => iter \subseteq GetIterator(outgoing[current_transition], open[1][2])
        /\ \A k \in 1 .. current_transition : \A x \in GetIterator(outgoing[k], open[1][2]) :
               \/ k = current_transition /\ x \in iter
               \/ <<outgoing[k].to, x.node>> \in DOMAIN visited
      BY <1>6 DEF Expanding
  <2> HIDE DEF outgoing
  <2>2. \A k \in 1 .. current_transition : \A x \in GetIterator(outgoing[k], open[1][2]) :
               \/ k = current_transition /\ x \in iter'
               \/ <<outgoing[k].to, x.node>> \in DOMAIN visited'
      BY <1>6, <2>1
  <2>3. Connections[open'[1][1]] = outgoing
      BY <1>7 DEF outgoing
  <2> QED BY <1>1, <1>2, <1>6, <1>7, <2>1, <2>2, <2>3 DEF Expanding
<1>8. CASE p \in DOMAIN visited
  <2>1. UNCHANGED <<visited, open, results, pc>>
      BY <1>3, <1>8
  <2>2. Expanding'
      BY <1>2, <1>7, <2>1
  <2> QED BY <1>1, <1>2, <2>1, <2>2 DEF BfsInv, IsEnd
<1>9. CASE p \notin DOMAIN visited
  <2>1. /\ visited' = Extended(visited, p, open[1])
        /\ IF IsEnd(p) THEN Bfs!Return(p) ELSE Bfs!Push(p) /\ UNCHANGED <<results, pc>>
      BY <1>3, <1>5, <1>9 DEF Extended
  <2>2. /\ Layers(visited', Append(open, p), start)
        /\ Depth(visited')[p] = Depth(visited)[open[1]] + 1
      <3> HIDE DEF p
      <3> QED BY <1>2, <1>4, <1>9, <2>1, LayersPush
  <2>3. CASE IsEnd(p)
    <3>1. results' = Append(results, p) /\ pc' = "ready" /\ open' = <<>>
        BY <2>1, <2>3 DEF Bfs!Return
    <3>2. results' = <<p>>
        BY <1>2, <3>1
    <3>3. AnswerDistance[start][p[2]] = Depth(visited)[open[1]] + 1
      <4>1. \A q \in DOMAIN visited : IsFinal(q) => q[2] # p[2]
          BY <1>2, <2>3 DEF IsEnd
      <4>2. IsFinal(p)
          BY <2>3 DEF IsEnd
      <4> HIDE DEF p
      <4> QED BY <1>2, <1>4, <1>9, <4>1, <4>2, AnswerIsShortest
    <3>4. \E x : results' = <<x>> /\ Depth(visited')[x] = AnswerDistance[start][x[2]]
        BY <2>2, <3>2, <3>3
    <3>5. results' # <<>>
        BY <3>2, OneNotEmpty
    <3> QED BY <1>1, <1>2, <3>1, <3>4, <3>5 DEF BfsInv
  <2>4. CASE ~IsEnd(p)
    <3>1. open' = Append(open, p) /\ UNCHANGED <<results, pc>>
        BY <2>1, <2>4 DEF Bfs!Push
    <3>2. open'[1] = open[1] /\ open' # <<>>
      <4>1. open \in Seq(DOMAIN visited)
          BY <1>2 DEF Layers, SortedQueue
      <4> HIDE DEF p
      <4> QED BY <1>2, <3>1, <4>1, AppendFacts
    <3>3. Expanding'
        BY <1>2, <1>7, <3>1, <3>2
    <3>4. \A q \in DOMAIN visited' : q \in DOMAIN visited \/ q = p
        BY <2>1 DEF Extended
    <3>5. (\A q \in DOMAIN visited : ~IsEnd(q))'
        BY <1>1, <1>2, <2>4, <3>4 DEF IsEnd
    <3> QED BY <1>1, <1>2, <2>2, <3>1, <3>3, <3>5 DEF BfsInv
  <2> QED BY <2>3, <2>4
<1> QED BY <1>8, <1>9

\* A pair whose loop over the transitions ended has its successors visited.
LEMMA FrontVisited ==
    ASSUME BfsInv, pc = "expand", iter = {},
           ~(current_transition < Len(Connections[open[1][1]])),
           NEW q \in Product, Step(open[1], q)
    PROVE  q \in DOMAIN visited
<1> DEFINE outgoing == Connections[open[1][1]]
<1>1. outgoing \in Seq(Transition) /\ Expanding
    BY BfsExpanding DEF BfsInv
<1>2. PICK k \in DOMAIN outgoing :
          q[1] = outgoing[k].to /\ \E r \in GetIterator(outgoing[k], open[1][2]) : q[2] = r.node
    BY DEF Step
<1>3. PICK r \in GetIterator(outgoing[k], open[1][2]) : q[2] = r.node
    BY <1>2
<1>4. q = <<outgoing[k].to, r.node>>
    BY <1>2, <1>3 DEF Product
<1>5. /\ current_transition \in 0 .. Len(outgoing)
      /\ \A j \in 1 .. current_transition : \A x \in GetIterator(outgoing[j], open[1][2]) :
             <<outgoing[j].to, x.node>> \in DOMAIN visited
    BY <1>1 DEF Expanding
<1> HIDE DEF outgoing
<1>6. k \in 1 .. current_transition
    BY <1>1, <1>5 DEF outgoing
<1> QED BY <1>3, <1>4, <1>5, <1>6

LEMMA BfsMove == ASSUME BfsInv, Bfs!Expand \/ Bfs!NextTransition \/ Bfs!Interrupt PROVE BfsInv'
<1>1. CASE Bfs!Expand
  <2>1. /\ pc = "loop" /\ open # <<>> /\ pc' = "expand" /\ iter' = {} /\ current_transition' = 0
        /\ UNCHANGED <<start, visited, open, first_next, results, end_object_id>>
      BY <1>1 DEF Bfs!Expand
  <2>2. start \in Nodes /\ ~first_next /\ results = <<>>
      BY <2>1 DEF BfsInv
  <2>3. Connections[open[1][1]] \in Seq(Transition)
      BY <2>1, <2>2, FrontType DEF BfsInv
  <2>4. 0 \in 0 .. Len(Connections[open[1][1]]) /\ 1 .. 0 = {}
      BY <2>3
  <2>5. Expanding'
      BY <2>1, <2>2, <2>4 DEF Expanding
  <2> QED BY <2>1, <2>2, <2>5 DEF BfsInv, IsEnd
<1>2. CASE Bfs!NextTransition
  <2> DEFINE outgoing == Connections[open[1][1]]
  <2>1. /\ pc = "expand" /\ iter = {}
        /\ UNCHANGED <<start, visited, first_next, results, end_object_id>>
      BY <1>2 DEF Bfs!NextTransition
  <2>2. /\ start \in Nodes /\ results = <<>> /\ ~first_next /\ open # <<>> /\ start \in NodeIds
        /\ Layers(visited, open, start) /\ \A q \in DOMAIN visited : ~IsEnd(q)
        /\ Bfs!Front = open[1] /\ Bfs!Outgoing = outgoing /\ outgoing \in Seq(Transition)
      BY <2>1, BfsExpanding
  <2>3. Expanding
      BY <2>1 DEF BfsInv
  <2>4. CASE current_transition < Len(outgoing)
    <3> DEFINE k == current_transition + 1
    <3>1. /\ UNCHANGED <<open, pc>> /\ current_transition' = k
          /\ iter' = GetIterator(outgoing[k], open[1][2])
        BY <1>2, <2>2, <2>4, BfsNames DEF Bfs!NextTransition, Bfs!MoreTransitions
    <3>2. /\ current_transition \in 0 .. Len(outgoing)
          /\ \A j \in 1 .. current_transition : \A x \in GetIterator(outgoing[j], open[1][2]) :
                 <<outgoing[j].to, x.node>> \in DOMAIN visited
        BY <2>1, <2>3 DEF Expanding
    <3> HIDE DEF outgoing
    <3>3. /\ k \in 0 .. Len(outgoing) /\ k # 0
          /\ \A j \in 1 .. k : j = k \/ j \in 1 .. current_transition
        BY <2>2, <2>4, <3>2
    <3> HIDE DEF k
    <3>4. \A j \in 1 .. k : \A x \in GetIterator(outgoing[j], open[1][2]) :
              \/ j = k /\ x \in iter'
              \/ <<outgoing[j].to, x.node>> \in DOMAIN visited
        BY <3>1, <3>2, <3>3
    <3>5. Expanding'
        BY <2>1, <2>2, <3>1, <3>3, <3>4 DEF Expanding, outgoing
    <3> QED BY <2>1, <2>2, <3>1, <3>5 DEF BfsInv, IsEnd
  <2>5. CASE ~(current_transition < Len(outgoing))
    <3>1. open' = Tail(open) /\ pc' = "loop"
        BY <1>2, <2>2, <2>5 DEF Bfs!NextTransition, Bfs!MoreTransitions, Bfs!Pop
    <3>2. \A q \in Product : Step(open[1], q) => q \in DOMAIN visited
        BY <2>1, <2>5, FrontVisited
    <3>3. Layers(visited, Tail(open), start)
        BY <2>2, <3>2, LayersPop
    <3> QED BY <2>1, <2>2, <3>1, <3>3 DEF BfsInv, IsEnd
  <2> QED BY <2>4, <2>5
<1>3. CASE Bfs!Interrupt
    BY <1>3 DEF Bfs!Interrupt, BfsInv, IsEnd
<1> QED BY <1>1, <1>2, <1>3

LEMMA BfsReset == ASSUME BfsInv, NEW n \in NodeIds, NEW e \in NodeIds, Bfs!Reset(n, e) PROVE BfsInv'
<1>1. /\ start' = n /\ visited' = [p \in {Origin(n)} |-> <<>>]
      /\ open' = <<Origin(n)>> /\ first_next' /\ results' = <<>> /\ pc' = "ready"
    BY BfsNames DEF Bfs!Reset
<1>2. DOMAIN visited' = {Origin(n)}
    BY <1>1
<1>3. n \in Nodes => Layers(visited', open', n)
    BY <1>1, LayersOrigin
<1> QED BY <1>1, <1>2, <1>3 DEF BfsInv

LEMMA BfsStep == ASSUME BfsInv, Bfs!Next PROVE BfsInv'
BY BfsReady, BfsVisit, BfsMove, BfsReset DEF Bfs!Next, Bfs!Search

-----------------------------------------------------------------------------
(* Theorems.                                                               *)

Inv ==
    /\ ~BfsChosen => DfsInv
    /\ BfsChosen => BfsInv

LEMMA AnyInvInit == AnyInit => Inv
BY DfsInit, BfsInit DEF AnyInit, Inv

LEMMA AnyInvStep == Inv /\ [AnyNext]_all_vars => Inv'
<1> SUFFICES ASSUME Inv, [AnyNext]_all_vars PROVE Inv'
    OBVIOUS
<1>1. CASE ~BfsChosen /\ Next
  <2>1. ~BfsChosen'
      BY <1>1 DEF BfsChosen, Next, Search, StartMissing, StartIsAnswer, EnterLoop, Exhausted,
          ExpandFirst, ExpandResume, Visit, NextTransition, Interrupt, Reset
  <2> QED BY <1>1, <2>1, DfsStep DEF Inv
<1>2. CASE BfsChosen /\ Bfs!Next /\ UNCHANGED class
    BY <1>2, BfsStep DEF Inv, BfsChosen
<1>3. CASE UNCHANGED all_vars
    BY <1>3 DEF all_vars, vars, Inv, BfsChosen, DfsInv, BfsInv, Expanding, IsEnd, Check, Top
<1> QED BY <1>1, <1>2, <1>3 DEF AnyNext

LEMMA InvStackIsPath == Inv => StackIsPath
BY DEF Inv, DfsInv, StackIsPath, StackInv

LEMMA InvExpanded == Inv => ExpandedCompletely
BY DEF Inv, DfsInv, ExpandedCompletely, LeftInv

LEMMA InvShortest == Inv => ShortestPath
<1> SUFFICES ASSUME BfsChosen, BfsInv, NEW i \in DOMAIN results
             PROVE  Depth(visited)[results[i]] = AnswerDistance[start][results[i][2]]
    BY DEF Inv, ShortestPath
<1>1. results # <<>>
    OBVIOUS
<1>2. PICK p : results = <<p>> /\ Depth(visited)[p] = AnswerDistance[start][p[2]]
    BY <1>1 DEF BfsInv
<1> QED BY <1>2
-----------------------------------------------------------------------------
(* What is handed out.  A step of any of the operators does one of four    *)
(* things to the answers, and the rest only needs to know which.           *)

\* A state that answers the input.
Matches(p) == IsFinal(p) /\ (Check => p[2] = end_object_id)

AnswerInv ==
    /\ class \in Classes /\ start \in NodeIds /\ end \in EndsOf(class)
    /\ ~EndIsVar => end_object_id = end
    /\ start \in Nodes => Origin(start) \in DOMAIN visited /\ DOMAIN visited \subseteq Reachable[start]
    /\ start \notin Nodes => results = <<>> /\ (~first_next => open = <<>>)
    /\ first_next => results = <<>> /\ open # <<>> /\ DOMAIN visited = {Origin(start)}
    /\ ~first_next /\ start \in Nodes =>
           \A p \in DOMAIN visited : Matches(p) => p[2] \in Reported
    /\ results \in Seq(SearchStates)
    /\ \A i \in DOMAIN results : results[i] \in DOMAIN visited /\ Matches(results[i])
    /\ ~Check /\ MultipleFinal => reached_final = Reported
    /\ Check /\ results # <<>> => open = <<>>
    /\ NoNodeTwice

SameInput == UNCHANGED <<class, start, end, end_object_id>>

\* Nothing is visited or handed out.
Quiet ==
    /\ SameInput /\ UNCHANGED <<visited, reached_final, results>>
    /\ pc # "interrupted" /\ ~first_next'
    /\ open = <<>> => open' = <<>>
    /\ first_next => IF start \in Nodes THEN ~Matches(Origin(start)) ELSE open' = <<>>

\* p is visited, and is no answer, or not a new one.
Passes(p) ==
    /\ SameInput /\ UNCHANGED <<reached_final, results>>
    /\ pc # "interrupted" /\ pc' # "interrupted" /\ ~first_next /\ ~first_next'
    /\ open # <<>> /\ open' # <<>>
    /\ start \in Nodes /\ p \in Reachable[start] /\ DOMAIN visited' = DOMAIN visited \cup {p}
    /\ Matches(p) => p[2] \in Reported

\* p is visited and handed out.
HandsOut(p) ==
    /\ SameInput
    /\ pc # "interrupted" /\ pc' # "interrupted" /\ ~first_next'
    /\ open # <<>> /\ (Check => open' = <<>>)
    /\ start \in Nodes /\ p \in Reachable[start] /\ DOMAIN visited' = DOMAIN visited \cup {p}
    /\ first_next => p = Origin(start)
    /\ Matches(p) /\ p[2] \notin Reported
    /\ results' = Append(results, p)
    /\ ~Check /\ MultipleFinal => reached_final' = reached_final \cup {p[2]}

\* The search begins again from what the parent bound.
Restarts ==
    /\ UNCHANGED class
    /\ start' \in NodeIds /\ end' \in EndsOf(class) /\ (~EndIsVar => end_object_id' = end')
    /\ DOMAIN visited' = {Origin(start')}
    /\ first_next' /\ open' # <<>> /\ results' = <<>> /\ pc' = "ready"
    /\ ~Check => reached_final' = {}

AnswerStep ==
    \/ Quiet
    \/ \E p \in Product : Passes(p)
    \/ \E p \in Product : HandsOut(p)
    \/ Restarts

LEMMA ReportedEmpty == results = <<>> => Reported = {} /\ NoNodeTwice
BY DEF Reported, NoNodeTwice

\* A new state is of a node not handed out yet, if that is all a check has to look
\* for, or if reached_final says so; with one final state the node would have been
\* reached in it before.
LEMMA AnswerIsNew ==
    ASSUME AnswerInv, start \in Nodes, open # <<>>, NEW p \in Product, p \notin DOMAIN visited,
           IsFinal(p), ~Check /\ MultipleFinal => p[2] \notin reached_final
    PROVE  p[2] \notin Reported
<1>1. CASE Check
    BY <1>1, ReportedEmpty DEF AnswerInv
<1>2. CASE ~Check /\ MultipleFinal
    BY <1>2 DEF AnswerInv
<1>3. CASE ~MultipleFinal
  <2> SUFFICES ASSUME NEW i \in DOMAIN results, results[i][2] = p[2] PROVE FALSE
      BY DEF Reported
  <2>1. results[i] \in DOMAIN visited /\ IsFinal(results[i])
      BY DEF AnswerInv, Matches
  <2>2. results[i] \in Product
      BY <2>1 DEF AnswerInv, Reachable
  <2>3. results[i][1] = p[1]
      BY <1>3, <2>1 DEF IsFinal, MultipleFinal
  <2>4. results[i] = p
      BY <2>2, <2>3 DEF Product
  <2> QED BY <2>1, <2>4
<1> QED BY <1>1, <1>2, <1>3

\* The state at the end of the sequence of results.
LEMMA ReturnNew ==
    ASSUME results \in Seq(SearchStates), NoNodeTwice, NEW p \in SearchStates, p[2] \notin Reported,
           results' = Append(results, p)
    PROVE  /\ Reported' = Reported \cup {p[2]} /\ NoNodeTwice' /\ results' \in Seq(SearchStates)
           /\ results' # <<>>
           /\ \A i \in DOMAIN results' : results'[i] = p \/ (i \in DOMAIN results /\ results'[i] = results[i])
<1> DEFINE n == Len(results)
<1>1. /\ n \in Nat /\ DOMAIN results = 1 .. n /\ DOMAIN results' = 1 .. n + 1
      /\ results' \in Seq(SearchStates) /\ results'[n + 1] = p
      /\ \A i \in 1 .. n : results'[i] = results[i]
    OBVIOUS
<1> HIDE DEF n
<1>2. \A i \in DOMAIN results' : i \in DOMAIN results \/ i = n + 1
    BY <1>1
<1>3. n + 1 \in DOMAIN results' /\ \A i \in DOMAIN results : i \in DOMAIN results'
    BY <1>1
<1>4. Reported' = Reported \cup {p[2]}
  <2>1. \A i \in DOMAIN results : results'[i] = results[i]
      BY <1>1
  <2>2. Reported \cup {p[2]} \subseteq Reported'
    <3>1. \A i \in DOMAIN results' : results'[i][2] \in Reported'
        BY DEF Reported
    <3>2. \A i \in DOMAIN results : results[i][2] \in Reported'
        BY <1>3, <2>1, <3>1
    <3>3. p[2] \in Reported'
        BY <1>1, <1>3, <3>1
    <3> QED BY <3>2, <3>3 DEF Reported
  <2>3. Reported' \subseteq Reported \cup {p[2]}
      BY <1>1, <1>2, <2>1 DEF Reported
  <2> QED BY <2>2, <2>3
<1>5. \A k \in DOMAIN results : results[k][2] # p[2]
    BY DEF Reported
<1>6. NoNodeTwice'
    BY <1>1, <1>2, <1>5 DEF NoNodeTwice
<1>7. results' # <<>>
    BY <1>3
<1> QED BY <1>1, <1>2, <1>4, <1>6, <1>7
-----------------------------------------------------------------------------
(* The steps keep AnswerInv.                                               *)

LEMMA AnswerInit == AnyInit => AnswerInv
<1> SUFFICES ASSUME AnyInit PROVE AnswerInv
    OBVIOUS
<1>1. /\ class \in Classes /\ start \in NodeIds /\ end \in EndsOf(class) /\ end_object_id = end
      /\ visited = [p \in {Origin(start)} |-> <<>>]
      /\ first_next /\ results = <<>> /\ reached_final = {}
      /\ \E x : open = <<x>>
    BY BfsNames DEF AnyInit, Init, Bfs!Init, BfsChosen, EndsOf, Null
<1>2. open # <<>>
    BY <1>1, OneNotEmpty
<1>3. DOMAIN visited = {Origin(start)} /\ DOMAIN results = {} /\ results \in Seq(SearchStates)
    BY <1>1
<1> QED BY <1>1, <1>2, <1>3, ReportedEmpty, ReachableOrigin DEF AnswerInv

LEMMA AnswerQuiet == ASSUME AnswerInv, Quiet PROVE AnswerInv'
<1>1. /\ UNCHANGED <<class, start, end, end_object_id, visited, reached_final, results>>
      /\ ~first_next' /\ (open = <<>> => open' = <<>>)
    BY DEF Quiet, SameInput
<1>2. UNCHANGED <<Reported, NoNodeTwice, Check, EndIsVar>>
    BY <1>1 DEF Reported, NoNodeTwice, Check, EndIsVar
<1>3. \A p : Matches(p)' <=> Matches(p)
    BY <1>1, <1>2 DEF Matches
<1>4. first_next /\ start \in Nodes => \A p \in DOMAIN visited : ~Matches(p)
    BY DEF AnswerInv, Quiet
<1>5. start \notin Nodes => open' = <<>>
    BY <1>1 DEF AnswerInv, Quiet
<1> QED BY <1>1, <1>2, <1>3, <1>4, <1>5 DEF AnswerInv

LEMMA AnswerPasses == ASSUME AnswerInv, NEW p \in Product, Passes(p) PROVE AnswerInv'
<1>1. /\ UNCHANGED <<class, start, end, end_object_id, reached_final, results>>
      /\ ~first_next /\ ~first_next' /\ open # <<>> /\ start \in Nodes
      /\ p \in Reachable[start] /\ DOMAIN visited' = DOMAIN visited \cup {p}
      /\ Matches(p) => p[2] \in Reported
    BY DEF Passes, SameInput
<1>2. UNCHANGED <<Reported, NoNodeTwice, Check, EndIsVar>>
    BY <1>1 DEF Reported, NoNodeTwice, Check, EndIsVar
<1>3. \A x : Matches(x)' <=> Matches(x)
    BY <1>1, <1>2 DEF Matches
<1> QED BY <1>1, <1>2, <1>3 DEF AnswerInv

LEMMA AnswerHandsOut == ASSUME AnswerInv, NEW p \in Product, HandsOut(p) PROVE AnswerInv'
<1>1. /\ UNCHANGED <<class, start, end, end_object_id>>
      /\ ~first_next' /\ start \in Nodes /\ (Check => open' = <<>>)
      /\ p \in Reachable[start] /\ DOMAIN visited' = DOMAIN visited \cup {p}
      /\ Matches(p) /\ p[2] \notin Reported /\ results' = Append(results, p)
      /\ ~Check /\ MultipleFinal => reached_final' = reached_final \cup {p[2]}
    BY DEF HandsOut, SameInput
<1>2. UNCHANGED <<Check, EndIsVar>>
    BY <1>1 DEF Check, EndIsVar
<1>3. \A x : Matches(x)' <=> Matches(x)
    BY <1>1, <1>2 DEF Matches
<1>4. p \in SearchStates
    BY DEF Product, SearchStates
<1>5. /\ Reported' = Reported \cup {p[2]} /\ NoNodeTwice' /\ results' \in Seq(SearchStates)
      /\ \A i \in DOMAIN results' : results'[i] = p \/ (i \in DOMAIN results /\ results'[i] = results[i])
    BY <1>1, <1>4, ReturnNew DEF AnswerInv
<1>6. \A x \in DOMAIN visited' : Matches(x) => x[2] \in Reported'
  <2>1. CASE first_next
      BY <1>1, <1>5, <2>1 DEF AnswerInv, HandsOut
  <2>2. CASE ~first_next
      BY <1>1, <1>5, <2>2 DEF AnswerInv
  <2> QED BY <2>1, <2>2
<1>7. \A i \in DOMAIN results' : results'[i] \in DOMAIN visited' /\ Matches(results'[i])
    BY <1>1, <1>5 DEF AnswerInv
<1> QED BY <1>1, <1>2, <1>3, <1>5, <1>6, <1>7 DEF AnswerInv

LEMMA AnswerRestarts == ASSUME AnswerInv, Restarts PROVE AnswerInv'
<1>1. results' = <<>> /\ (results' = <<>> => (Reported = {} /\ NoNodeTwice)')
  <2>1. (results = <<>> => Reported = {} /\ NoNodeTwice)'
      BY ReportedEmpty, PTL
  <2> QED BY <2>1 DEF Restarts
<1>2. DOMAIN results' = {} /\ results' \in Seq(SearchStates)
    BY <1>1
<1>3. start' \in Nodes => Origin(start') \in Reachable[start']
    BY ReachableOrigin
<1>4. UNCHANGED <<class, Check, EndIsVar>>
    BY DEF Restarts, Check, EndIsVar
<1> QED BY <1>1, <1>2, <1>3, <1>4 DEF AnswerInv, Restarts

LEMMA AnswerKept == AnswerInv /\ AnswerStep => AnswerInv'
BY AnswerQuiet, AnswerPasses, AnswerHandsOut, AnswerRestarts DEF AnswerStep
-----------------------------------------------------------------------------
(* Every step of an operator is one of the four.                           *)

\* A state that is reached from a visited one.
LEMMA VisitedStep ==
    ASSUME AnswerInv, start \in Nodes, NEW p \in DOMAIN visited, NEW q \in Product, Step(p, q)
    PROVE  q \in Reachable[start]
BY ReachableStep DEF AnswerInv

LEMMA OriginProduct == start \in Nodes => Origin(start) \in Product /\ Origin(start) \in Reachable[start]
BY ReachableOrigin DEF Origin, Product

\* The state a record of the frame on top leads to.
LEMMA DfsReached ==
    ASSUME DfsInv, pc = "expand", NEW r \in Top.iter,
           NEW p, p = <<TopConnections[Top.transition].to, r.node>>
    PROVE  p \in Product /\ Top.state \in DOMAIN visited /\ Step(Top.state, p)
<1>1. /\ open # <<>> /\ ~Top.at_end /\ FrameInv(Top, DOMAIN visited)
      /\ Top.state \in DOMAIN visited /\ TopConnections \in Seq(Transition)
    BY TopFrame DEF DfsInv, StackInv, Top, TopConnections
<1>2. /\ Top.transition \in DOMAIN TopConnections
      /\ r \in GetIterator(TopConnections[Top.transition], Top.state[2])
    BY <1>1 DEF FrameInv, TopConnections
<1>3. TopConnections[Top.transition] \in Transition
    BY <1>1, <1>2
<1>4. p \in Product /\ p[1] = TopConnections[Top.transition].to /\ p[2] = r.node
    BY <1>2, <1>3, IteratorNodes DEF Product, Transition
<1>5. Step(Top.state, p)
    BY <1>2, <1>4 DEF Step, TopConnections
<1> QED BY <1>1, <1>4, <1>5

LEMMA DfsIsAnswer ==
    ASSUME AnswerInv, NEW p
    PROVE  /\ IsAnswer(p) => Matches(p) /\ (~Check /\ MultipleFinal => p[2] \notin reached_final)
           /\ ~IsAnswer(p) => (Matches(p) => p[2] \in Reported)
BY DEF AnswerInv, IsAnswer, CheckAnswer, EnumAnswer, Matches

LEMMA DfsAnswers == ASSUME AnswerInv, DfsInv, Next PROVE AnswerStep
<1> DEFINE o == Origin(start)
<1>0. first_next => /\ open = <<Frame(o)>> /\ Top = Frame(o) /\ Top.state = o
                    /\ SubSeq(open, 1, Len(open) - 1) = <<>>
  <2>1. ASSUME NEW f PROVE <<f>>[Len(<<f>>)] = f /\ SubSeq(<<f>>, 1, Len(<<f>>) - 1) = <<>>
      OBVIOUS
  <2>2. Frame(o).state = o
      BY DEF Frame
  <2>3. first_next => open = <<Frame(o)>>
      BY DEF DfsInv
  <2> QED BY <2>1, <2>2, <2>3 DEF Top
<1>1. CASE StartMissing
  <2>1. Quiet
      BY <1>0, <1>1 DEF StartMissing, Pop, Quiet, SameInput, DfsInv
  <2> QED BY <2>1 DEF AnswerStep
<1>2. CASE StartIsAnswer
  <2>1. /\ SameInput /\ UNCHANGED visited /\ pc = "ready" /\ first_next /\ ~first_next'
        /\ start \in Nodes /\ IsAnswer(o) /\ TakeAnswer(o, open)
      BY <1>0, <1>2 DEF StartIsAnswer, SameInput
  <2>2. o \in Product /\ o \in Reachable[start] /\ DOMAIN visited' = DOMAIN visited \cup {o}
      BY <2>1, OriginProduct DEF AnswerInv
  <2>3. Matches(o) /\ Reported = {}
      BY <2>1, DfsIsAnswer, ReportedEmpty DEF AnswerInv
  <2>4. /\ results' = Append(results, o) /\ pc' = "ready" /\ (Check => open' = <<>>)
        /\ ~Check /\ MultipleFinal => reached_final' = reached_final \cup {o[2]}
      BY <2>1 DEF TakeAnswer, Return
  <2>5. open # <<>>
      BY <2>1 DEF AnswerInv
  <2> HIDE DEF o
  <2>6. HandsOut(o)
      BY <2>1, <2>2, <2>3, <2>4, <2>5 DEF HandsOut, o
  <2> QED BY <2>2, <2>6 DEF AnswerStep
<1>3. CASE EnterLoop
  <2>1. /\ SameInput /\ UNCHANGED <<visited, open, reached_final, results>> /\ ~first_next'
        /\ pc # "interrupted" /\ (first_next => start \in Nodes /\ ~IsAnswer(o))
      BY <1>0, <1>3 DEF EnterLoop, SameInput, DfsInv
  <2>2. first_next => ~Matches(o)
      BY <2>1, DfsIsAnswer, ReportedEmpty DEF AnswerInv
  <2>3. Quiet
      BY <2>1, <2>2 DEF Quiet
  <2> QED BY <2>3 DEF AnswerStep
<1>4. CASE Exhausted \/ ExpandFirst \/ ExpandResume \/ NextTransition \/ Interrupt
  <2>1. /\ SameInput /\ UNCHANGED <<visited, reached_final, results>>
        /\ pc \in {"loop", "expand"} /\ ~first_next /\ ~first_next'
        /\ open = <<>> => open' = <<>>
      BY <1>4 DEF Exhausted, ExpandFirst, ExpandResume, NextTransition, Interrupt, SameInput, DfsInv
  <2>2. Quiet
      BY <2>1 DEF Quiet
  <2> QED BY <2>2 DEF AnswerStep
<1>5. CASE Visit
  <2>1. PICK r \in Top.iter : Visit!2!(r)
      BY <1>5 DEF Visit
  <2> DEFINE p == <<TopConnections[Top.transition].to, r.node>>
             consumed == [open EXCEPT ![Len(open)].iter = @ \ {r}]
             pushed == Append(consumed, Frame(p))
  <2>2. /\ SameInput /\ pc = "expand" /\ ~first_next /\ ~first_next' /\ open # <<>>
        /\ start \in Nodes
      BY <1>5 DEF Visit, DfsInv, SameInput, AnswerInv
  <2>3. p \in Product /\ p \in Reachable[start]
      BY <2>2, DfsReached, VisitedStep
  <2>4. CASE p \in DOMAIN visited
    <3>1. UNCHANGED <<visited, reached_final, results, pc>>
        BY <2>1, <2>4
    <3>2. Quiet
        BY <2>2, <3>1 DEF Quiet
    <3> QED BY <3>2 DEF AnswerStep
  <2>5. CASE p \notin DOMAIN visited
    <3>1. /\ visited' = Insert(p)
          /\ IF IsAnswer(p) THEN TakeAnswer(p, pushed)
             ELSE open' = pushed /\ pc' = "loop" /\ UNCHANGED <<reached_final, results>>
        BY <2>1, <2>5
    <3>2. DOMAIN visited' = DOMAIN visited \cup {p}
        BY <3>1 DEF Insert
    <3>3. CASE IsAnswer(p)
      <4>1. /\ results' = Append(results, p) /\ pc' = "ready" /\ (Check => open' = <<>>)
            /\ ~Check /\ MultipleFinal => reached_final' = reached_final \cup {p[2]}
          BY <3>1, <3>3 DEF TakeAnswer, Return
      <4>2. Matches(p) /\ (~Check /\ MultipleFinal => p[2] \notin reached_final)
          BY <3>3, DfsIsAnswer
      <4>3. p[2] \notin Reported
          BY <2>2, <2>3, <2>5, <4>2, AnswerIsNew DEF Matches
      <4> HIDE DEF p
      <4>4. HandsOut(p)
          BY <2>2, <2>3, <3>2, <4>1, <4>2, <4>3 DEF HandsOut
      <4> QED BY <2>3, <4>4 DEF AnswerStep
    <3>4. CASE ~IsAnswer(p)
      <4>1. open' = pushed /\ pc' = "loop" /\ UNCHANGED <<reached_final, results>>
          BY <3>1, <3>4
      <4>2. Matches(p) => p[2] \in Reported
          BY <3>4, DfsIsAnswer
      <4>3. open' # <<>>
        <5>1. open \in Seq(Frames) /\ Len(open) \in Nat
            BY DEF DfsInv, StackInv
        <5> QED BY <4>1, <5>1
      <4> HIDE DEF p, pushed
      <4>4. Passes(p)
          BY <2>2, <2>3, <3>2, <4>1, <4>2, <4>3 DEF Passes
      <4> QED BY <2>3, <4>4 DEF AnswerStep
    <3> QED BY <3>3, <3>4
  <2> QED BY <2>4, <2>5
<1>6. ASSUME NEW n \in NodeIds, NEW e \in EndsOf(class), Reset(n, e) PROVE AnswerStep
  <2>1. open' # <<>>
      BY <1>6, OneNotEmpty DEF Reset
  <2>2. Restarts
      BY <1>6, <2>1 DEF Reset, Restarts, AnswerInv
  <2> QED BY <2>2 DEF AnswerStep
<1> QED BY <1>1, <1>2, <1>3, <1>4, <1>5, <1>6 DEF Next, Search
LEMMA BfsAnswers == ASSUME AnswerInv, BfsInv, BfsChosen, UNCHANGED <<class, reached_final>>, Bfs!Next PROVE AnswerStep
<1> DEFINE o == Origin(start)
<1>0. /\ Check /\ ~EndIsVar /\ EndsOf(class) = NodeIds
      /\ first_next => Head(open) = o /\ Tail(open) = <<>>
  <2>1. ASSUME NEW x PROVE Head(<<x>>) = x /\ Tail(<<x>>) = <<>>
      OBVIOUS
  <2> QED BY <2>1 DEF BfsInv, BfsChosen, Check, EndIsVar, EndsOf
<1>a. \A p : Matches(p) <=> Bfs!IsAnswer(p)
    BY <1>0, BfsNames DEF Matches, Bfs!IsAnswer
<1>1. CASE Bfs!StartMissing
  <2>1. Quiet
      BY <1>0, <1>1 DEF Bfs!StartMissing, Quiet, SameInput
  <2> QED BY <2>1 DEF AnswerStep
<1>2. CASE Bfs!StartIsAnswer
  <2>1. /\ SameInput /\ UNCHANGED visited /\ pc = "ready" /\ first_next /\ ~first_next'
        /\ start \in Nodes /\ Matches(o)
        /\ results' = Append(results, o) /\ pc' = "ready" /\ open' = <<>>
      BY <1>0, <1>a, <1>2 DEF Bfs!StartIsAnswer, Bfs!Return, Bfs!Front, SameInput
  <2>2. o \in Product /\ o \in Reachable[start] /\ DOMAIN visited' = DOMAIN visited \cup {o}
      BY <2>1, OriginProduct DEF AnswerInv
  <2>3. Reported = {} /\ open # <<>>
      BY <2>1, ReportedEmpty DEF AnswerInv
  <2> HIDE DEF o
  <2>4. HandsOut(o)
      BY <1>0, <2>1, <2>2, <2>3 DEF HandsOut, o
  <2> QED BY <2>2, <2>4 DEF AnswerStep
<1>3. CASE Bfs!EnterLoop
  <2>1. /\ SameInput /\ UNCHANGED <<visited, open, reached_final, results>> /\ ~first_next'
        /\ pc # "interrupted" /\ (first_next => start \in Nodes /\ ~Matches(o))
      BY <1>0, <1>a, <1>3 DEF Bfs!EnterLoop, Bfs!Front, SameInput, BfsInv
  <2>2. Quiet
      BY <2>1 DEF Quiet
  <2> QED BY <2>2 DEF AnswerStep
<1>4. CASE Bfs!Exhausted \/ Bfs!Expand \/ Bfs!NextTransition \/ Bfs!Interrupt
  <2>1. /\ SameInput /\ UNCHANGED <<visited, reached_final, results>>
        /\ pc \in {"loop", "expand"} /\ ~first_next /\ ~first_next'
        /\ (pc = "expand" => open # <<>>) /\ (pc = "loop" => UNCHANGED open)
      BY <1>4 DEF Bfs!Exhausted, Bfs!Expand, Bfs!NextTransition, Bfs!Interrupt, SameInput, BfsInv, Expanding
  <2>2. Quiet
      BY <2>1 DEF Quiet
  <2> QED BY <2>2 DEF AnswerStep
<1>5. CASE Bfs!Visit
  <2> DEFINE p(r) == <<Connections[open[1][1]][current_transition].to, r.node>>
  <2>1. /\ SameInput /\ pc = "expand" /\ ~first_next /\ ~first_next' /\ open # <<>>
        /\ start \in Nodes /\ results = <<>> /\ Layers(visited, open, start)
        /\ Bfs!Front = open[1] /\ Bfs!Outgoing = Connections[open[1][1]]
      BY <1>5, BfsExpanding DEF Bfs!Visit, SameInput
  <2>2. open \in Seq(DOMAIN visited) /\ open[1] \in DOMAIN visited
    <3>1. open \in Seq(DOMAIN visited)
        BY <2>1 DEF Layers, SortedQueue
    <3> QED BY <2>1, <3>1
  <2>3. PICK r \in iter :
          IF p(r) \in DOMAIN visited
          THEN UNCHANGED <<visited, open, results, pc>>
          ELSE /\ visited' = [x \in DOMAIN visited \cup {p(r)} |->
                                 IF x = p(r) THEN open[1] ELSE visited[x]]
               /\ IF Bfs!IsAnswer(p(r))
                  THEN Bfs!Return(p(r))
                  ELSE Bfs!Push(p(r)) /\ UNCHANGED <<results, pc>>
      BY <1>5, <2>1 DEF Bfs!Visit
  <2> DEFINE q == p(r)
  <2>4. q \in Product /\ q \in Reachable[start]
      BY <2>1, <2>2, BfsReached, VisitedStep
  <2>5. CASE q \in DOMAIN visited
    <3>1. UNCHANGED <<visited, results, pc, open>>
        BY <2>3, <2>5
    <3>2. Quiet
        BY <2>1, <3>1 DEF Quiet
    <3> QED BY <3>2 DEF AnswerStep
  <2>6. CASE q \notin DOMAIN visited
    <3>1. /\ DOMAIN visited' = DOMAIN visited \cup {q}
          /\ IF Matches(q)
             THEN results' = Append(results, q) /\ pc' = "ready" /\ open' = <<>>
             ELSE open' = Append(open, q) /\ UNCHANGED <<results, pc>>
        BY <1>a, <2>3, <2>6 DEF Bfs!Return, Bfs!Push
    <3> HIDE DEF q
    <3>2. CASE Matches(q)
      <4>1. HandsOut(q)
          BY <1>0, <2>1, <2>4, <3>1, <3>2, ReportedEmpty DEF HandsOut
      <4> QED BY <2>4, <4>1 DEF AnswerStep
    <3>3. CASE ~Matches(q)
      <4>1. open' # <<>>
          BY <2>1, <2>2, <3>1, <3>3, AppendFacts
      <4>2. Passes(q)
          BY <2>1, <2>4, <3>1, <3>3, <4>1 DEF Passes
      <4> QED BY <2>4, <4>2 DEF AnswerStep
    <3> QED BY <3>2, <3>3
  <2> QED BY <2>5, <2>6
<1>6. ASSUME NEW n \in NodeIds, NEW e \in NodeIds, Bfs!Reset(n, e) PROVE AnswerStep
  <2>1. open' # <<>>
      BY <1>6, OneNotEmpty DEF Bfs!Reset
  <2>2. DOMAIN visited' = {Origin(n)}
      BY <1>6, BfsNames DEF Bfs!Reset
  <2>3. Restarts
      BY <1>0, <1>6, <2>1, <2>2 DEF Bfs!Reset, Restarts
  <2> QED BY <2>3 DEF AnswerStep
<1> QED BY <1>1, <1>2, <1>3, <1>4, <1>5, <1>6 DEF Bfs!Next, Bfs!Search

LEMMA AnyAnswers == ASSUME AnswerInv, Inv, AnyNext PROVE AnswerStep
<1>1. CASE ~BfsChosen /\ Next
    BY <1>1, DfsAnswers DEF Inv
<1>2. CASE BfsChosen /\ Bfs!Next /\ UNCHANGED <<class, reached_final>>
    BY <1>2, BfsAnswers DEF Inv
<1> QED BY <1>1, <1>2 DEF AnyNext
-----------------------------------------------------------------------------
(* Enumeration: what is handed out are the answers, and all of them when   *)
(* there is nothing left to expand.                                        *)

input == <<class, start, end>>

LEMMA AnswersToInput ==
    ASSUME AnswerInv
    PROVE  /\ input \in Inputs
           /\ AnswersTo[input] = IF Check THEN Answers[start] \cap {end} ELSE Answers[start]
<1>1. input[1] = class /\ input[2] = start /\ input[3] = end
    BY DEF input
<1>2. end \in NodeIds \cup {NoEnd}
    BY DEF AnswerInv, EndsOf
<1>3. input \in Inputs
    BY <1>1, <1>2 DEF AnswerInv, Inputs, input
<1> QED BY <1>1, <1>3 DEF AnswersTo, Check

LEMMA AnswersOf ==
    ASSUME NEW n \in NodeIds
    PROVE  /\ n \notin Nodes => Answers[n] = {}
           /\ n \in Nodes => /\ \A p \in Reachable[n] : IsFinal(p) => p[2] \in Answers[n]
                             /\ \A a \in Answers[n] : \E p \in Reachable[n] : IsFinal(p) /\ a = p[2]
<1>1. Answers[n] = IF n \in Nodes THEN {p[2] : p \in {x \in Reachable[n] : IsFinal(x)}} ELSE {}
    BY DEF Answers
<1> HIDE DEF Answers, Reachable, IsFinal
<1> QED BY <1>1

LEMMA ReportedSound == ASSUME AnswerInv, ~EndIsVar PROVE Reported \subseteq AnswersTo[input]
<1> SUFFICES ASSUME NEW i \in DOMAIN results PROVE results[i][2] \in AnswersTo[input]
    BY DEF Reported
<1>1. start \in Nodes /\ results[i] \in Reachable[start] /\ Matches(results[i])
    BY DEF AnswerInv
<1>2. IsFinal(results[i]) /\ start \in NodeIds
    BY <1>1 DEF Matches
<1>3. results[i][2] \in Answers[start]
    BY <1>1, <1>2, AnswersOf
<1> QED BY <1>1, <1>3, AnswersToInput DEF AnswerInv, Matches

\* With nothing left to expand the visited states are closed under steps.
LEMMA NothingLeft ==
    ASSUME Inv, AnswerInv, open = <<>>, start \in Nodes, ~(Check /\ results # <<>>)
    PROVE  Reachable[start] \subseteq DOMAIN visited
<1>1. DOMAIN open = {}
    OBVIOUS
<1>2. \A p \in DOMAIN visited : \A q \in Product : Step(p, q) => q \in DOMAIN visited
  <2>1. CASE ~BfsChosen
      BY <1>1, <2>1 DEF Inv, DfsInv, LeftInv
  <2>2. CASE BfsChosen
      BY <1>1, <2>2 DEF Inv, BfsInv, BfsChosen, Check, Layers, ExpandedPairs
  <2> QED BY <2>1, <2>2
<1>3. Origin(start) \in DOMAIN visited /\ DOMAIN visited \subseteq Product
    BY DEF AnswerInv, Reachable
<1> QED BY <1>2, <1>3, ReachableLeast

LEMMA ReportedComplete ==
    ASSUME Inv, AnswerInv, ~EndIsVar, open = <<>> PROVE Reported = AnswersTo[input]
<1>1. Reported \subseteq AnswersTo[input] /\ ~first_next
    BY ReportedSound DEF AnswerInv
<1>2. CASE start \notin Nodes
    BY <1>1, <1>2, AnswersToInput, AnswersOf, ReportedEmpty DEF AnswerInv
<1>3. CASE Check /\ results # <<>>
  <2>1. PICK i \in DOMAIN results : TRUE
      BY <1>3 DEF AnswerInv
  <2>2. results[i][2] = end
      BY <1>3, <2>1 DEF AnswerInv, Matches
  <2>3. end \in Reported
      BY <2>1, <2>2 DEF Reported
  <2> QED BY <1>1, <1>3, <2>3, AnswersToInput
<1>4. CASE start \in Nodes /\ ~(Check /\ results # <<>>)
  <2>1. Reachable[start] \subseteq DOMAIN visited
      BY <1>4, NothingLeft
  <2>2. \A p \in Reachable[start] : Matches(p) => p[2] \in Reported
      BY <1>1, <1>4, <2>1 DEF AnswerInv
  <2>3. ASSUME NEW a \in Answers[start], Check => a = end PROVE a \in Reported
    <3>1. PICK p \in Reachable[start] : IsFinal(p) /\ a = p[2]
        BY <1>4, <2>3, AnswersOf
    <3>2. Matches(p)
        BY <2>3, <3>1 DEF AnswerInv, Matches
    <3> QED BY <2>2, <3>1, <3>2
  <2> QED BY <1>1, <2>3, AnswersToInput
<1> QED BY <1>2, <1>3, <1>4

Promise == INSTANCE Enumeration WITH
    Expected <- AnswersTo, reported <- Reported, status <- Status

LEMMA PromiseInit == AnyInit => Promise!Init
<1> SUFFICES ASSUME AnyInit PROVE Promise!Init
    OBVIOUS
<1>1. AnswerInv /\ results = <<>> /\ pc = "ready" /\ first_next
    BY AnswerInit DEF AnyInit, Init, Bfs!Init
<1>2. open # <<>>
    BY <1>1 DEF AnswerInv
<1> QED BY <1>1, <1>2, AnswersToInput, ReportedEmpty DEF Promise!Init, Status

\* The same facts about the state after a step.
LEMMA NextFacts ==
    ASSUME Inv', AnswerInv', ~EndIsVar'
    PROVE  /\ input' \in Inputs /\ Reported' \subseteq AnswersTo[input']
           /\ open' = <<>> => Reported' = AnswersTo[input']
<1>1. (AnswerInv => input \in Inputs)'
    BY AnswersToInput, PTL
<1>2. (AnswerInv /\ ~EndIsVar => Reported \subseteq AnswersTo[input])'
    BY ReportedSound, PTL
<1>3. (Inv /\ AnswerInv /\ ~EndIsVar /\ open = <<>> => Reported = AnswersTo[input])'
    BY ReportedComplete, PTL
<1> QED BY <1>1, <1>2, <1>3

LEMMA PromiseStep ==
    ASSUME AnswerInv, Inv', AnswerInv', ~EndIsVar, AnswerStep
    PROVE  Promise!Next \/ UNCHANGED Promise!vars
<1>0. class' = class /\ ~EndIsVar'
    BY DEF AnswerStep, Quiet, Passes, HandsOut, SameInput, Restarts, EndIsVar
<1>1. CASE Quiet
  <2>1. UNCHANGED <<input, Reported>> /\ pc # "interrupted" /\ (open = <<>> => open' = <<>>)
      BY <1>1 DEF Quiet, SameInput, input, Reported
  <2>2. CASE pc' = "interrupted"
      BY <2>1, <2>2 DEF Status, Promise!Next, Promise!Abort
  <2>3. CASE pc' # "interrupted" /\ open # <<>> /\ open' = <<>>
    <3>1. Status = "open" /\ Status' = "done" /\ Reported = AnswersTo[input]
        BY <1>0, <2>1, <2>3, NextFacts DEF Status
    <3> QED BY <2>1, <3>1 DEF Promise!Next, Promise!Finish
  <2>4. CASE pc' # "interrupted" /\ ~(open # <<>> /\ open' = <<>>)
      BY <2>1, <2>4 DEF Status, Promise!vars
  <2> QED BY <2>2, <2>3, <2>4
<1>2. ASSUME NEW p \in Product, Passes(p) PROVE UNCHANGED Promise!vars
    BY <1>2 DEF Passes, SameInput, input, Reported, Status, Promise!vars
<1>3. ASSUME NEW p \in Product, HandsOut(p) PROVE Promise!Next
  <2>1. /\ UNCHANGED input /\ p[2] \notin Reported /\ results' = Append(results, p)
        /\ Status = "open" /\ Status' = IF open' = <<>> THEN "done" ELSE "open"
      BY <1>3 DEF HandsOut, SameInput, input, Status
  <2>2. Reported' = Reported \cup {p[2]}
    <3>1. p \in SearchStates
        BY DEF Product, SearchStates
    <3> QED BY <2>1, <3>1, ReturnNew DEF AnswerInv
  <2>3. p[2] \in AnswersTo[input] /\ (open' = <<>> => Reported' = AnswersTo[input])
      BY <1>0, <2>1, <2>2, NextFacts
  <2>4. Promise!Report(p[2])
      BY <2>1, <2>2, <2>3 DEF Promise!Report
  <2> QED BY <2>3, <2>4 DEF Promise!Next
<1>4. CASE Restarts
  <2>1. Reported' = {} /\ Status' = "open" /\ input' \in Inputs
      BY <1>0, <1>4, NextFacts DEF Restarts, Reported, Status
  <2> QED BY <2>1 DEF Promise!Next, Promise!Restart
<1> QED BY <1>1, <1>2, <1>3, <1>4 DEF AnswerStep
LEMMA AnswerInvStep == Inv /\ AnswerInv /\ [AnyNext]_all_vars => AnswerInv'
<1> SUFFICES ASSUME Inv, AnswerInv, [AnyNext]_all_vars PROVE AnswerInv'
    OBVIOUS
<1>1. CASE AnyNext
    BY <1>1, AnyAnswers, AnswerKept
<1>2. CASE UNCHANGED all_vars
    BY <1>2 DEF all_vars, vars, AnswerInv, Check, EndIsVar, Matches, Reported, NoNodeTwice
<1> QED BY <1>1, <1>2

LEMMA PromiseNext ==
    ASSUME Inv, AnswerInv, Inv', AnswerInv', ~EndIsVar, [AnyNext]_all_vars
    PROVE  Promise!Next \/ UNCHANGED Promise!vars
<1>1. CASE AnyNext
    BY <1>1, AnyAnswers, PromiseStep
<1>2. CASE UNCHANGED all_vars
    BY <1>2 DEF all_vars, vars, Promise!vars, input, Reported, Status
<1> QED BY <1>1, <1>2

LEMMA AnswersOnce == AnswerInv => NoNodeTwice
BY DEF AnswerInv
=============================================================================
