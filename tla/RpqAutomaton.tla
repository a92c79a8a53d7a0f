---------------------------- MODULE RpqAutomaton ----------------------------
(***************************************************************************)
(* Regular path expressions: what a query writes, the IPath the visitor    *)
(* makes of it, the automaton with epsilon transitions an IPath builds, and*)
(* the words an expression stands for.  A letter is an edge type and the   *)
(* direction the edge is taken in; types are numbered in the order of their*)
(* names, which the determinization sorts by.                              *)
(*                                                                         *)
(* And RPQ_NFA::transform_automaton(): from the automaton with epsilon     *)
(* transitions of a path expression to the deterministic one a search      *)
(* walks.  Four passes follow each other: states joined by an only epsilon *)
(* transition are merged, until nothing merges; every other epsilon        *)
(* transition is replaced by what lies behind it; what the start state no  *)
(* longer reaches is deleted; the sets of states are numbered, depth first.*)
(*                                                                         *)
(* inner_transitions mirrors outer_transitions while states are merged and *)
(* is not read later, so one set of transitions stands for both.           *)
(***************************************************************************)
EXTENDS Integers, Sequences, FiniteSets, TLC

CONSTANTS
    Written,    \* the expressions a query can hold
    MaxWord     \* bound on the length of the words compared

-----------------------------------------------------------------------------
(* What is written.  Brackets are the nesting; a ^ before them inverts     *)
(* what they hold, and a suffix comes after it.                            *)

Type(t) == [op |-> "type", type |-> t]
Hat(w) == [op |-> "hat", arg |-> w]
Seq2(v, w) == [op |-> "sequence", left |-> v, right |-> w]
Alt2(v, w) == [op |-> "alternatives", left |-> v, right |-> w]
Suffix(s, w) == [op |-> s, arg |-> w]                \* "*", "+" or "?"
Times(w, min, max) == [op |-> "times", arg |-> w, min |-> min, max |-> max]

Letter(t, inv) == [type |-> t, inverse |-> inv]
Flip(word) ==
    [i \in DOMAIN word |->
        LET l == word[Len(word) + 1 - i] IN Letter(l.type, ~l.inverse)]

Short(words) == {x \in words : Len(x) <= MaxWord}
Concat(xs, ys) == Short({x \o y : x \in xs, y \in ys})

\* The words of w^min to w^max, and of w*; a power beyond MaxWord adds nothing.
RECURSIVE Power(_, _)
Power(words, n) == IF n = 0 THEN {<<>>} ELSE Concat(Power(words, n - 1), words)
Powers(words, min, max) == UNION {Power(words, n) : n \in min .. max}
Closure(words) == Powers(words \cup {<<>>}, MaxWord, MaxWord)

RECURSIVE Words(_)
Words(w) ==
    CASE w.op = "type" -> {<<Letter(w.type, FALSE)>>}
      [] w.op = "hat" -> {Flip(x) : x \in Words(w.arg)}
      [] w.op = "sequence" -> Concat(Words(w.left), Words(w.right))
      [] w.op = "alternatives" -> Words(w.left) \cup Words(w.right)
      [] w.op = "*" -> Closure(Words(w.arg))
      [] w.op = "+" -> LET words == Words(w.arg) IN Concat(words, Closure(words))
      [] w.op = "?" -> Words(w.arg) \cup {<<>>}
      [] w.op = "times" -> Powers(Words(w.arg), w.min, w.max)

-----------------------------------------------------------------------------
(* IPath                                                                   *)

PathAtom(t, inv) == [type |-> "atom", letter |-> Letter(t, inv)]
PathSequence(ps) == [type |-> "sequence", sequence |-> ps]
PathAlternatives(ps) == [type |-> "alternatives", alternatives |-> ps]

RECURSIVE Nullable(_)
Nullable(p) ==
    CASE p.type = "atom" -> FALSE
      [] p.type = "sequence" -> \A i \in DOMAIN p.sequence : Nullable(p.sequence[i])
      [] p.type = "alternatives" -> \E i \in DOMAIN p.alternatives : Nullable(p.alternatives[i])
      [] p.type \in {"star", "optional"} -> TRUE

\* denull(): what can be repeated without the empty word, for a Kleene star.
RECURSIVE Denull(_)
Denull(p) ==
    CASE p.type \in {"star", "optional"} -> p.path
      [] p.type = "sequence" /\ Nullable(p) ->
             PathAlternatives([i \in DOMAIN p.sequence |-> Denull(p.sequence[i])])
      [] p.type = "alternatives" /\ Nullable(p) ->
             PathAlternatives([i \in DOMAIN p.alternatives |-> Denull(p.alternatives[i])])
      [] OTHER -> p

PathKleeneStar(p) == [type |-> "star", path |-> Denull(p)]
PathOptional(p) == [type |-> "optional", path |-> p]

RECURSIVE Invert(_)
Invert(p) ==
    CASE p.type = "atom" -> PathAtom(p.letter.type, ~p.letter.inverse)
      [] p.type = "sequence" ->
             PathSequence([i \in DOMAIN p.sequence |->
                               Invert(p.sequence[Len(p.sequence) + 1 - i])])
      [] p.type = "alternatives" ->
             PathAlternatives([i \in DOMAIN p.alternatives |-> Invert(p.alternatives[i])])
      [] p.type = "star" -> PathKleeneStar(Invert(p.path))
      [] p.type = "optional" -> PathOptional(Invert(p.path))

\* The visitor, below an even or (inv) an odd number of ^.
RECURSIVE Visit(_, _)
Visit(w, inv) ==
    CASE w.op = "type" -> PathAtom(w.type, inv)
      [] w.op = "hat" -> Visit(w.arg, ~inv)
      [] w.op = "sequence" ->
             LET l == Visit(w.left, inv)
                 r == Visit(w.right, inv)
             IN  PathSequence(IF inv THEN <<r, l>> ELSE <<l, r>>)
      [] w.op = "alternatives" -> PathAlternatives(<<Visit(w.left, inv), Visit(w.right, inv)>>)
      [] w.op = "*" -> PathKleeneStar(Visit(w.arg, inv))
      [] w.op = "+" -> LET p == Visit(w.arg, inv) IN PathSequence(<<p, PathKleeneStar(p)>>)
      [] w.op = "?" -> LET p == Visit(w.arg, inv) IN IF Nullable(p) THEN p ELSE PathOptional(p)
      [] w.op = "times" ->
             LET p == Visit(w.arg, inv)
             IN  PathSequence([i \in 1 .. (IF w.min > w.max THEN w.min ELSE w.max) |->
                                   IF i <= w.min THEN p ELSE PathOptional(p)])

-----------------------------------------------------------------------------
(* RPQ_NFA: states 0 .. total_states - 1, of which 0 is the start state.   *)

Epsilon == Letter(0, FALSE)      \* the null type: types are positive
Transition(from, letter, to) == [from |-> from, letter |-> letter, to |-> to]
EpsilonTransitions(ends, to) == {Transition(e, Epsilon, to) : e \in ends}

\* Mutant: the end states keep their numbers.
RenameTransitions(nfa, n) ==
    [total_states |-> n + nfa.total_states,
     transitions |-> {Transition(t.from + n, t.letter, t.to + n) : t \in nfa.transitions},
     end_states |-> nfa.end_states]

\* rename_and_merge(): the states of the other automaton come after n others.
Rename(nfa, n) ==
    [total_states |-> n + nfa.total_states,
     transitions |-> {Transition(t.from + n, t.letter, t.to + n) : t \in nfa.transitions},
     end_states |-> {e + n : e \in nfa.end_states}]

Then(nfa, child) ==
    LET renamed == Rename(child, nfa.total_states)
    IN  [renamed EXCEPT !.transitions =
            @ \cup nfa.transitions \cup EpsilonTransitions(nfa.end_states, nfa.total_states)]

Or(nfa, child) ==
    LET renamed == Rename(child, nfa.total_states)
    IN  [renamed EXCEPT
            !.transitions = @ \cup nfa.transitions \cup EpsilonTransitions({0}, nfa.total_states),
            !.end_states = @ \cup nfa.end_states]

\* An automaton of two states is taken for that of an atom.
StarOfTwoStates(nfa) ==
    LET t == CHOOSE x \in nfa.transitions : x.from = 0
    IN  [total_states |-> 1, transitions |-> {Transition(0, t.letter, 0)}, end_states |-> {0}]

Star(nfa) ==
    IF nfa.total_states = 2 THEN StarOfTwoStates(nfa)
    ELSE [nfa EXCEPT !.transitions = @ \cup EpsilonTransitions(nfa.end_states, 0),
                     !.end_states = @ \cup {0}]

NoChild == [total_states |-> 1, transitions |-> {}, end_states |-> {}]

RECURSIVE BaseAutomaton(_), SequenceOf(_, _), AlternativesOf(_, _)
SequenceOf(ps, n) ==
    IF n = 1 THEN BaseAutomaton(ps[1]) ELSE Then(SequenceOf(ps, n - 1), BaseAutomaton(ps[n]))
AlternativesOf(ps, n) ==
    IF n = 0 THEN NoChild ELSE Or(AlternativesOf(ps, n - 1), BaseAutomaton(ps[n]))
BaseAutomaton(p) ==
    CASE p.type = "atom" ->
             [total_states |-> 2, transitions |-> {Transition(0, p.letter, 1)}, end_states |-> {1}]
      [] p.type = "sequence" -> SequenceOf(p.sequence, Len(p.sequence))
      [] p.type = "alternatives" -> AlternativesOf(p.alternatives, Len(p.alternatives))
      [] p.type = "star" -> Star(BaseAutomaton(p.path))
      [] p.type = "optional" ->
             LET nfa == BaseAutomaton(p.path) IN [nfa EXCEPT !.end_states = @ \cup {0}]

-----------------------------------------------------------------------------
(* The automaton of a path.                                                *)

VARIABLES
    written,        \* the expression of the query
    inverted,       \* the search starts at the other end, over path.invert()
    nfa,            \* the RPQ_NFA
    pc,             \* the pass under way
    s,              \* the loop variable of a pass over the states
    repeat_while,   \* this pass over the states merged something
    open,           \* stack of sets of states, its top first
    mapping,        \* the number of every set of states seen
    visited,        \* the sets of states expanded
    current_set,    \* the set under expansion
    reached,        \* the letters of reached_grouped_by_type still to connect
    is_final_state, from_to_connections     \* the RPQ_DFA

dfa_vars ==
    <<open, mapping, visited, current_set, reached, is_final_state, from_to_connections>>
vars == <<written, inverted, nfa, pc, s, repeat_while, dfa_vars>>

\* The path the planner asks the automaton of.
Path(w, inv) == IF inv THEN Invert(Visit(w, FALSE)) ELSE Visit(w, FALSE)

-----------------------------------------------------------------------------
(* Reachability                                                            *)

Reached(transitions, states) ==
    LET Explore[seen \in SUBSET Nat] ==
            LET next == {t.to : t \in {u \in transitions : u.from \in seen}}
            IN  IF next \subseteq seen THEN seen ELSE Explore[seen \cup next]
    IN  Explore[states]

get_reachable_states(source) == Reached(nfa.transitions, {source})

\* Mutant: those behind a single one.
get_epsilon_successors(transitions, state) ==
    {t.to : t \in {u \in transitions : u.from = state /\ u.letter = Epsilon}}

\* The states behind one or more epsilon transitions.
get_epsilon_closure(transitions, state) ==
    LET epsilon == {t \in transitions : t.letter = Epsilon}
    IN  Reached(epsilon, {t.to : t \in {u \in epsilon : u.from = state}})

-----------------------------------------------------------------------------
(* delete_mergeable_states()                                               *)

merge_states(a, destiny, source) ==
    LET Moved(state) == IF state = source THEN destiny ELSE state
    IN  [a EXCEPT
            !.transitions = {Transition(Moved(t.from), t.letter, Moved(t.to)) : t \in @},
            !.end_states = IF source \in @ THEN @ \cup {destiny} ELSE @]

\* The start state is never the one that goes away.
JoinStates(a, state, v) ==
    IF v = 0 THEN merge_states(a, 0, state) ELSE merge_states(a, state, v)

\* Mutants: a state merged with itself, and an epsilon transition that is not
\* the only one.
OnlyBeforeOrItself(a, state) ==
    {v \in 0 .. a.total_states - 1 :
        {t \in a.transitions : t.to = state} = {Transition(v, Epsilon, state)}}
SomeAfter(a, state) ==
    {v \in 0 .. a.total_states - 1 \ {state} : Transition(state, Epsilon, v) \in a.transitions}

\* The states v # state joined to it by its only transition in, or out.
OnlyBefore(a, state) ==
    {v \in 0 .. a.total_states - 1 \ {state} :
        {t \in a.transitions : t.to = state} = {Transition(v, Epsilon, state)}}
OnlyAfter(a, state) ==
    {v \in 0 .. a.total_states - 1 \ {state} :
        {t \in a.transitions : t.from = state} = {Transition(state, Epsilon, v)}}

JoinBefore(a, state) ==
    IF OnlyBefore(a, state) = {} THEN a
    ELSE JoinStates(a, state, CHOOSE v \in OnlyBefore(a, state) : TRUE)
JoinAfter(a, state) ==
    IF OnlyAfter(a, state) = {} THEN a
    ELSE JoinStates(a, state, CHOOSE v \in OnlyAfter(a, state) : TRUE)

\* The first test of an iteration, then the second on what the first left.
MergeState ==
    /\ pc = "merge" /\ s < nfa.total_states
    /\ \E joined \in {JoinBefore(nfa, s)} :
           /\ nfa' = JoinAfter(joined, s)
           /\ repeat_while' =
                  (repeat_while \/ OnlyBefore(nfa, s) # {} \/ OnlyAfter(joined, s) # {})
    /\ s' = s + 1
    /\ UNCHANGED <<written, inverted, pc, dfa_vars>>

EndOfMergePass ==
    /\ pc = "merge" /\ s = nfa.total_states
    /\ pc' = IF repeat_while THEN "merge" ELSE "epsilon"
    /\ repeat_while' = FALSE
    /\ s' = 0
    /\ UNCHANGED <<written, inverted, nfa, dfa_vars>>

-----------------------------------------------------------------------------
(* delete_epsilon_transitions() and delete_unreachable_states()            *)

WithoutEpsilon(a, state) ==
    LET closure == get_epsilon_closure(a.transitions, state)
        behind == {t \in a.transitions : t.from \in closure /\ t.letter # Epsilon}
        kept == {t \in a.transitions : t.from # state \/ t.letter # Epsilon}
    IN  [a EXCEPT
            !.transitions = kept \cup {Transition(state, t.letter, t.to) : t \in behind},
            !.end_states = IF closure \cap @ = {} THEN @ ELSE @ \cup {state}]

DeleteEpsilon ==
    /\ pc = "epsilon" /\ s < nfa.total_states
    /\ nfa' = WithoutEpsilon(nfa, s)
    /\ s' = s + 1
    /\ UNCHANGED <<written, inverted, pc, repeat_while, dfa_vars>>

\* Then the automaton to build is set up with the start state.
DeleteUnreachable ==
    /\ pc = "epsilon" /\ s = nfa.total_states
    /\ LET reachable == get_reachable_states(0)
       IN  nfa' = [nfa EXCEPT
                      !.transitions = {t \in @ : t.from \in reachable},
                      !.end_states = @ \cap reachable]
    /\ open' = <<{0}>>
    /\ mapping' = ({0} :> 0)
    /\ is_final_state' = (0 :> (0 \in nfa'.end_states))
    /\ from_to_connections' = (0 :> <<>>)
    /\ pc' = "determinize"
    /\ UNCHANGED <<written, inverted, s, repeat_while, visited, current_set, reached>>

-----------------------------------------------------------------------------
(* The loop over open of transform_automaton()                             *)

LettersOf(set) == {t.letter : t \in {u \in nfa.transitions : u.from \in set}}

reached_grouped_by_type(set, letter) ==
    {t.to : t \in {u \in nfa.transitions : u.from \in set /\ u.letter = letter}}

\* The order of the std::map: by type, then an edge before an inverse one.
FirstOf(letters) ==
    CHOOSE l \in letters :
        \A m \in letters : l.type < m.type \/ (l.type = m.type /\ (l.inverse => m.inverse))

Pop ==
    /\ pc = "determinize" /\ reached = {} /\ open # <<>>
    /\ current_set' = Head(open)
    /\ open' = Tail(open)
    /\ visited' = visited \cup {current_set'}
    /\ reached' = IF current_set' \in visited THEN {} ELSE LettersOf(current_set')
    /\ UNCHANGED <<written, inverted, nfa, pc, s, repeat_while, mapping, is_final_state, from_to_connections>>

IsFinal(set) == set \cap nfa.end_states # {}

\* A set of states without a number takes the next one and is pushed.
Connect ==
    /\ pc = "determinize" /\ reached # {}
    /\ LET letter == FirstOf(reached)
           set == reached_grouped_by_type(current_set, letter)
           current_state == mapping[current_set]
           new_state == Cardinality(DOMAIN mapping)
       IN  /\ reached' = reached \ {letter}
           /\ \/ /\ set \in DOMAIN mapping
                 /\ from_to_connections' =
                        [from_to_connections EXCEPT ![current_state] =
                            Append(@, Transition(current_state, letter, mapping[set]))]
                 /\ UNCHANGED <<open, mapping, is_final_state>>
              \/ /\ set \notin DOMAIN mapping
                 /\ mapping' = mapping @@ (set :> new_state)
                 /\ open' = <<set>> \o open
                 /\ is_final_state' = is_final_state @@ (new_state :> IsFinal(set))
                 /\ from_to_connections' =
                        [from_to_connections EXCEPT ![current_state] =
                            Append(@, Transition(current_state, letter, new_state))]
                        @@ (new_state :> <<>>)
    /\ UNCHANGED <<written, inverted, nfa, pc, s, repeat_while, current_set, visited>>

Return ==
    /\ pc = "determinize" /\ reached = {} /\ open = <<>>
    /\ pc' = "done"
    /\ UNCHANGED <<written, inverted, nfa, s, repeat_while, dfa_vars>>

-----------------------------------------------------------------------------
Init ==
    /\ written \in Written
    /\ inverted \in BOOLEAN
    /\ nfa = BaseAutomaton(Path(written, inverted))
    /\ pc = "merge" /\ s = 0 /\ repeat_while = FALSE
    /\ open = <<>> /\ mapping = <<>> /\ visited = {} /\ current_set = {} /\ reached = {}
    /\ is_final_state = <<>> /\ from_to_connections = <<>>

Next ==
    \/ MergeState \/ EndOfMergePass
    \/ DeleteEpsilon \/ DeleteUnreachable
    \/ Pop \/ Connect \/ Return

Spec == Init /\ [][Next]_vars /\ WF_vars(Next)

-----------------------------------------------------------------------------
(* The words an automaton accepts, up to MaxWord                           *)

\* The states a set is in with no letter read, and with one.
Behind(transitions, states) == Reached({t \in transitions : t.letter = Epsilon}, states)
After(transitions, states, letter) ==
    Behind(transitions, {t.to : t \in {u \in transitions : u.from \in states /\ u.letter = letter}})

\* The words of n letters there are, each with the states it leads to.
RECURSIVE Runs(_, _)
Runs(transitions, n) ==
    IF n = 0 THEN {[word |-> <<>>, states |-> Behind(transitions, {0})]}
    ELSE UNION {{[word |-> Append(r.word, letter), states |-> After(transitions, r.states, letter)] :
                    letter \in {t.letter : t \in {u \in transitions : u.from \in r.states}} \ {Epsilon}} :
                r \in Runs(transitions, n - 1)}

Accepted(transitions, final) ==
    {r.word : r \in {x \in UNION {Runs(transitions, n) : n \in 0 .. MaxWord} :
                        x.states \cap final # {}}}

AcceptedByNFA(a) == Accepted(a.transitions, a.end_states)
AcceptedByDFA ==
    Accepted(UNION {{from_to_connections[q][i] : i \in DOMAIN from_to_connections[q]} :
                        q \in DOMAIN from_to_connections},
             {q \in DOMAIN is_final_state : is_final_state[q]})

Asked == IF inverted THEN {Flip(x) : x \in Words(written)} ELSE Words(written)

-----------------------------------------------------------------------------
(* Where a construction is exact                                           *)

StartIsEntered(p) == \E t \in BaseAutomaton(p).transitions : t.to = 0
EndIsLeft(p) ==
    LET a == BaseAutomaton(p) IN \E t \in a.transitions : t.from \in a.end_states

RECURSIVE Parts(_)
Parts(p) ==
    {p} \cup CASE p.type = "atom" -> {}
               [] p.type = "sequence" -> UNION {Parts(p.sequence[i]) : i \in DOMAIN p.sequence}
               [] p.type = "alternatives" ->
                      UNION {Parts(p.alternatives[i]) : i \in DOMAIN p.alternatives}
               [] p.type \in {"star", "optional"} -> Parts(p.path)

\* What is made optional is not entered again at its start, and what is
\* repeated is neither entered at its start nor left at its ends.
Closed(p) ==
    \A q \in Parts(p) :
        /\ q.type = "optional" => ~StartIsEntered(q.path)
        /\ q.type = "star" => ~StartIsEntered(q.path) /\ ~EndIsLeft(q.path)

\* An automaton of two states under a star is that of an atom.
TwoStatesAreAnAtom(p) ==
    \A q \in Parts(p) :
        q.type = "star" /\ BaseAutomaton(q.path).total_states = 2 => ~EndIsLeft(q.path)

-----------------------------------------------------------------------------
(* Properties                                                              *)

\* Whatever is written, and from whichever end the search starts, every word
\* of the expression is accepted by the automaton the search walks: no answer
\* is lost between the parser and the search.
NoWordLost == pc = "done" /\ TwoStatesAreAnAtom(Path(written, inverted)) => Asked \subseteq AcceptedByDFA

\* When what is repeated or optional is closed, the automaton accepts nothing
\* else: the search finds the paths of the expression and no others.
ExactWhenClosed == pc = "done" /\ Closed(Path(written, inverted)) => AcceptedByDFA = Asked

\* No merge loses a word, and replacing epsilon transitions or deleting states
\* neither loses nor adds one.
PassesKeepWords ==
    [][/\ AcceptedByNFA(nfa) \subseteq AcceptedByNFA(nfa')
       /\ pc = "epsilon" => AcceptedByNFA(nfa) = AcceptedByNFA(nfa')]_vars

\* The merge passes come to an end, and so does the numbering.
Terminates == <>(pc = "done")

=============================================================================
