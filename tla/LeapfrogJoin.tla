---------------------------- MODULE LeapfrogJoin ----------------------------
(***************************************************************************)
(* LeapfrogJoin: for each variable in turn the iterators that have it leap *)
(* over each other to a key they share; below the last of these variables  *)
(* what is left of every relation is enumerated.  First the iterators of a *)
(* join, over a B+tree or over the table of the edges.  An iterator is at  *)
(* a record, and at a level of its columns: it moves among the records     *)
(* that agree with its own before that level.  What a call returns is a    *)
(* record of the iterator after it and of ok, the value returned.          *)
(***************************************************************************)
EXTENDS BptPages

CONSTANTS MaxId     \* UINT64_MAX

\* A record with the columns of another up to a level, then the given ones.
Prefixed(tuple, level, at, rest) ==
    [i \in DOMAIN tuple |-> IF i < level THEN tuple[i] ELSE IF i = level THEN at ELSE rest]

Same(iter) == [iter |-> iter, ok |-> FALSE]
At(iter, leaf, position, record) ==
    [iter |-> [iter EXCEPT !.leaf = leaf, !.position = position, !.tuple = record], ok |-> TRUE]

-----------------------------------------------------------------------------
(* LeapfrogBptIter                                                         *)

\* The directories of the stack that remain, the top one first.
Popped(iter, min) ==
    LET stack == iter.stack
        keep[i \in DOMAIN stack] ==
            IF i = Len(stack) \/ check_dir_range(iter.tree.dirs[stack[i]], min) THEN i ELSE keep[i + 1]
    IN  SubSeq(stack, keep[1], Len(stack))

\* Mutant: the first record of the next leaf is missed.
StayInLeaf(tree, leaf, position) ==
    IF position < tree.leaves[leaf].value_count
    THEN [leaf |-> leaf, position |-> position, found |-> TRUE]
    ELSE [leaf |-> leaf, position |-> position, found |-> FALSE]

\* A position after the last record of a leaf is the first one of the next leaf.
FirstAfter(tree, leaf, position) ==
    LET next == tree.leaves[leaf].next_leaf
    IN  IF position < tree.leaves[leaf].value_count
        THEN [leaf |-> leaf, position |-> position, found |-> TRUE]
        ELSE [leaf |-> next, position |-> 0, found |-> next # 0]

\* In the leaf, or else down from a directory of the stack whose range has min.
internal_search(iter, min, max) ==
    LET tree == iter.tree
        inside == check_range(tree.leaves[iter.leaf], min)
        stack == Popped(iter, min)
        below == search_path(tree, stack[1], min)
        moved == [iter EXCEPT !.stack = Reverse(Tail(below.dirs)) \o stack]
        base == IF inside THEN iter ELSE moved
        leaf == IF inside THEN iter.leaf ELSE below.leaf
        at == FirstAfter(tree, leaf, search_index(tree.leaves[leaf], min))
        record == tree.leaves[at.leaf].records[at.position + 1]
    IN  IF at.found /\ LessEq(record, max) THEN At(base, at.leaf, at.position, record)
        ELSE Same(base)

\* At the first record of the tree; at any record, when it has none.
BptIter(tree, columns) ==
    LET zeros == [i \in 1 .. columns |-> 0]
        path == search_path(tree, 0, zeros)
        first == tree.leaves[path.leaf]
    IN  [kind |-> "bpt", tree |-> tree, stack |-> Reverse(path.dirs), leaf |-> path.leaf, position |-> 0,
         level |-> -1, tuple |-> IF first.value_count > 0 THEN first.records[1] ELSE zeros, enum |-> <<>>]

\* Columns are numbered from 1, levels from 0.
BptDown(iter) ==
    LET i == iter.level + 2
    IN  internal_search([iter EXCEPT !.level = @ + 1],
            Prefixed(iter.tuple, i, 0, 0), Prefixed(iter.tuple, i, MaxId, MaxId)).iter

BptSeek(iter, key) ==
    LET i == iter.level + 1
    IN  internal_search(iter, Prefixed(iter.tuple, i, key, 0), Prefixed(iter.tuple, i, MaxId, MaxId))
\* Mutant: the key is looked for again.
NextSame(iter) == BptSeek(iter, iter.tuple[iter.level + 1])
BptNext(iter) == BptSeek(iter, iter.tuple[iter.level + 1] + 1)

BptOpen(iter, terms) ==
    LET bound(rest) == [i \in DOMAIN iter.tuple |-> IF i <= Len(terms) THEN terms[i] ELSE rest]
    IN  internal_search([iter EXCEPT !.level = Len(terms) - 1], bound(0), bound(MaxId))

BptEnum(iter) ==
    [iter EXCEPT !.enum = UpTo(Chain(iter.tree, iter.leaf, iter.position),
                               Prefixed(iter.tuple, iter.level + 2, MaxId, MaxId))]

-----------------------------------------------------------------------------
(* LeapfrogEdgeTableIter: rows are found by their number, the edge.        *)

HasRow(iter, edge) == edge \in DOMAIN iter.tree
Row(iter, edge) == <<edge>> \o iter.tree[edge]
AtRow(iter, edge) ==
    IF HasRow(iter, edge) THEN [iter |-> [iter EXCEPT !.tuple = Row(iter, edge)], ok |-> TRUE]
    ELSE Same(iter)

TableIter(rows, columns) ==
    [kind |-> "table", tree |-> rows, level |-> -1, tuple |-> [i \in 1 .. columns |-> 0],
     enum |-> <<>>]

TableDown(iter) ==
    LET down == [iter EXCEPT !.level = @ + 1]
    IN  IF down.level = 0 THEN AtRow(down, 1).iter ELSE down

TableSeek(iter, key) ==
    IF iter.level = 0 THEN AtRow(iter, key)
    ELSE [iter |-> iter, ok |-> iter.tuple[iter.level + 1] >= key]
TableNext(iter) ==
    IF iter.level = 0 THEN AtRow(iter, iter.tuple[1] + 1) ELSE Same(iter)

\* Without terms the level is not set.  A given edge is read from the row after
\* its own.
TableOpen(iter, terms) ==
    IF terms = <<>> THEN AtRow(iter, 1)
    ELSE LET row == AtRow(iter, terms[1] + 1)
             opened == [row.iter EXCEPT !.tuple[1] = terms[1]]
         IN  IF row.ok /\ SubSeq(opened.tuple, 1, Len(terms)) = terms
             THEN [iter |-> [opened EXCEPT !.level = Len(terms) - 1], ok |-> TRUE]
             ELSE Same(IF row.ok THEN opened ELSE iter)

\* All rows, or the one of the edge.
TableEnum(iter) ==
    [iter EXCEPT !.enum =
        IF iter.level = -1
        THEN [i \in 1 .. Len(iter.tree) - iter.tuple[1] + 1 |-> Row(iter, iter.tuple[1] + i - 1)]
        ELSE <<iter.tuple>>]

-----------------------------------------------------------------------------
(* Both                                                                    *)

Key(iter) == iter.tuple[iter.level + 1]
Up(iter) == [iter EXCEPT !.level = @ - 1]
Down(iter) == IF iter.kind = "bpt" THEN BptDown(iter) ELSE TableDown(iter)
Seek(iter, key) == IF iter.kind = "bpt" THEN BptSeek(iter, key) ELSE TableSeek(iter, key)
NextKey(iter) == IF iter.kind = "bpt" THEN BptNext(iter) ELSE TableNext(iter)
OpenTerms(iter, terms) ==
    IF iter.kind = "bpt" THEN BptOpen(iter, terms) ELSE TableOpen(iter, terms)
BeginEnumeration(iter) == IF iter.kind = "bpt" THEN BptEnum(iter) ELSE TableEnum(iter)

-----------------------------------------------------------------------------
(* LeapfrogJoin                                                            *)

CONSTANTS
    Queries,    \* a function to iterators with their variables and records, and an order of variables
    Ids         \* the values of the variables that the parent assigns

\* iters: kind, initial, intersection, enumeration (sequences of variables, the
\* columns), and relation (the records); var_order, enumeration_level.
VARIABLES
    name,           \* of the query
    iters,
    iters_for_var,  \* the iterators of a variable, in order of their keys
    level,
    pc, p,          \* where next() is, and the iterator it moves
    input,          \* what the parent assigned
    binding,        \* what this operator assigned
    answers         \* history: the bindings returned since the last reset

join_vars == <<iters, iters_for_var, level, binding>>
vars == <<name, join_vars, pc, p, input, answers>>

VarsOf(q) == ToSet(q.var_order)
InputsOf(q) == [UNION {ToSet(q.iters[i].initial) : i \in DOMAIN q.iters} -> Ids]

\* The values of the terms that an iterator is opened with.
Terms(iter, value) == [c \in DOMAIN iter.initial |-> value[iter.initial[c]]]

query == Queries[name]
Iters == DOMAIN query.iters
EnumerationLevel == query.enumeration_level
Vars == VarsOf(query)

\* The column of the first variable that is enumerated.
Enumerated(i) == query.iters[i].enumeration
FirstEnumerated(i) == Len(query.iters[i].initial) + Len(query.iters[i].intersection)

Mine == iters_for_var[level + 1]
LastIter == Last(Mine)
KeyOf(i) == Key(iters[i])

-----------------------------------------------------------------------------
\* The iterators of a variable, sorted by their keys; equal ones stay in order.
Sorted(order, its) ==
    LET place(i, seq) ==
            LET before == {j \in DOMAIN seq : Key(its[seq[j]]) <= Key(its[i])}
            IN  InsertAt(seq, Cardinality(before) + 1, i)
    IN  FoldLeft(LAMBDA seq, i : place(i, seq), <<>>, order)

\* What an iterator enumerates goes to the binding.
Assigned(bound, i, record) ==
    [v \in Vars |->
        IF v \in ToSet(Enumerated(i))
        THEN record[FirstEnumerated(i) + CHOOSE c \in DOMAIN Enumerated(i) : Enumerated(i)[c] = v]
        ELSE bound[v]]

\* Every iterator begins its enumeration, and all but the first go to their
\* first record.
Begun(its) == [i \in Iters |->
    LET begun == BeginEnumeration(its[i])
    IN  IF i = 1 THEN begun ELSE [begun EXCEPT !.enum = Tail(@)]]

\* down(): at a variable its iterators go down and are sorted.
Deeper(its, bound, new_level) ==
    LET order == iters_for_var[new_level + 1]
        down == [i \in Iters |-> IF i \in ToSet(order) THEN Down(its[i]) ELSE its[i]]
        first == FoldLeft(LAMBDA b, i : Assigned(b, i, Head(BeginEnumeration(its[i]).enum)), bound,
                          [i \in 1 .. Len(its) - 1 |-> i + 1])
    IN  /\ level' = new_level
        /\ IF new_level < EnumerationLevel
           THEN /\ iters' = down /\ binding' = bound
                /\ iters_for_var' = [iters_for_var EXCEPT ![new_level + 1] = Sorted(order, down)]
           ELSE /\ iters' = Begun(its) /\ binding' = first
                /\ UNCHANGED iters_for_var

\* open_terms() of the iterators, up to the first that finds nothing.
Opened(value) ==
    LET open[i \in 0 .. Len(iters)] ==
            IF i = 0 THEN [its |-> iters, ok |-> TRUE]
            ELSE LET before == open[i - 1]
                     now == OpenTerms(before.its[i], Terms(query.iters[i], value))
                 IN  IF ~before.ok THEN before
                     ELSE [its |-> [before.its EXCEPT ![i] = now.iter], ok |-> now.ok]
    IN  open[Len(iters)]

\* begin(), and reset() with other values of the parent's variables.  A table
\* opened without terms keeps its level: it is not opened at another than its first.
Open(value) ==
    /\ pc \in {"closed", "idle", "ended"}
    /\ \A i \in Iters : (iters[i].kind = "table" /\ query.iters[i].initial = <<>>) => iters[i].level = -1
    /\ input' = value
    /\ IF Opened(value).ok THEN Deeper(Opened(value).its, binding, 0)
       ELSE /\ level' = -1 /\ iters' = Opened(value).its /\ UNCHANGED <<iters_for_var, binding>>
    /\ pc' = "idle" /\ answers' = {}
    /\ UNCHANGED <<name, p>>

-----------------------------------------------------------------------------
(* next()                                                                  *)

Call ==
    /\ pc = "idle" /\ pc' = "next"
    /\ UNCHANGED <<name, join_vars, p, input, answers>>

\* The iterator that moved last has the greatest key.
MaxKey == KeyOf(IF p = 1 THEN LastIter ELSE Mine[p - 1])

\* An interruption is seen when next() begins, and before every seek.
Interrupt ==
    /\ pc = "idle" \/ (pc = "seek" /\ KeyOf(Mine[p]) # MaxKey)
    /\ pc' = "interrupted"
    /\ UNCHANGED <<name, join_vars, p, input, answers>>

NoMore ==
    /\ pc = "next" /\ level < 0 /\ pc' = "ended"
    /\ UNCHANGED <<name, join_vars, p, input, answers>>

\* To the next variable: the first iterator has the least key.
Find ==
    /\ pc = "next" /\ 0 <= level /\ level < EnumerationLevel
    /\ pc' = "seek" /\ p' = 1
    /\ UNCHANGED <<name, join_vars, input, answers>>

\* All keys are equal.
Intersect ==
    LET v == query.var_order[level + 1]
    IN  /\ pc = "seek" /\ KeyOf(Mine[p]) = MaxKey
        /\ Deeper(iters, [binding EXCEPT ![v] = MaxKey], level + 1)
        /\ pc' = "next"
        /\ UNCHANGED <<name, p, input, answers>>

Leap ==
    LET i == Mine[p]
        sought == Seek(iters[i], MaxKey)
    IN  /\ pc = "seek" /\ KeyOf(i) # MaxKey
        /\ iters' = [iters EXCEPT ![i] = sought.iter]
        /\ IF sought.ok THEN p' = (p % Len(Mine)) + 1 /\ UNCHANGED pc
           ELSE pc' = "back" /\ UNCHANGED p
        /\ UNCHANGED <<name, iters_for_var, level, binding, input, answers>>

Upped(order) == [i \in Iters |-> IF i \in ToSet(order) THEN Up(iters[i]) ELSE iters[i]]

\* No key is shared: the last iterator of the variable before moves on.  At the
\* first variable the iterators stay where they are.
Back ==
    /\ pc = "back" /\ level > 0
    /\ LET up == Upped(Mine)
           last == Last(iters_for_var[level])
           next == NextKey(up[last])
       IN  /\ iters' = [up EXCEPT ![last] = next.iter]
           /\ pc' = IF next.ok THEN "next" ELSE "back"
    /\ level' = level - 1
    /\ UNCHANGED <<name, iters_for_var, binding, p, input, answers>>

Exhausted ==
    /\ pc = "back" /\ level = 0
    /\ level' = -1 /\ pc' = "ended"
    /\ UNCHANGED <<name, iters, iters_for_var, binding, p, input, answers>>

\* The iterators before the one that moved on begin again, and move too.
Advanced(i) == [j \in Iters |->
    LET reset == IF j < i THEN BeginEnumeration(iters[j]) ELSE iters[j]
    IN  IF j <= i THEN [reset EXCEPT !.enum = Tail(@)] ELSE reset]

\* Some iterator has another record to enumerate.
Enumerate ==
    LET more == {i \in Iters : iters[i].enum # <<>>}
        i == CHOOSE j \in more : \A k \in more : j <= k
        first(j) == IF j < i THEN Head(BeginEnumeration(iters[j]).enum) ELSE Head(iters[j].enum)
        bound == FoldLeft(LAMBDA b, j : Assigned(b, j, first(j)), binding, [j \in 1 .. i |-> j])
    IN  /\ pc = "next" /\ level = EnumerationLevel /\ more # {}
        /\ iters' = Advanced(i)
        /\ binding' = bound /\ answers' = answers \cup {bound}
        /\ pc' = "idle"
        /\ UNCHANGED <<name, iters_for_var, level, p, input>>

\* The enumeration is over: without up(), for there was no variable there.
Backtrack ==
    /\ pc = "next" /\ level = EnumerationLevel /\ \A i \in Iters : iters[i].enum = <<>>
    /\ level' = level - 1
    /\ pc' = IF level = 0 THEN "ended" ELSE "more"
    /\ UNCHANGED <<name, iters, iters_for_var, binding, p, input, answers>>

\* The last iterator moves on, or the variable is left.
More ==
    /\ pc = "more"
    /\ IF level < 0 THEN pc' = "ended" /\ UNCHANGED <<iters, level>>
       ELSE LET next == NextKey(iters[LastIter])
            IN  IF next.ok
                THEN iters' = [iters EXCEPT ![LastIter] = next.iter] /\ pc' = "next" /\ UNCHANGED level
                ELSE iters' = Upped(Mine) /\ level' = level - 1 /\ UNCHANGED pc
    /\ UNCHANGED <<name, iters_for_var, binding, p, input, answers>>

-----------------------------------------------------------------------------
Columns(i) == Len(query.iters[i].initial) + Len(query.iters[i].intersection) + Len(query.iters[i].enumeration)
NewIter(i) ==
    LET relation == query.iters[i].relation
    IN  IF query.iters[i].kind = "bpt"
        THEN BptIter(import_tree(InOrder(relation)), Columns(i))
        ELSE TableIter(relation, Columns(i))

Init ==
    /\ name \in DOMAIN Queries
    /\ iters = [i \in Iters |-> NewIter(i)]
    /\ iters_for_var = [l \in 1 .. EnumerationLevel |->
           SelectSeq([i \in Iters |-> i],
                     LAMBDA i : query.var_order[l] \in ToSet(query.iters[i].intersection))]
    /\ level = -1 /\ pc = "closed" /\ p = 1
    /\ binding = [v \in Vars |-> 0]
    /\ input \in InputsOf(query)
    /\ answers = {}

Step ==
    \/ NoMore \/ Find \/ Intersect \/ Leap \/ Back \/ Exhausted
    \/ Enumerate \/ Backtrack \/ More

Next ==
    \/ \E value \in InputsOf(query) : Open(value)
    \/ Call \/ Interrupt \/ Step

\* A call of next() goes on until it returns: WF_vars(Step) written out, as one of
\* the steps is enabled whenever a call is running.
Running == pc \in {"next", "seek", "back", "more"}
Fairness == []<>~Running \/ []<><<Step>>_vars
Spec == Init /\ [][Next]_vars /\ Fairness

-----------------------------------------------------------------------------
(* Properties                                                              *)

RecordsOf(iter) ==
    IF iter.kind = "bpt" THEN iter.relation
    ELSE {<<e>> \o iter.relation[e] : e \in DOMAIN iter.relation}

\* The join of the relations, for a value of the parent's variables.
Joined(q, value) ==
    {b \in [VarsOf(q) -> 1 .. MaxId - 1] : \A i \in DOMAIN q.iters :
        LET columns == q.iters[i].intersection \o q.iters[i].enumeration
        IN  Terms(q.iters[i], value) \o [c \in DOMAIN columns |-> b[columns[c]]] \in RecordsOf(q.iters[i])}

Inputs == UNION {{<<n, value>> : value \in InputsOf(Queries[n])} : n \in DOMAIN Queries}
AnswersTo == [i \in Inputs |-> Joined(Queries[i[1]], i[2])]
Status == CASE pc = "ended" -> "done"
            [] pc = "interrupted" -> "aborted"
            [] OTHER -> "open"

\* Every answer of the join is returned, once, and nothing else is, also after
\* resets with other values: no key is leapt over, none is met again, and the
\* stacks of directories that failed searches leave do no harm.
Promise == INSTANCE Enumeration WITH
    Inputs <- Inputs,
    Expected <- AnswersTo,
    input <- <<name, input>>,
    reported <- answers,
    status <- Status
EnumeratesJoin == Promise!Spec

\* Every call of next() returns or throws.
CallsReturn == Running ~> ~Running
==============================================================================
