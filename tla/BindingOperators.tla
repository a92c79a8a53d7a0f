--------------------------- MODULE BindingOperators ---------------------------
(****************************************************************************)
(* From a MATCH with its OPTIONALs to operators on bindings, and their      *)
(* execution.  BindingIdIterVisitor, the plans of the patterns and the      *)
(* order in which they are joined, by LeapfrogOptimizer or pair by pair:    *)
(* costs are left out, any order that an optimizer may prefer is a plan.    *)
(* Then the operators that a plan builds are called through the root until  *)
(* it has no more.                                                          *)
(****************************************************************************)
EXTENDS BindingIters

CONSTANT AnonMask   \* anonymous node n is the object AnonMask + n

\* A graph: edges (a sequence of <<from, to, type>>), labels (<<object, label>>),
\* properties (<<object, key, value>>), nodes, and a number of anonymous nodes.
\* A pattern has a kind and ids: of an edge <<from, to, type, edge>>; a "term" is an
\* isolated one.
EdgesOf(graph) ==
    {Append(graph.edges[e], EdgeMask + e) : e \in DOMAIN graph.edges}
Objects(graph) ==
    graph.nodes \cup {AnonMask + n : n \in 1 .. graph.anons}
        \cup {EdgeMask + e : e \in DOMAIN graph.edges}
RecordsOf(kind, graph) ==
    CASE kind = "edge"     -> EdgesOf(graph)
      [] kind = "label"    -> graph.labels
      [] kind = "property" -> graph.properties
      [] kind \in {"object", "term"} -> {<<o>> : o \in Objects(graph)}

VarsOf(pattern) == {id[2] : id \in {i \in ToSet(pattern.ids) : IsVar(i)}}
Known(id, assigned) == IsVar(id) => id[2] \in assigned

\* get_vars() of a plan.
NewVars(pattern, assigned) ==
    IF pattern.kind = "object" THEN VarsOf(pattern) ELSE VarsOf(pattern) \ assigned

Permuted(tuple, columns) == [c \in DOMAIN columns |-> tuple[columns[c]]]

-----------------------------------------------------------------------------
(* LeapfrogOptimizer: an order for the variables that patterns share, and  *)
(* for every pattern an index with its columns in this order.              *)

\* The plans that have a variable.
PlansOf(v, bgp, assigned) == {k \in DOMAIN bgp : v \in NewVars(bgp[k], assigned)}
Shared(bgp, assigned) ==
    {v \in UNION {NewVars(bgp[k], assigned) : k \in DOMAIN bgp} :
        Cardinality(PlansOf(v, bgp, assigned)) > 1}

\* A variable in a plan of a chosen one goes first.
VarOrders(bgp, assigned) ==
    LET connected(v, chosen) ==
            \E w \in chosen : PlansOf(v, bgp, assigned) \cap PlansOf(w, bgp, assigned) # {}
        chosen(order, k) == {order[j] : j \in 1 .. k - 1}
        left(order, k) == {order[j] : j \in k .. Len(order)}
    IN  {order \in SetToSeqs(Shared(bgp, assigned)) :
            \A k \in DOMAIN order :
                \/ connected(order[k], chosen(order, k))
                \/ ~\E v \in left(order, k) : connected(v, chosen(order, k))}

\* The index of an id: -1 when it is known, its place in the order of the variables,
\* or Enumerated.
Enumerated == 1000
IndexOf(id, order, assigned) ==
    IF Known(id, assigned) THEN -1
    ELSE IF id[2] \in ToSet(order) THEN (CHOOSE k \in DOMAIN order : order[k] = id[2]) - 1
    ELSE Enumerated

\* The columns of the indexes, in the order in which the code tries them; for an
\* edge the table first, which has the edge before the others.
EdgeIndexes ==
    <<<<4, 1, 2, 3>>, <<4, 1, 3, 2>>, <<4, 2, 1, 3>>, <<4, 2, 3, 1>>, <<4, 3, 1, 2>>,
      <<4, 3, 2, 1>>, <<1, 2, 3, 4>>, <<2, 3, 1, 4>>, <<3, 1, 2, 4>>, <<3, 2, 1, 4>>>>
LabelIndexes == <<<<1, 2>>, <<2, 1>>>>
PropertyIndexes == <<<<1, 2, 3>>, <<2, 3, 1>>>>
Candidates(kind) ==
    CASE kind = "edge"     -> EdgeIndexes
      [] kind = "label"    -> LabelIndexes
      [] kind = "property" -> PropertyIndexes
      [] kind = "object"   -> <<>>

\* The indexes whose columns come in the order of the variables.
LeapColumns(pattern, order, assigned) ==
    LET index(c) == IndexOf(pattern.ids[c], order, assigned)
    IN  SelectSeq(Candidates(pattern.kind),
            LAMBDA columns : \A c \in 2 .. Len(columns) :
                index(columns[c - 1]) <= index(columns[c]))

\* get_leapfrog_iter(); a variable that is twice in an edge is not supported.
CanLeap(pattern, order, assigned) ==
    /\ LeapColumns(pattern, order, assigned) # <<>>
    /\ pattern.kind = "edge" =>
            \A c, d \in 1 .. 4 :
                c # d /\ IsVar(pattern.ids[c]) => pattern.ids[c] # pattern.ids[d]

\* LeapfrogJoin goes down a column for every variable in its order, so that is
\* what the columns after the known ones are, whatever their ids in the pattern.
LeapfrogIter(pattern, order, assigned, graph) ==
    LET columns == Head(LeapColumns(pattern, order, assigned))
        ids == Permuted(pattern.ids, columns)
        initial == SelectSeq(ids, LAMBDA id : Known(id, assigned))
        intersection == SelectSeq(order, LAMBDA v : v \in VarsOf(pattern))
        enumeration == SelectSeq(ids, LAMBDA id : IndexOf(id, order, assigned) = Enumerated)
    IN  [ids |-> initial \o [k \in DOMAIN intersection |-> <<"var", intersection[k]>>] \o enumeration,
         records |-> {Permuted(r, columns) : r \in RecordsOf(pattern.kind, graph)}]

\* try_get_iter(): at most one operator for each order.
LeapfrogPlans(bgp, assigned, graph) ==
    {Leap([k \in DOMAIN bgp |-> LeapfrogIter(bgp[k], order, assigned, graph)],
          UNION {NewVars(bgp[k], assigned) : k \in DOMAIN bgp}) :
        order \in {o \in VarOrders(bgp, assigned) :
                      \A k \in DOMAIN bgp : CanLeap(bgp[k], o, assigned)}}
LeapfrogFails(bgp, assigned) ==
    \E order \in VarOrders(bgp, assigned) :
        \E k \in DOMAIN bgp : ~CanLeap(bgp[k], order, assigned)

-----------------------------------------------------------------------------
(* The index of a pattern                                                  *)

\* The columns of the index of an edge: from, to, type and edge are 1 to 4.
EdgeColumns(ids, assigned) ==
    LET known(c) == Known(ids[c], assigned)
    IN  CASE ids[1] = ids[2] /\ ids[1] = ids[3] -> <<1, 4>>
          [] ids[1] = ids[2] /\ ids[1] # ids[3] -> IF known(3) THEN <<3, 1, 4>> ELSE <<1, 3, 4>>
          [] ids[1] # ids[2] /\ ids[2] = ids[3] -> IF known(1) THEN <<1, 2, 4>> ELSE <<2, 1, 4>>
          [] ids[1] # ids[2] /\ ids[1] = ids[3] -> IF known(2) THEN <<2, 1, 4>> ELSE <<1, 2, 4>>
          [] OTHER ->
                IF known(1) THEN IF known(3) THEN <<3, 1, 2, 4>> ELSE <<1, 2, 3, 4>>
                ELSE IF known(2) THEN <<2, 3, 1, 4>> ELSE <<3, 1, 2, 4>>
LabelColumns(ids, assigned) == IF Known(ids[1], assigned) THEN <<1, 2>> ELSE <<2, 1>>
PropertyColumns(ids, assigned) == IF Known(ids[1], assigned) THEN <<1, 2, 3>> ELSE <<2, 3, 1>>
Columns(pattern, assigned) ==
    CASE pattern.kind = "edge"     -> EdgeColumns(pattern.ids, assigned)
      [] pattern.kind = "label"    -> LabelColumns(pattern.ids, assigned)
      [] pattern.kind = "property" -> PropertyColumns(pattern.ids, assigned)

\* The records of an index: those with equal columns where the pattern has equal ids.
Indexed(pattern, columns, graph) ==
    LET ids == pattern.ids
    IN  {Permuted(r, columns) :
            r \in {s \in RecordsOf(pattern.kind, graph) :
                      pattern.kind = "edge" =>
                        \A c, d \in 1 .. 3 : ids[c] = ids[d] => s[c] = s[d]}}

IndexScan(pattern, assigned, graph) ==
    LET columns == Columns(pattern, assigned)
        ids == Permuted(pattern.ids, columns)
    IN  Scan(Indexed(pattern, columns, graph), ids,
             {c \in DOMAIN ids : ~Known(ids[c], assigned)})

UnjointObject(id, graph) ==
    Union(<<Scan({<<n>> : n \in graph.nodes}, <<id>>, {1}),
            ObjectEnum(id, AnonMask, graph.anons),
            ObjectEnum(id, EdgeMask, Len(graph.edges))>>)

\* get_binding_id_iter() of a plan with these variables assigned.
IterOf(pattern, assigned, graph) ==
    CASE pattern.kind = "object" -> UnjointObject(pattern.ids[1], graph)
      [] pattern.kind = "edge" /\ Known(pattern.ids[4], assigned) ->
            Lookup(graph.edges, pattern.ids, NewVars(pattern, assigned))
      [] OTHER -> IndexScan(pattern, assigned, graph)

-----------------------------------------------------------------------------
(* The join of the patterns                                                *)

\* The variables of the plans before the k-th.
VarsBefore(k, order, bgp, assigned) ==
    UNION {NewVars(bgp[order[j]], assigned) : j \in 1 .. k - 1}

\* An order of the greedy optimizer: no cartesian product while there is a pattern
\* that has a variable of those before it.
GreedyOrder(order, bgp, assigned) ==
    \A k \in 2 .. Len(order) :
        LET before == VarsBefore(k, order, bgp, assigned)
            joins(j) == NewVars(bgp[order[j]], assigned) \cap before # {}
        IN  joins(k) \/ ~\E j \in k .. Len(order) : joins(j)

Orders(bgp, assigned) == {o \in SetToSeqs(DOMAIN bgp) : GreedyOrder(o, bgp, assigned)}

NestedLoops(order, bgp, assigned, graph) ==
    LET iter(k) == IterOf(bgp[order[k]], assigned \cup VarsBefore(k, order, bgp, assigned), graph)
    IN  FoldLeft(LAMBDA lhs, k : Join(lhs, iter(k)), iter(1), [k \in 1 .. Len(bgp) - 1 |-> k + 1])

\* The properties that WHERE demands join every bgp, and stand for an object that
\* is nowhere else.
Pushed(bgp, where) ==
    LET demanded == UNION {VarsOf(where[k]) : k \in DOMAIN where}
        alone(pattern) == pattern.kind = "object" /\ VarsOf(pattern) \subseteq demanded
    IN  SelectSeq(bgp, LAMBDA pattern : pattern.kind # "term" /\ ~alone(pattern)) \o where

\* An isolated term is not in the graph: visit() returns at once.
TermMissing(bgp, graph) ==
    \E pattern \in ToSet(bgp) : pattern.kind = "term" /\ pattern.ids[1][2] \notin Objects(graph)

\* visit(OpBasicGraphPattern&): nested loops when leapfrog joins are not possible.
BgpPlans(bgp, where, assigned, graph) ==
    LET base == Pushed(bgp, where)
        loops == {NestedLoops(order, base, assigned, graph) : order \in Orders(base, assigned)}
    IN  IF TermMissing(bgp, graph) THEN {Empty}
        ELSE IF base = <<>> THEN {SingleResult}
        ELSE IF Len(base) = 1 THEN loops
        ELSE LeapfrogPlans(base, assigned, graph)
                \cup (IF LeapfrogFails(base, assigned) THEN loops ELSE {})

\* What a bgp adds to assigned_vars: the variables of the properties that WHERE demands
\* too, wherever else in the query they are.
BgpVars(bgp, where, graph) ==
    IF TermMissing(bgp, graph) THEN {} ELSE UNION {VarsOf(p) : p \in ToSet(Pushed(bgp, where))}

\* A query has a bgp and optionals, which are queries.
RECURSIVE QueryVars(_, _, _)
QueryVars(query, where, graph) ==
    BgpVars(query.bgp, where, graph)
        \cup UNION {QueryVars(o, where, graph) : o \in ToSet(query.optionals)}

\* visit(OpOptional&): each optional has the variables of those before it assigned.
RECURSIVE Plans(_, _, _, _)
Plans(query, where, assigned, graph) ==
    LET assigned_at(k) ==
            assigned \cup BgpVars(query.bgp, where, graph)
                \cup UNION {QueryVars(query.optionals[j], where, graph) : j \in 1 .. k - 1}
        WithOptional(plans, k) ==
            {LeftOuterJoin(p, o) :
                p \in plans, o \in Plans(query.optionals[k], where, assigned_at(k), graph)}
    IN  FoldLeft(WithOptional, BgpPlans(query.bgp, where, assigned, graph),
                 [k \in DOMAIN query.optionals |-> k])

-----------------------------------------------------------------------------
(* What a query means                                                      *)

Relations(bgp, graph) ==
    [k \in DOMAIN bgp |-> [ids |-> bgp[k].ids, records |-> RecordsOf(bgp[k].kind, graph)]]

\* The matches of the bgp, each with those of the optionals that there are.
RECURSIVE Matches(_, _, _)
Matches(query, b, graph) ==
    LET Optional(found, k) ==
            UNION {LET more == Matches(query.optionals[k], m, graph)
                   IN  IF more = {} THEN {m} ELSE more : m \in found}
    IN  FoldLeft(Optional, Matching(Relations(query.bgp, graph), b),
                 [k \in DOMAIN query.optionals |-> k])

\* The matches that have the properties WHERE demands. Those of a variable that is in an
\* OPTIONAL only are not conditions on its matches: they are patterns outside of it.
MatchesWhere(query, where, b, graph) ==
    LET outer == UNION {VarsOf(p) : p \in ToSet(query.bgp)}
        conditions == SelectSeq(where, LAMBDA p : VarsOf(p) \subseteq outer)
        patterns == SelectSeq(where, LAMBDA p : ~(VarsOf(p) \subseteq outer))
        matches == Matches([query EXCEPT !.bgp = @ \o patterns], b, graph)
    IN  {m \in matches : Matching(Relations(conditions, graph), m) # {}}

-----------------------------------------------------------------------------
(* Execution                                                               *)

CONSTANTS
    Queries, Graphs,    \* functions, from names
    Where,              \* the properties that the WHERE of a query demands
    Vars,               \* the variables of the queries
    Inputs              \* pairs of the name of a query and the name of a graph

VARIABLES
    input,
    root,       \* the operator
    binding,
    status,     \* "planned", "open", "done" or "aborted"
    answers,    \* history: the bindings after the calls that returned true
    exact       \* history: those before a lookup missed a row

vars == <<input, root, binding, status, answers, exact>>

Unbound == [v \in Vars |-> Null]

\* A constant function, which TLC computes once.
AnswersTo ==
    [i \in Inputs |->
        MatchesWhere(Queries[i[1]], Where[i[1]], Unbound, Graphs[i[2]])]

Init ==
    /\ input \in Inputs
    /\ root \in Plans(Queries[input[1]], Where[input[1]], {}, Graphs[input[2]])
    /\ binding = Unbound
    /\ status = "planned"
    /\ answers = <<>> /\ exact = <<>>

Begin ==
    /\ status = "planned"
    /\ \E begun \in {Restart(root, binding)} :
        /\ root' = begun.iter
        /\ binding' = begun.binding
    /\ status' = "open"
    /\ UNCHANGED <<input, answers, exact>>

\* next() of the root; a parent may call it again when it has returned false.
CallNext ==
    /\ status \in {"open", "done"}
    /\ \E next \in {NextOf(root, binding)} :
        /\ root' = next.iter
        /\ binding' = next.binding
        /\ status' = IF next.ok THEN status ELSE "done"
        /\ answers' = IF next.ok THEN Append(answers, next.binding) ELSE answers
        /\ exact' = IF LostRow(next.iter) THEN exact ELSE answers'
    /\ UNCHANGED input

\* A scan or an enumeration finds interruption_requested and throws.
Interrupt ==
    /\ status = "open"
    /\ status' = "aborted"
    /\ UNCHANGED <<input, root, binding, answers, exact>>

Next == Begin \/ CallNext \/ Interrupt

Spec == Init /\ [][Next]_vars

-----------------------------------------------------------------------------
\* A query returns each of its matches once, whatever the order of the joins, with
\* the variables of an OPTIONAL that has no match null, those of its joins included,
\* and with what the parent assigned untouched: the operators share one binding, and
\* reset() reads there what the operators before have just assigned. Nothing is said
\* from a lookup on that takes what it assigned itself for an edge before for a value to
\* compare with, and misses a row.
Promise == INSTANCE Enumeration WITH
    Inputs <- Inputs, Expected <- AnswersTo, input <- input, reported <- ToSet(exact),
    status <- IF LostRow(root) THEN "aborted"
              ELSE IF \E i, j \in DOMAIN answers : i < j /\ answers[i] = answers[j] THEN "repeated"
              ELSE IF status = "planned" THEN "open" ELSE status
EnumeratesMatches == Promise!Spec

\* The iterator of an OPTIONAL sets only variables of its own to null when it has no
\* match: what the pattern outside it assigned is in every row.
OuterKept ==
    \A k \in DOMAIN answers :
        \A p \in ToSet(Queries[input[1]].bgp) : \A v \in VarsOf(p) : answers[k][v] # Null
===============================================================================
