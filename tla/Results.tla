------------------------------ MODULE Results ------------------------------
(***************************************************************************)
(* The operators between the bindings of a MATCH and the rows a client     *)
(* gets: the plan a query gets, and how it runs.  Each operator runs to    *)
(* its end before its parent takes the rows it handed out.                 *)
(***************************************************************************)
EXTENDS OrderBy

CONSTANTS
    Queries,        \* records: where, group, order, items, aggs, distinct, limit
    Tables,         \* the rows a MATCH finds, without the properties pushed into it
    Owner,          \* of the variables that are properties: the variable ?x of ?x.age
    Hash, InitialDepth, MaxTuples

VARIABLES
    query, table,
    plan,           \* the operators above the one that runs
    global_depth, dir, buckets

Distinct == INSTANCE DistinctHash
hash_vars == <<global_depth, dir, buckets>>
vars == <<operator, child, taken, out, pc, sort_vars, query, table, plan, hash_vars>>

ASSUME PageAssumption == PageSize \in Nat \ {0} /\ MaxTuples \in Nat \ {0} /\ InitialDepth \in Nat

-----------------------------------------------------------------------------
(* Conditions.  A "property" is a variable like ?x.age.                    *)

NoExpr == [op |-> "none"]
Equals(v, value) == [op |-> "=", var |-> v, value |-> value, property |-> FALSE]
PropertyEquals(v, value) == [op |-> "=", var |-> v, value |-> value, property |-> TRUE]
Less(v, value) == [op |-> "<", var |-> v, value |-> value, property |-> FALSE]
IsNull(v) == [op |-> "is null", var |-> v]
And(list) == [op |-> "and", list |-> list]
Or(list) == [op |-> "or", list |-> list]
Not(e) == [op |-> "not", list |-> <<e>>]

\* The first operand that is not true is the result of a conjunction, and the
\* first that is not false that of a disjunction, if it is a truth value.
FirstNot(values, b) ==
    LET others == {i \in DOMAIN values : values[i] # Bool(b)}
    IN  IF others = {} THEN Bool(b)
        ELSE IF values[Min(others)] = Bool(~b) THEN Bool(~b) ELSE Null

RECURSIVE eval(_, _)
eval(e, row) ==
    CASE e.op = "=" -> Bool(row[e.var] = e.value)
      [] e.op = "<" -> Bool(compare(row[e.var], e.value) < 0)
      [] e.op = "is null" -> Bool(row[e.var] = Null)
      [] e.op = "and" -> FirstNot([i \in DOMAIN e.list |-> eval(e.list[i], row)], TRUE)
      [] e.op = "or" -> FirstNot([i \in DOMAIN e.list |-> eval(e.list[i], row)], FALSE)
      [] e.op = "not" -> 
            LET value == eval(e.list[1], row)
            IN  IF value[1] = BOOL THEN Bool(value = Bool(FALSE)) ELSE Null

\* Expr2BindingExpr: the equalities that become properties of the MATCH, and
\* what is left to evaluate.
Dropped(e) == [expr |-> NoExpr, properties |-> {}]
Pushed(e) == [expr |-> NoExpr, properties |-> {<<e.var, e.value>>}]
Kept(e) == [expr |-> e, properties |-> {}]

AndOf(parts) ==
    LET kept == SelectSeq([i \in DOMAIN parts |-> parts[i].expr], LAMBDA e : e # NoExpr)
    IN  [expr |-> IF kept = <<>> THEN NoExpr ELSE IF Len(kept) = 1 THEN kept[1] ELSE And(kept),
         properties |-> UNION {parts[i].properties : i \in DOMAIN parts}]

\* Only what has to hold in any case is pushed.
Pushes(e, can_push_outside) == can_push_outside /\ e.op = "=" /\ e.property

RECURSIVE visit(_, _)
visit(e, can_push_outside) ==
    CASE Pushes(e, can_push_outside) -> Pushed(e)
      [] e.op = "and" -> AndOf([i \in DOMAIN e.list |-> visit(e.list[i], can_push_outside)])
      [] e.op \in {"or", "not"} ->
            LET parts == [i \in DOMAIN e.list |-> visit(e.list[i], FALSE)]
            IN  [expr |-> [e EXCEPT !.list = [i \in DOMAIN parts |-> parts[i].expr]],
                 properties |-> UNION {parts[i].properties : i \in DOMAIN parts}]
      [] OTHER -> Kept(e)

\* The child of Match only has rows with the properties.
Matching(rows, properties) ==
    SelectSeq(rows, LAMBDA row : \A p \in properties : row[p[1]] = p[2])

-----------------------------------------------------------------------------
(* Which queries are accepted, and their plan                              *)

VarsOf(order) == {order[i].var : i \in DOMAIN order}
Items(q) == ToSet(q.items)
Inside(q) == {q.aggs[a].inside : a \in {x \in DOMAIN q.aggs : q.aggs[x].func # "count all"}}

\* What is aggregated is not in a group, what is not aggregated is in all of it,
\* by itself or as a property.
Names(v) == {v} \cup {Owner[p] : p \in {v} \cap DOMAIN Owner}
Accepted(q) ==
    /\ q.group = <<>> => Items(q) \cap DOMAIN q.aggs = {} \/ Items(q) \subseteq DOMAIN q.aggs
    /\ q.group # <<>> =>
           /\ \A v \in (Items(q) \cup VarsOf(q.order)) \ DOMAIN q.aggs : Names(v) \cap ToSet(q.group) # {}
           /\ \A v \in Inside(q) : Names(v) \cap ToSet(q.group) = {}

GroupSaved(q) ==
    ((Items(q) \cup VarsOf(q.order)) \ DOMAIN q.aggs) \cup Inside(q) \cup ToSet(q.group)

OrderByOperator(order, saved) == [name |-> "order by", order |-> order, saved |-> saved]
AggregationOperator(q) == [name |-> "aggregation", group |-> q.group, saved |-> GroupSaved(q), aggs |-> q.aggs]
DistinctOperator(q) == [name |-> "distinct", vars |-> q.items]
Ascending(group) == [i \in DOMAIN group |-> [var |-> group[i], ascending |-> TRUE]]

\* DISTINCT is done on the identifiers of the MATCH, unless there are conditions.
DistinctIntoId(q) == q.distinct /\ q.where = NoExpr

Plan(q) ==
    LET condition == visit(q.where, TRUE).expr
        ops(enabled, list) == IF enabled THEN list ELSE <<>>
    IN  ops(DistinctIntoId(q) /\ DOMAIN q.aggs = {}, <<DistinctOperator(q)>>)
        \o ops(condition # NoExpr, <<[name |-> "where", condition |-> condition]>>)
        \o ops(q.group # <<>>, <<OrderByOperator(Ascending(q.group), GroupSaved(q)), AggregationOperator(q)>>)
        \o ops(q.order # <<>>, <<OrderByOperator(q.order, VarsOf(q.order) \cup Items(q))>>)
        \o ops(q.group = <<>> /\ DOMAIN q.aggs # {}, <<AggregationOperator(q)>>)
        \o ops(q.distinct /\ ~DistinctIntoId(q), <<DistinctOperator(q)>>)
        \o <<[name |-> "return", limit |-> q.limit]>>

-----------------------------------------------------------------------------
(* The operators that take a row at a time                                 *)

Init ==
    /\ query \in {q \in Queries : Accepted(q)} /\ table \in Tables
    /\ operator = [name |-> "match"]
    /\ plan = Plan(query)
    /\ child = Matching(table, visit(query.where, TRUE).properties)
    /\ taken = 0 /\ out = <<>> /\ pc = "next"
    /\ total_pages = 0 /\ source = <<>> /\ dest = <<>>
    /\ runs_to_merge = 1 /\ start_page = 0 /\ middle = 0 /\ end_page = 0 /\ merge = <<>>
    /\ current_page = 0 /\ page_position = 0
    /\ global_depth = 0 /\ dir = <<>> /\ buckets = <<>>

Is(name) == operator.name = name
HasRow == pc = "next" /\ taken < Len(child)
Row == child[taken + 1]
ToParent(row) == out' = Append(out, row)

unchanged == <<operator, child, sort_vars, query, table, plan>>

\* Match hands out what its child finds.
NextMatch ==
    /\ Is("match") /\ HasRow
    /\ out' = child /\ taken' = Len(child)
    /\ UNCHANGED <<unchanged, pc, hash_vars>>

NextWhere ==
    /\ Is("where") /\ HasRow
    /\ taken' = taken + 1
    /\ out' = IF eval(operator.condition, Row) = Bool(TRUE) THEN Append(out, Row) ELSE out
    /\ UNCHANGED <<unchanged, pc, hash_vars>>

TupleOfRow == [i \in DOMAIN operator.vars |-> Row[operator.vars[i]]]
NextDistinct ==
    /\ Is("distinct") /\ HasRow
    /\ \E tuple \in {TupleOfRow} : \E number \in {Distinct!BucketNumber(tuple)} :
           \/ /\ Distinct!IsIn(tuple, number)
              /\ taken' = taken + 1
              /\ UNCHANGED <<out, hash_vars>>
           \/ /\ ~Distinct!IsIn(tuple, number) /\ ~Distinct!IsFull(number)
              /\ Distinct!Insert(tuple, number)
              /\ taken' = taken + 1 /\ ToParent(Row)
           \/ /\ ~Distinct!IsIn(tuple, number) /\ Distinct!IsFull(number)
              /\ Distinct!SplitBucket(number) \/ Distinct!SplitDirectory(number)
              /\ UNCHANGED <<taken, out>>
    /\ UNCHANGED <<unchanged, pc>>

\* The rows from the next one on that have its group.
SameGroup(group, lhs, rhs) == \A i \in DOMAIN group : lhs[group[i]] = rhs[group[i]]
Group ==
    LET same == {n \in taken + 1 .. Len(child) :
                     \A i \in taken + 1 .. n : SameGroup(operator.group, child[i], Row)}
    IN  SubSeq(child, taken + 1, Max(same))

Numbers(values) == SelectSeq(values, IsNumeric)
Amounts(values) == {value[2] : value \in ToSet(Numbers(values))}
AggMax(values) == IF Amounts(values) = {} THEN Null ELSE <<FLOAT, Max(Amounts(values))>>
AggMin(values) == IF Amounts(values) = {} THEN Null ELSE <<FLOAT, Min(Amounts(values))>>
Some(values) == SelectSeq(values, LAMBDA value : value # Null)

Aggregate(agg, rows) ==
    IF agg.func = "count all" THEN <<INT, Len(rows)>>
    ELSE LET values == [i \in DOMAIN rows |-> rows[i][agg.inside]]
         IN  CASE agg.func = "count" -> <<INT, Len(Some(values))>>
               [] agg.func = "count distinct" -> <<INT, Cardinality(ToSet(Some(values)))>>
               [] agg.func = "sum" ->
                    <<FLOAT, FoldLeft(LAMBDA sum, value : sum + value[2], 0, Numbers(values))>>
               [] agg.func = "max" -> AggMax(values)
               [] agg.func = "min" -> AggMin(values)

GroupRow(rows) ==
    [v \in operator.saved |-> rows[1][v]] @@ [a \in DOMAIN operator.aggs |-> Aggregate(operator.aggs[a], rows)]

NextGroup ==
    /\ Is("aggregation") /\ HasRow
    /\ operator.saved \subseteq DOMAIN Row
    /\ taken' = taken + Len(Group)
    /\ ToParent(GroupRow(Group))
    /\ UNCHANGED <<unchanged, pc, hash_vars>>

\* OrderBy has no other variables than those it saved.
LogicException ==
    /\ Is("aggregation") /\ HasRow
    /\ ~ operator.saved \subseteq DOMAIN Row
    /\ pc' = "failed"
    /\ UNCHANGED <<unchanged, taken, out, hash_vars>>

NextReturn ==
    /\ Is("return") /\ HasRow /\ taken < operator.limit
    /\ taken' = taken + 1
    /\ ToParent(Row)
    /\ UNCHANGED <<unchanged, pc, hash_vars>>

AtEnd ==
    \/ Is("order by") /\ Delivered
    \/ ~Is("order by") /\ pc = "next" /\ taken = Len(child)
    \/ Is("return") /\ pc = "next" /\ taken = operator.limit

\* The parent begins with what the operator that is at its end handed out.
NextOperator ==
    /\ AtEnd /\ plan # <<>>
    /\ operator' = Head(plan) /\ plan' = Tail(plan)
    /\ child' = out /\ taken' = 0 /\ out' = <<>>
    /\ pc' = IF operator'.name = "order by" THEN "begin" ELSE "next"
    /\ IF operator'.name = "distinct" THEN Distinct!EmptyTable ELSE UNCHANGED hash_vars
    /\ UNCHANGED <<sort_vars, query, table>>

Finish ==
    /\ AtEnd /\ plan = <<>>
    /\ pc' = "done"
    /\ UNCHANGED <<unchanged, taken, out, hash_vars>>

OfOrderBy(A) == Is("order by") /\ A /\ UNCHANGED <<query, table, plan, hash_vars>>

Next ==
    \/ NextMatch \/ NextWhere \/ NextDistinct \/ NextGroup \/ LogicException \/ NextReturn
    \/ OfOrderBy(SortStep) \/ OfOrderBy(Interrupt)
    \/ NextOperator \/ Finish

\* The thread of the session goes on until the query has ended.
Ended == pc \in {"done", "failed", "interrupted"}
FairSpec == Init /\ [][Next]_vars /\ ([]<>Ended \/ []<><<Next>>_vars)

-----------------------------------------------------------------------------
(* Properties                                                              *)

\* After any splits of buckets and directory a tuple is found where its hash leads,
\* and is there once: DISTINCT forgets none and confuses no two.
DirectoryExact == Is("distinct") => Distinct!DirectoryExact

\* What the query asks for: the rows that satisfy the whole condition, or one for
\* each of their groups, as they are to be returned and ordered.
Selected == SelectSeq(table, LAMBDA row : query.where = NoExpr \/ eval(query.where, row) = Bool(TRUE))
Needed == Items(query) \cup IF query.distinct THEN {} ELSE VarsOf(query.order)
Part(row, variables) == [v \in variables |-> row[v]]
GroupOf(key) == SelectSeq(Selected, LAMBDA row : Part(row, DOMAIN key) = key)
AnswerOfGroup(key) ==
    [a \in DOMAIN query.aggs |-> Aggregate(query.aggs[a], GroupOf(key))] @@ GroupOf(key)[1]
Wanted ==
    LET keys == {Part(Selected[i], ToSet(query.group)) : i \in DOMAIN Selected}
        grouped == query.group # <<>> \/ DOMAIN query.aggs # {}
        part(row) == Part(row, Needed)
        bag == IF grouped THEN LET rows == {AnswerOfGroup(key) : key \in keys}
                               IN  [p \in {part(r) : r \in rows} |-> Cardinality({r \in rows : part(r) = p})]
               ELSE LET rows == [i \in DOMAIN Selected |-> part(Selected[i])] IN ToBag(rows)
    IN  IF query.distinct THEN [row \in DOMAIN bag |-> 1] ELSE bag

Handed == ToBag([i \in DOMAIN out |-> Part(out[i], Needed)])

\* A query that ends hands out what it asks for: no row more or less than the whole
\* condition selects, each as often as it is there or once, in the order it wants,
\* one for each group, and if not all of them then the first ones.
AnswersQuery ==
    /\ pc = "done" =>
           /\ Handed \sqsubseteq Wanted
           /\ Len(out) = Min({query.limit, BagCardinality(Wanted)})
           /\ query.order # <<>> /\ ~query.distinct =>
                  /\ \A i, j \in DOMAIN out : i < j => Precedes(query.order, out[i], out[j])
                  /\ \A row \in DOMAIN (Wanted (-) Handed) : out # <<>> =>
                         Precedes(query.order, out[Len(out)], row)
    /\ pc = "failed" => query.group = <<>> /\ query.order # <<>> /\ DOMAIN query.aggs # {}

\* Every query ends: no pass of the sort repeats a run and no bucket is split for ever.
QueryEnds == <>Ended
=============================================================================
