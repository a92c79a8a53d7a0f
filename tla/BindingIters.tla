----------------------------- MODULE BindingIters -----------------------------
(***************************************************************************)
(* The operators on bindings.  They share the binding of the query: next() *)
(* of an operator assigns its variables there, and the operators over it   *)
(* read them.  A call is a function of the operator and the binding, and   *)
(* its value has both after the call, and ok, what next() returns.         *)
(***************************************************************************)
EXTENDS Integers, Record, SequencesExt

CONSTANTS
    MaxId,      \* UnassignedVar::get_max()
    EdgeMask    \* edge e is the object EdgeMask + e

Null == 0

\* An Id is a variable, <<"var", name>>, or an object, <<"object", id>>.
IsVar(id) == id[1] = "var"
ValueOf(id, b) == IF IsVar(id) THEN b[id[2]] ELSE id[2]
With(b, id, value) == IF IsVar(id) THEN [b EXCEPT ![id[2]] = value] ELSE b

\* The binding with the columns of a record assigned, and with variables of it null.
Extended(b, ids, record, columns) ==
    FoldLeft(LAMBDA bound, c : IF c \in columns THEN With(bound, ids[c], record[c]) ELSE bound,
             b, [c \in DOMAIN ids |-> c])
Nulled(b, ids, columns) == Extended(b, ids, [c \in DOMAIN ids |-> Null], columns)

Called(iter, b, ok) == [iter |-> iter, binding |-> b, ok |-> ok]

-----------------------------------------------------------------------------
(* The operators that read the graph                                       *)

\* open: the columns whose range is an UnassignedVar.
Scan(records, ids, open) ==
    [op |-> "scan", records |-> InOrder(records), ids |-> ids, open |-> open, rest |-> <<>>]

RestartScan(scan, b) ==
    LET bound(rest) == [c \in DOMAIN scan.ids |->
            IF c \in scan.open THEN rest ELSE ValueOf(scan.ids[c], b)]
        from == SelectSeq(scan.records, LAMBDA r : LessEq(bound(0), r))
    IN  Called([scan EXCEPT !.rest = UpTo(from, bound(MaxId))], b, TRUE)

NextScan(scan, b) ==
    IF scan.rest = <<>> THEN Called(scan, b, FALSE)
    ELSE Called([scan EXCEPT !.rest = Tail(@)], Extended(b, scan.ids, Head(scan.rest), scan.open), TRUE)

\* The objects with a mask: anonymous nodes, or edges.
ObjectEnum(id, mask, max_count) ==
    [op |-> "enum", id |-> id, mask |-> mask, max_count |-> max_count, current |-> 0]
NextEnum(enum, b) ==
    IF enum.current < enum.max_count
    THEN Called([enum EXCEPT !.current = @ + 1], With(b, enum.id, enum.mask + enum.current + 1), TRUE)
    ELSE Called(enum, b, FALSE)

\* The binding without the variables that only this operator assigns.
WithoutOwn(iter, b) == [v \in DOMAIN b |-> IF v \in iter.own THEN Null ELSE b[v]]

\* ids: from, to, type and edge; table: the rows, without the edge. History: own, the
\* variables that only the lookup assigns; lost, whether it missed a row for what it
\* had assigned to them before.
Lookup(table, ids, own) ==
    [op |-> "lookup", table |-> table, ids |-> ids, looked |-> FALSE, own |-> own, lost |-> FALSE]

\* check_id() of the columns in their order: a variable that is not null keeps its
\* value, which has to be that of the row; any other takes it, also if a later
\* column does not fit. Nothing tells what another operator assigned from what the
\* lookup itself did for the edge before, which reset() leaves there.
Checked(ids, row, b) ==
    LET Fits(id, value, bound) == ValueOf(id, bound) \in {Null, value}
        check[c \in 0 .. 3] ==
            IF c = 0 THEN [binding |-> b, ok |-> TRUE]
            ELSE LET before == check[c - 1]
                 IN  IF ~before.ok THEN before
                     ELSE IF Fits(ids[c], row[c], before.binding)
                     THEN [before EXCEPT !.binding = With(@, ids[c], row[c])]
                     ELSE [before EXCEPT !.ok = FALSE]
    IN  check[3]

NextLookup(lookup, b) ==
    LET edge == ValueOf(lookup.ids[4], b) - EdgeMask
        checked == Checked(lookup.ids, lookup.table[edge], b)
        \* the history, for an edge that there is
        missed == ~checked.ok /\ Checked(lookup.ids, lookup.table[edge], WithoutOwn(lookup, b)).ok
        looked == [lookup EXCEPT !.looked = TRUE]
    IN  IF lookup.looked THEN Called(lookup, b, FALSE)
        ELSE IF edge \notin DOMAIN lookup.table THEN Called(looked, b, FALSE)
        ELSE Called([looked EXCEPT !.lost = @ \/ missed], checked.binding, checked.ok)

\* Its edge too, which next() does not assign.
LookupNulls(lookup, b) == Nulled(b, lookup.ids, DOMAIN lookup.ids)

\* The bindings that extend b with a record of every relation.
Matching(relations, b) ==
    LET Fits(ids, record, bound) ==
            \A c \in DOMAIN ids :
                /\ ValueOf(ids[c], bound) \in {Null, record[c]}
                /\ \A d \in DOMAIN ids : ids[c] = ids[d] => record[c] = record[d]
        Extensions(relation, bound) ==
            {Extended(bound, relation.ids, r, DOMAIN relation.ids) :
                r \in {s \in relation.records : Fits(relation.ids, s, bound)}}
    IN  FoldLeft(LAMBDA found, relation : UNION {Extensions(relation, bound) : bound \in found},
                 {b}, relations)

\* What a LeapfrogJoin enumerates, in some order (LeapfrogJoin.tla has how).
Leap(relations, own) == [op |-> "leap", relations |-> relations, own |-> own, rest |-> {}]
LeapMatches(leap, b) == Matching(leap.relations, WithoutOwn(leap, b))

NextLeap(leap, b) ==
    IF leap.rest = {} THEN Called(leap, b, FALSE)
    ELSE LET match == CHOOSE m \in leap.rest : TRUE
         IN  Called([leap EXCEPT !.rest = @ \ {match}],
                    [v \in DOMAIN b |-> IF v \in leap.own THEN match[v] ELSE b[v]], TRUE)

-----------------------------------------------------------------------------
(* Union, IndexNestedLoopJoin and IndexLeftOuterJoin                       *)

Union(iters) == [op |-> "union", iters |-> iters, current |-> 1]
\* empty: rhs is the EmptyBindingIdIter, for lhs had nothing when it started.
Join(lhs, rhs) == [op |-> "join", lhs |-> lhs, rhs |-> rhs, begun |-> FALSE, empty |-> TRUE]
LeftOuterJoin(lhs, rhs) ==
    [op |-> "left", lhs |-> lhs, rhs |-> rhs, begun |-> FALSE, empty |-> TRUE,
     must_return_null |-> FALSE]
SingleResult == [op |-> "single", returned |-> FALSE]
Empty == [op |-> "empty"]

RECURSIVE Restart(_, _), NextOf(_, _), AssignNulls(_, _)

NextUnion(union, b) ==
    IF union.current > Len(union.iters) THEN Called(union, b, FALSE)
    ELSE LET next == NextOf(union.iters[union.current], b)
             at == [union EXCEPT !.iters[union.current] = next.iter]
         IN  IF next.ok THEN Called(at, next.binding, TRUE)
             ELSE NextOf([at EXCEPT !.current = @ + 1], next.binding)

\* begin() and reset() of a join: lhs goes to its first binding. begin() begins rhs
\* also when there is none.
RestartJoin(join, b) ==
    LET begun == Restart(join.lhs, b)
        first == NextOf(begun.iter, begun.binding)
        rhs == IF first.ok \/ ~join.begun THEN Restart(join.rhs, first.binding)
               ELSE Called(join.rhs, first.binding, TRUE)
        at == [join EXCEPT !.lhs = first.iter, !.rhs = rhs.iter, !.begun = TRUE, !.empty = ~first.ok]
    IN  Called(at, rhs.binding, TRUE)
RestartLeft(join, b) ==
    LET restarted == RestartJoin(join, b)
    IN  [restarted EXCEPT !.iter.must_return_null = ~restarted.iter.empty]

NextRhs(join, b) ==
    IF join.empty THEN Called(join.rhs, b, FALSE) ELSE NextOf(join.rhs, b)

\* When rhs has no more, lhs goes to its next binding and rhs begins again.
NextLhs(join, b) ==
    LET lhs == NextOf(join.lhs, b)
        rhs == IF join.empty THEN Called(join.rhs, lhs.binding, TRUE)
               ELSE Restart(join.rhs, lhs.binding)
    IN  IF lhs.ok THEN Called([join EXCEPT !.lhs = lhs.iter, !.rhs = rhs.iter], rhs.binding, TRUE)
        ELSE Called([join EXCEPT !.lhs = lhs.iter], lhs.binding, FALSE)

NextJoin(join, b) ==
    LET rhs == NextRhs(join, b)
        at == [join EXCEPT !.rhs = rhs.iter]
        lhs == NextLhs(at, rhs.binding)
    IN  IF rhs.ok THEN Called(at, rhs.binding, TRUE)
        ELSE IF lhs.ok THEN NextOf(lhs.iter, lhs.binding)
        ELSE lhs

\* Mutant: only the first binding of lhs is returned with nulls.
NullsOnce(join, b) ==
    LET rhs == NextRhs(join, b)
        at == [join EXCEPT !.rhs = rhs.iter, !.must_return_null = FALSE]
        lhs == NextLhs(at, rhs.binding)
    IN  IF rhs.ok THEN Called(at, rhs.binding, TRUE)
        ELSE IF join.must_return_null THEN Called(at, AssignNulls(join.rhs, rhs.binding), TRUE)
        ELSE IF lhs.ok THEN NextOf(lhs.iter, lhs.binding)
        ELSE lhs

\* A binding of lhs for which rhs has none is returned with nulls.
NextLeft(join, b) ==
    LET rhs == NextRhs(join, b)
        at == [join EXCEPT !.rhs = rhs.iter, !.must_return_null = FALSE]
        lhs == NextLhs(at, rhs.binding)
    IN  IF rhs.ok THEN Called(at, rhs.binding, TRUE)
        ELSE IF join.must_return_null THEN Called(at, AssignNulls(join.rhs, rhs.binding), TRUE)
        ELSE IF lhs.ok THEN NextOf([lhs.iter EXCEPT !.must_return_null = TRUE], lhs.binding)
        ELSE lhs

-----------------------------------------------------------------------------
NextOf(iter, b) ==
    CASE iter.op = "scan"   -> NextScan(iter, b)
      [] iter.op = "enum"   -> NextEnum(iter, b)
      [] iter.op = "lookup" -> NextLookup(iter, b)
      [] iter.op = "leap"   -> NextLeap(iter, b)
      [] iter.op = "single" -> Called([iter EXCEPT !.returned = TRUE], b, ~iter.returned)
      [] iter.op = "empty"  -> Called(iter, b, FALSE)
      [] iter.op = "union"  -> NextUnion(iter, b)
      [] iter.op = "join"   -> NextJoin(iter, b)
      [] iter.op = "left"   -> NextLeft(iter, b)

\* begin() and reset().
Restart(iter, b) ==
    CASE iter.op = "scan"   -> RestartScan(iter, b)
      [] iter.op = "enum"   -> Called([iter EXCEPT !.current = 0], b, TRUE)
      [] iter.op = "lookup" -> Called([iter EXCEPT !.looked = FALSE], b, TRUE)
      [] iter.op = "leap"   -> Called([iter EXCEPT !.rest = LeapMatches(iter, b)], b, TRUE)
      [] iter.op = "single" -> Called([iter EXCEPT !.returned = FALSE], b, TRUE)
      [] iter.op = "empty"  -> Called(iter, b, TRUE)
      [] iter.op = "union"  ->
            Called([iter EXCEPT !.current = 1, !.iters = [i \in DOMAIN @ |-> Restart(@[i], b).iter]],
                   b, TRUE)
      [] iter.op = "join"   -> RestartJoin(iter, b)
      [] iter.op = "left"   -> RestartLeft(iter, b)

\* A Union that is at its end has no operator to ask: the code is undefined there.
AssignNulls(iter, b) ==
    CASE iter.op = "scan"   -> Nulled(b, iter.ids, iter.open)
      [] iter.op = "enum"   -> With(b, iter.id, Null)
      [] iter.op = "lookup" -> LookupNulls(iter, b)
      [] iter.op = "leap"   -> WithoutOwn(iter, b)
      [] iter.op \in {"single", "empty"} -> b
      [] iter.op = "union"  -> AssignNulls(iter.iters[iter.current], b)
      [] OTHER              -> AssignNulls(iter.rhs, AssignNulls(iter.lhs, b))

\* A lookup below missed a row.
RECURSIVE LostRow(_)
LostRow(iter) ==
    CASE iter.op = "lookup"           -> iter.lost
      [] iter.op \in {"join", "left"} -> LostRow(iter.lhs) \/ LostRow(iter.rhs)
      [] OTHER                        -> FALSE
===============================================================================
