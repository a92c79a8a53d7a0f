----------------------------- MODULE MCResults -----------------------------
(***************************************************************************)
(* An instance of Results for TLC: rows with numbers of both types, truth  *)
(* values and nulls, and a query for each of the plans.                    *)
(***************************************************************************)
EXTENDS Results

RowOf(x, age, k) == [x |-> <<ANON, x>>, age |-> age, k |-> k, n |-> Null, m |-> Null]
R1 == RowOf(1, <<INT, 1>>, Bool(TRUE))
R2 == RowOf(2, <<INT, 2>>, Null)
R3 == RowOf(3, <<FLOAT, 2>>, Bool(FALSE))
R4 == RowOf(1, <<INT, 1>>, Null)
R5 == RowOf(4, Null, Bool(TRUE))
R6 == RowOf(5, <<FLOAT, 1>>, Bool(FALSE))

\* Every order of few rows, and enough rows for nine pages.
MCTables ==
    UNION {[1 .. n -> {R1, R2, R3, R4, R5}] : n \in 0 .. 3}
    \cup {<<R3, R1, R6, R4, R5, R2, R1>>, <<R5, R4, R3, R2, R1, R4, R2>>,
          <<R2, R5, R1, R4, R3, R6, R3, R2, R4>>}

Ask(where, group, order, items, aggs, distinct, limit) ==
    [where |-> where, group |-> group, order |-> order, items |-> items, aggs |-> aggs,
     distinct |-> distinct, limit |-> limit]
Asc(v) == [var |-> v, ascending |-> TRUE]
Desc(v) == [var |-> v, ascending |-> FALSE]
Agg(func, v) == [func |-> func, inside |-> v]
All == 100
NoAggs == <<>>

MCQueries == {
    \* RETURN ?x, ?x.age ORDER BY ?x.age DESC, ?x LIMIT 4
    Ask(NoExpr, <<>>, <<Desc("age"), Asc("x")>>, <<"x", "age">>, NoAggs, FALSE, 4),
    \* RETURN ?x ORDER BY ?x
    Ask(NoExpr, <<>>, <<Asc("x")>>, <<"x">>, NoAggs, FALSE, All),
    \* RETURN DISTINCT ?x, ?x.age
    Ask(NoExpr, <<>>, <<>>, <<"x", "age">>, NoAggs, TRUE, All),
    \* WHERE ?x.age == 1 OR ?k IS NULL RETURN DISTINCT ?k, ?x
    Ask(Or(<<PropertyEquals("age", <<INT, 1>>), IsNull("k")>>), <<>>, <<>>, <<"k", "x">>, NoAggs, TRUE, All),
    \* WHERE ?x.age == 1 AND NOT ?k IS NULL RETURN ?x, ?k ORDER BY ?k DESC
    Ask(And(<<PropertyEquals("age", <<INT, 1>>), Not(IsNull("k"))>>),
        <<>>, <<Desc("k")>>, <<"x", "k">>, NoAggs, FALSE, All),
    \* WHERE NOT (?x.age == 1 AND ?x.age < 2) RETURN ?x
    Ask(Not(And(<<PropertyEquals("age", <<INT, 1>>), Less("age", <<INT, 2>>)>>)),
        <<>>, <<>>, <<"x">>, NoAggs, FALSE, 3),
    \* RETURN ?k, COUNT(?x) GROUP BY ?k ORDER BY COUNT(?x) DESC
    Ask(NoExpr, <<"k">>, <<Desc("n")>>, <<"k", "n">>, "n" :> Agg("count", "x"), FALSE, All),
    \* RETURN ?k, MAX(?x.age), COUNT(*) GROUP BY ?k
    Ask(NoExpr, <<"k">>, <<>>, <<"k", "n", "m">>,
        ("n" :> Agg("max", "age")) @@ ("m" :> [func |-> "count all"]), FALSE, All),
    \* RETURN ?x.age, COUNT(?k) GROUP BY ?x ORDER BY ?x.age
    Ask(NoExpr, <<"x">>, <<Asc("age")>>, <<"age", "n">>, "n" :> Agg("count", "k"), FALSE, All),
    \* RETURN ?x, ?k, COUNT(*) GROUP BY ?x, ?k
    Ask(NoExpr, <<"x", "k">>, <<>>, <<"x", "k", "n">>, "n" :> [func |-> "count all"], FALSE, All),
    \* WHERE ?k IS NULL RETURN SUM(?x.age), MIN(?x.age)
    Ask(IsNull("k"), <<>>, <<>>, <<"n", "m">>,
        ("n" :> Agg("sum", "age")) @@ ("m" :> Agg("min", "age")), FALSE, All),
    \* RETURN COUNT(DISTINCT ?x.age) ORDER BY ?k
    Ask(NoExpr, <<>>, <<Asc("k")>>, <<"n">>, "n" :> Agg("count distinct", "age"), FALSE, All),
    \* RETURN ?x, COUNT(?x), and RETURN ?x, MAX(?x.age) GROUP BY ?x: not accepted
    Ask(NoExpr, <<>>, <<>>, <<"x", "n">>, "n" :> Agg("count", "x"), FALSE, All),
    Ask(NoExpr, <<"x">>, <<>>, <<"x", "n">>, "n" :> Agg("max", "age"), FALSE, All)}

MCOwner == [age |-> "x"]

\* Different for all the tuples there are, so that every bucket can be split.
Values == UNION {{r.x, r.age, r.k} : r \in {R1, R2, R3, R4, R5, R6}}
MCHash ==
    [tuple \in [1 .. 2 -> Values] |->
        FoldLeft(LAMBDA hash, value : 8 * hash + 4 * (value[1] % 2) + value[2], 0, tuple)]
=============================================================================
