--------------------------- MODULE MCLeapfrogJoin ---------------------------
(***************************************************************************)
(* Instances of LeapfrogJoin for TLC: some queries over relations that     *)
(* take several leaves and directories, and over a table of edges.         *)
(***************************************************************************)
EXTENDS LeapfrogJoin

bpt(initial, intersection, enumeration, relation) ==
    [kind |-> "bpt", initial |-> initial, intersection |-> intersection,
     enumeration |-> enumeration, relation |-> relation]
table(intersection, enumeration, relation) ==
    [kind |-> "table", initial |-> <<>>, intersection |-> intersection,
     enumeration |-> enumeration, relation |-> relation]
join(its, order, enumeration_level) ==
    [iters |-> its, var_order |-> order, enumeration_level |-> enumeration_level]

MCIds == 1 .. 3
MCZero == <<0, 0>>
Pairs == MCIds \X MCIds
Relations ==
    <<{}, {<<1, 2>>, <<2, 3>>, <<3, 1>>}, {<<1, 1>>, <<1, 3>>, <<2, 1>>, <<3, 2>>, <<3, 3>>},
      Pairs \ {<<2, 2>>}, Pairs>>
Tables == <<<<>>, <<<<2, 1>>, <<1, 3>>>>, <<<<3, 3>>, <<1, 2>>, <<3, 1>>>>>>

\* A path with the ends enumerated; a path from a given node; two lists of a
\* given node; a triangle; edges and their properties; all edges.
Names ==
    ({"path", "from", "lists"} \X (1 .. 5) \X (1 .. 5) \X {0})
        \cup ({"triangle"} \X (1 .. 5) \X (1 .. 5) \X (2 .. 5))
        \cup ({"edges"} \X (1 .. 5) \X (1 .. 5) \X (1 .. 3))
        \cup ({"all"} \X (1 .. 5) \X {1} \X {2})

MCQueries == [n \in Names |->
    LET r == Relations[n[2]]
        s == Relations[n[3]]
    IN  CASE n[1] = "path" ->
               join(<<bpt(<<>>, <<"y">>, <<"x">>, r), bpt(<<>>, <<"y">>, <<"z">>, s)>>, <<"y", "x", "z">>, 1)
          [] n[1] = "from" ->
               join(<<bpt(<<"i">>, <<"y">>, <<>>, r), bpt(<<>>, <<"y">>, <<"z">>, s)>>, <<"y", "z">>, 1)
          [] n[1] = "lists" ->
               join(<<bpt(<<"i">>, <<>>, <<"x">>, r), bpt(<<"i">>, <<>>, <<"y">>, s)>>, <<"x", "y">>, 0)
          [] n[1] = "triangle" ->
               join(<<bpt(<<>>, <<"x", "y">>, <<>>, r), bpt(<<>>, <<"y", "z">>, <<>>, s),
                      bpt(<<>>, <<"x", "z">>, <<>>, Relations[n[4]])>>, <<"x", "y", "z">>, 3)
          [] n[1] = "edges" ->
               join(<<table(<<"e", "x">>, <<"y">>, Tables[n[4]]), bpt(<<>>, <<"e">>, <<"v">>, r),
                      bpt(<<>>, <<"x">>, <<"z">>, s)>>, <<"e", "x", "y", "v", "z">>, 2)
          [] n[1] = "all" ->
               join(<<table(<<>>, <<"e", "x", "y">>, Tables[n[4]]), bpt(<<"i">>, <<>>, <<"z">>, r)>>,
                    <<"e", "x", "y", "z">>, 0)]
=============================================================================
