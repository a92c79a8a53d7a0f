-------------------------- MODULE MCBindingOperators --------------------------
(***************************************************************************)
(* Instances of BindingOperators for TLC: queries over graphs with two     *)
(* nodes, up to three edges, labels and properties.                        *)
(***************************************************************************)
EXTENDS BindingOperators

var(name) == <<"var", name>>
object(id) == <<"object", id>>
X == var("x")
Y == var("y")
E == var("e")
T == var("t")
edge(from, to, type, e) == [kind |-> "edge", ids |-> <<from, to, type, e>>]
label(o, l) == [kind |-> "label", ids |-> <<o, l>>]
property(o) == [kind |-> "property", ids |-> <<o, object(5), object(6)>>]
term(o) == [kind |-> "term", ids |-> <<o>>]
any(o) == [kind |-> "object", ids |-> <<o>>]
match(bgp) == [bgp |-> bgp, optionals |-> <<>>]
optional(bgp, optionals) == [bgp |-> bgp, optionals |-> optionals]

\* Objects: nodes 1 and 2, a label 3, a type 4, a key 5, a value 6, edges 11 to 13
\* and an anonymous node 21.
MCVars == {"x", "y", "z", "e", "f", "g", "t"}
L == object(3)
MCQueries ==
    [no_match  |-> optional(<<>>, <<match(<<label(X, L)>>)>>),
     objects   |-> optional(<<any(X)>>, <<match(<<label(X, var("z"))>>)>>),
     cross     |-> match(<<any(X), edge(Y, Y, T, E), label(Y, L)>>),
     loops     |-> match(<<edge(X, X, object(4), E), label(X, Y)>>),
     all_equal |-> match(<<edge(X, X, X, E), label(X, Y)>>),
     to_type   |-> match(<<edge(X, T, T, E), property(X)>>),
     from_type |-> match(<<edge(T, X, T, E), edge(X, X, Y, var("f"))>>),
     leap      |-> optional(<<edge(X, Y, T, E), label(X, L)>>, <<match(<<property(Y)>>)>>),
     one       |-> optional(<<edge(object(1), X, T, E)>>,
                            <<match(<<edge(Y, X, T, var("f"))>>), match(<<edge(X, var("z"), object(4), var("g"))>>)>>),
     nested    |-> optional(<<label(X, L)>>,
                            <<optional(<<edge(X, Y, object(4), E)>>,
                                       <<match(<<edge(Y, var("z"), T, var("f"))>>)>>),
                              match(<<property(X)>>)>>),
     optional_leap |-> optional(<<edge(object(1), object(1), T, E)>>,
                                <<match(<<edge(X, Y, T, var("f")), label(Y, L)>>)>>),
     triangle  |-> match(<<edge(X, Y, T, E), edge(Y, var("z"), T, var("f")), edge(X, var("z"), object(4), var("g"))>>),
     edge_var  |-> match(<<edge(X, Y, T, E), label(E, L), label(Y, L)>>),
     where     |-> optional(<<any(X), edge(Y, var("z"), T, E)>>, <<match(<<edge(X, X, T, var("f"))>>)>>),
     where_optional |-> optional(<<edge(X, Y, T, E)>>, <<match(<<label(X, L)>>), match(<<any(var("z"))>>)>>),
     where_outside |-> optional(<<label(X, L)>>, <<match(<<edge(X, Y, T, E)>>)>>),
     terms     |-> optional(<<term(object(21))>>,
                            <<match(<<term(object(12)), label(X, L)>>), match(<<edge(Y, Y, T, E)>>)>>),
     lookup_loop |-> match(<<label(E, L), edge(X, X, T, E)>>),
     lookup    |-> optional(<<label(E, L)>>, <<match(<<edge(X, Y, T, E)>>)>>),
     loop_optional |-> optional(<<label(X, L)>>,
                                <<match(<<edge(X, X, T, E), label(T, Y)>>)>>)]
MCWhere ==
    [q \in DOMAIN MCQueries |->
        CASE q = "where"          -> <<property(X)>>
          [] q \in {"where_optional", "where_outside"} -> <<property(Y)>>
          [] OTHER                -> <<>>]
Edges ==
    {<<>>, <<<<1, 1, 4>>>>, <<<<1, 1, 1>>, <<1, 2, 4>>>>, <<<<2, 1, 2>>, <<1, 1, 4>>, <<1, 2, 1>>>>,
     <<<<1, 2, 2>>, <<2, 2, 1>>, <<1, 1, 4>>>>, <<<<1, 2, 4>>, <<1, 2, 4>>>>}
Labels == SUBSET {<<1, 3>>, <<2, 3>>, <<11, 3>>, <<12, 3>>}
Properties == SUBSET {<<1, 5, 6>>, <<2, 5, 6>>}
MCGraphs ==
    [g \in {h \in Edges \X Labels \X Properties :
               \A l \in h[2] : l[1] > EdgeMask => l[1] - EdgeMask \in DOMAIN h[1]} |->
        [edges |-> g[1], labels |-> g[2], properties |-> g[3], nodes |-> {1, 2}, anons |-> Cardinality(g[3]) % 2]]
AllInputs == (DOMAIN MCQueries) \X (DOMAIN MCGraphs)
\* An EdgeTableLookup of an OPTIONAL only for edges: it has no match for anything else,
\* and then sets a variable of the outer pattern to null (Lookups).
MCInputs == {i \in AllInputs : i[1] = "lookup" => \A l \in i[2][2] : l[1] > EdgeMask}
Lookups == {i \in AllInputs : i[1] = "lookup"}
===============================================================================
