----------------------------- MODULE MCTableCalls -----------------------------
(***************************************************************************)
(* An instance of TableCalls: arguments of every type, at, before and      *)
(* behind the commits, and predicates over a column n of numbers and a     *)
(* column s of texts, from single comparisons to nested ones.              *)
(***************************************************************************)
EXTENDS TableCalls, TLC

DatabaseSymmetry == Permutations(Databases)

MCArguments ==
    {Absent}
        \cup {Argument("TIMESTAMP", t) : t \in {NullValue, 0, 3, 4}}
        \cup {Argument("TIMESTAMP_TZ", t) : t \in {NullValue, 3}}
        \cup {Argument("BIGINT", v) : v \in {NullValue, -1, 0, 1, 3}}
        \cup {Argument("VARCHAR", v) : v \in {NullValue, 1}}
        \cup {Argument("DATE", 3)}

n == Column("n")
s == Column("s")
NumberLit(v) == Constant(v, "number")
TextLit(v)   == Constant(v, "varchar")

MCComparisons ==
    {Expr(op, args) : op \in Comparisons,
                      args \in {<<n, NumberLit(9)>>, <<NumberLit(10), n>>,
                                <<n, Constant(9, "decimal")>>, <<n, TextLit(10)>>,
                                <<s, TextLit(1)>>, <<TextLit(2), s>>,
                                <<s, NumberLit(9)>>, <<s, Constant(9, "decimal")>>,
                                <<s, Constant(Null, "null")>>, <<Call("n"), NumberLit(9)>>}}

MCNullTests ==
    {Expr(op, <<x>>) : op \in {"isNull", "isNotNull"}, x \in {n, s, Call("n"), TextLit(1)}}

MCBetweens ==
    {Expr("between", args) : args \in {<<n, NumberLit(9), NumberLit(10)>>,
                                       <<s, TextLit(1), TextLit(2)>>,
                                       <<s, TextLit(2), TextLit(1)>>,
                                       <<TextLit(1), s, TextLit(2)>>}}

\* The parts of the larger ones.
Parts ==
    {Expr("equal", <<s, TextLit(1)>>), Expr("notEqual", <<s, TextLit(1)>>),
     Expr("greaterThan", <<n, NumberLit(9)>>), Expr("isNull", <<s>>),
     Expr("not", <<Expr("equal", <<s, TextLit(1)>>)>>),
     Expr("between", <<s, TextLit(1), TextLit(1)>>)}

Fewer ==
    {Expr("notEqual", <<s, TextLit(1)>>), Expr("isNull", <<s>>),
     Expr("not", <<Expr("equal", <<s, TextLit(1)>>)>>)}

MCLarger ==
    {Expr(op, <<x, y>>) : op \in {"and", "or", "list"}, x \in Parts, y \in Fewer}
        \cup {Expr("and", <<x, Expr("or", <<y, z>>)>>) : x \in {Expr("lessThan", <<s, TextLit(2)>>)},
                                                         y \in Parts, z \in Fewer}

MCPredicates ==
    {NoPredicate, Unparsable, Expr("not", <<Expr("isNull", <<s>>)>>)}
        \cup MCComparisons \cup MCNullTests \cup MCBetweens \cup MCLarger

MCLaterPredicates == {NoPredicate, Expr("equal", <<TextLit(2), s>>)}

MCTableFiles == [t \in {"t1", "t2"} |-> IF t = "t1" THEN <<"a", "b", "c">> ELSE <<"d">>]

MCRows ==
    [url \in {"a", "b", "c", "d"} |->
        CASE url = "a" -> [n |-> 9,    s |-> 1]
          [] url = "b" -> [n |-> 10,   s |-> 10]
          [] url = "c" -> [n |-> Null, s |-> Null]
          [] url = "d" -> [n |-> 10,   s |-> 1]]

MCColumns == {"n", "s"}
MCValues  == {1, 2, 9, 10}

\* "1" is before "10", "10" before "2", and "NULL" behind all digits.
MCTextRank == 1 :> 1 @@ 10 :> 2 @@ 2 :> 3 @@ 9 :> 4 @@ Null :> 5

MCUrls == DOMAIN MCRows

\* The sublists of the tables' files.
MCAnswers ==
    {<<>>, <<"d">>, <<"a">>, <<"b">>, <<"c">>, <<"a", "b">>, <<"a", "c">>, <<"b", "c">>,
     <<"a", "b", "c">>}

===============================================================================
