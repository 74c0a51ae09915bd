------------------------------- MODULE MCFileScan -------------------------------
(***************************************************************************)
(* Tables and file lists for FileScan: up to two files, with and without  *)
(* deletion vectors of every storage and layout, more rows than the        *)
(* bitmap's row numbers, change files, partition values that repeat a      *)
(* stored column or name none, a file older than a column, partitionValues *)
(* null, partition values of a type and of none.                           *)
(***************************************************************************)
EXTENDS FileScan, TLC

Field(name, physical) == [name |-> name, physical |-> physical, type |-> "INTEGER"]

MCTables == {
    \* no column mapping
    [fields |-> <<Field("a", NoName), Field("b", NoName), Field("p", NoName)>>,
     partitions |-> <<"p">>],
    \* mapped, and no name of one kind among the other
    [fields |-> <<Field("x", "a"), Field("y", "b"), Field("p", "p")>>, partitions |-> <<"p">>],
    \* "a" was renamed to "c", and a new column, physically "b", took its name
    [fields |-> <<Field("c", "a"), Field("a", "b"), Field("p", "p")>>, partitions |-> <<"p">>],
    \* a field without a type, a stored change column, partitions the schema lacks
    [fields |-> <<Field("a", NoName), [Field("b", NoName) EXCEPT !.type = NoType],
                  [Field(ChangeType, NoName) EXCEPT !.type = "VARCHAR"]>>, partitions |-> <<"p", "q">>],
    [fields |-> NoSchema, partitions |-> <<>>],
    [fields |-> NoSchema, partitions |-> <<"p">>] }

\* A text is a text, and a number if it is written in digits.
MCCast(value, type) ==
    IF type = "VARCHAR" \/ value \in {"2024", "2025"} THEN <<type, value>> ELSE CastFails

NoValues == [c \in {} |-> Null]

Plain(rows, stored) ==
    [rows |-> rows, stored |-> stored, partition |-> "object", values |-> NoValues,
     action |-> "", version |-> -1, timestamp |-> 0, dv |-> NoDV]

Vector(storage, fetched, words, deleted) ==
    [storage |-> storage, fetched |-> fetched, words |-> words, deleted |-> deleted]

With(file, dv)               == [file EXCEPT !.dv = dv]
Partition(file, value)       == [file EXCEPT !.values = "p" :> value]
Change(file, action, commit) == 
    [file EXCEPT !.action = action, !.version = commit, !.timestamp = 100 + commit]

MCFiles == {
    Plain(5, {"a", "b"}),
    Partition(Plain(0, {"a", "b"}), "2024"),
    [Plain(2, {"a", "b", "p"}) EXCEPT !.values = ("p" :> "2025") @@ ("unbound" :> "1")],
    Partition(Plain(2, {"a", "b"}), "north"),
    Change(Plain(2, {"a", "b", ChangeType}), "cdf", 7),
    Change(Partition(Plain(2, {"a"}), Null), "add", 6),
    [Change(Plain(1, {"a", "b"}), "remove", 8) EXCEPT !.partition = "other", !.timestamp = 0],
    With(Plain(5, {"a", "b"}), Vector("i", TRUE, <<"other", "norun">>, {1, 2})),
    With(Plain(3, {"a", "b"}), Vector("u", TRUE, <<"run">>, {0})),
    With(Plain(3, {"a", "b"}), Vector("i", TRUE, <<"other", "other", "norun">>, {1})),
    With(Plain(4, {"a", "b"}), Vector("p", TRUE, <<"other", "norun">>, {0, 3})),
    With(Plain(3, {"a", "b"}), Vector("p", TRUE, <<"other", "run">>, {2})),
    With(Plain(3, {"b"}), Vector("p", TRUE, <<"stray", "norun">>, {2})),
    With(Plain(2, {"a", "b"}), Vector("p", FALSE, <<>>, {0})),
    With(Plain(2, {"a", "b"}), Vector("x", TRUE, <<"norun">>, {0})) }

MCFileLists == BoundedSeq(MCFiles, 2)

===============================================================================
