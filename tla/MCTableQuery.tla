----------------------------- MODULE MCTableQuery -----------------------------
(***************************************************************************)
(* Page bodies for TableQuery: a header at the start of a page, behind     *)
(* other lines, just outside the window of two lines, split over pages,    *)
(* repeated with other content; file actions of every kind, wrapped and    *)
(* not; lines that cannot be read.                                         *)
(***************************************************************************)
EXTENDS TableQuery

Line(key, action, id) ==
    [key |-> key, action |-> action, id |-> id,
     version |-> Absent, inner |-> Absent, valid |-> TRUE]

Protocol     == Line("protocol", "", 0)
Metadata(id) == Line("metaData", "", id)
Other        == Line("other", "", 0)
Malformed    == Line("malformed", "", 0)
Broken(line) == [line EXCEPT !.valid = FALSE]
At(line, version, inner) == [line EXCEPT !.version = version, !.inner = inner]

MCBodies == {
    <<>>,
    <<Protocol, Metadata(1)>>,
    <<Metadata(2), Protocol, Line("file", "add", 10)>>,
    <<Protocol, Line("file", "plain", 11), Metadata(3)>>,
    <<Line("add", "", 12), Metadata(4)>>,
    <<Line("file", "remove", 13), At(Line("file", "cdc", 14), 7, 5)>>,
    <<At(Line("file", "add", 15), Absent, 6), Line("cdf", "", 16),
      At(Line("remove", "", 17), Absent, 4), Line("file", "other", 18)>>,
    <<Broken(Metadata(5)), Protocol>>,
    <<Broken(Line("file", "remove", 19))>>,
    <<Other, Malformed>> }

===============================================================================
