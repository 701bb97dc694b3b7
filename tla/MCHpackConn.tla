---------------------------- MODULE MCHpackConn ----------------------------
(* Two field names that are in no static table.                             *)
EXTENDS HpackConn

MCStatic == << <<<<1>>, <<1>>>> >>
MCCode == << <<0, 0>>, <<0, 1>>, <<1, 0>>, <<1, 1, 0>> >>
MCEndOfString == <<1, 1, 1>>
MCMask == [k \in Kinds \cup {"string"} |-> 3]
MCFields == {<<<<2>>, <<1>>>>, <<<<3>>, <<1>>>>}
=============================================================================
