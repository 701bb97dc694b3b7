---------------------------- MODULE MCHpackLink ----------------------------
(* A static table of three fields, a code of four symbols and EOS in octets *)
(* of two bits, and a dynamic table with room for three fields.             *)
EXTENDS HpackLink

MCStatic == << <<<<1>>, <<1>>>>, <<<<1>>, <<2>>>>, <<<<2>>, <<>>>> >>
MCCode == << <<0, 0>>, <<0, 1>>, <<1, 0>>, <<1, 1, 0>> >>
MCEndOfString == <<1, 1, 1>>
MCMask == [k \in Kinds \cup {"string"} |->
             IF k \in {"Indexed", "LiteralWithIncrementalIndexing", "SizeUpdate"} THEN 3 ELSE 1]
MCFields == {<<<<1>>, <<2>>>>, <<<<2>>, <<4>>>>, <<<<4>>, <<1>>>>, <<<<4>>, <<4>>>>,
             <<<<4, 4>>, <<1, 4>>>>}
=============================================================================
