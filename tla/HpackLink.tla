----------------------------- MODULE HpackLink -----------------------------
(***************************************************************************)
(* An encoder and the decoder it is paired with, joined by blocks that     *)
(* arrive in the order they were encoded.                                  *)
(*                                                                         *)
(* The encoder is loona's, or (external) another one: a peer may choose    *)
(* any representation of a field, Huffman-code its strings, change the     *)
(* size of the table, and send blocks that are malformed.  Its own table   *)
(* follows the reference rule: the longest run of newest entries that fits.*)
(***************************************************************************)
EXTENDS Hpack, FiniteSets

CONSTANTS
    Fields,        \* the fields that are sent
    MaxFields,     \* fields in one block
    TableSizes,    \* the sizes a table may be given
    Allowed,       \* max_allowed_table_size, and the size tables start with
    MaxInFlight    \* blocks encoded and not decoded

VARIABLES
    who,           \* whose encoder it is: "loona" or "peer"
    enc,           \* the encoder's table
    wire,          \* blocks in flight, each with the fields it stands for
    dec,           \* the decoder's table
    decoded        \* of the last block: its error, and whether its fields were those meant

linkVars == <<who, enc, wire, dec, decoded>>

Symbols == DOMAIN HUFFMAN_CODE_TABLE
AllFields == Seq(Symbols) \X Seq(Symbols)
FieldLists == UNION {[1 .. n -> Fields] : n \in 1 .. MaxFields}
NothingYet == [error |-> "none", same |-> TRUE, malformed |-> FALSE]

LinkInit ==
    /\ who \in {"loona", "peer"}
    /\ enc = with_size(Allowed)
    /\ dec = with_size(Allowed)
    /\ wire = <<>>
    /\ decoded = NothingYet

Sent(fields, block, malformed) ==
    /\ Len(wire) < MaxInFlight
    /\ decoded.error = "none"
    /\ \A i \in DOMAIN wire : ~wire[i].malformed
    /\ wire' = Append(wire, [meant |-> fields, block |-> block, malformed |-> malformed])
    /\ UNCHANGED <<who, dec, decoded>>

-----------------------------------------------------------------------------
(* loona's encoder.                                                        *)

Encode(fields) ==
    LET e == encode_into(enc, fields)
    IN  /\ who = "loona"
        /\ enc' = e.table
        /\ Sent(fields, e.block, FALSE)

\* Encoder::set_max_table_size: nothing is written about it.
Resize(max) ==
    /\ who = "loona"
    /\ max # enc.max
    /\ enc' = set_max_table_size(enc, max)
    /\ UNCHANGED <<who, wire, dec, decoded>>

-----------------------------------------------------------------------------
(* Another encoder.                                                        *)

\* The size of a run of entries.
Sum(table) == Reduce(LAMBDA acc, f : acc + SizeOf(f), 0, table)

\* The longest run of newest entries that fits.
Fitting(table, max) ==
    LET fits == {n \in 0 .. Len(table) : Sum(SubSeq(table, 1, n)) <= max}
        n == CHOOSE n \in fits : \A k \in fits : k <= n
        kept == SubSeq(table, 1, n)
    IN  [table |-> kept, size |-> Sum(kept), max |-> max]

\* The bits of a string, filled up to whole octets with those of EOS.
HuffmanBits(string) ==
    LET bits == Reduce(LAMBDA acc, c : acc \o HUFFMAN_CODE_TABLE[c], <<>>, string)
    IN  bits \o SubSeq(EndOfString, 1, (OctetBits - (Len(bits) % OctetBits)) % OctetBits)

Strings(string) == {Raw(string), Coded(HuffmanBits(string))}

\* The ways to write a field with table t.
Representations(t, f) ==
    LET full == {i \in DOMAIN Entries(t) : Entries(t)[i] = f}
        named == {i \in DOMAIN Entries(t) : Entries(t)[i][1] = f[1]}
    IN  {Rep("Indexed", i, Raw(<<>>), Raw(<<>>)) : i \in full}
        \cup {Rep(k, 0, n, Raw(f[2])) : k \in Kinds \ {"Indexed", "SizeUpdate"}, n \in Strings(f[1])}
        \cup {Rep(k, i, Raw(<<>>), v) : k \in Kinds \ {"Indexed", "SizeUpdate"}, i \in named,
                                        v \in Strings(f[2])}

\* Tables and widths are what they are meant to be.
ASSUME WidthAssumption ==
    /\ OctetBits \in Nat \ {0} /\ Overhead \in Nat \ {0}
    /\ Base \in Nat \ {0, 1} /\ OctetLimit \in Nat \ {0, 1}
    /\ Mask \in [Kinds \cup {"string"} -> Nat \ {0}]
    /\ Allowed \in Nat /\ TableSizes \subseteq 0 .. Allowed
    /\ STATIC_TABLE \in Seq(AllFields) /\ Fields \subseteq AllFields

\* No code is the beginning of another one, that of EOS included.
ASSUME CodeAssumption ==
    /\ HUFFMAN_CODE_TABLE \in Seq(Seq({0, 1})) /\ EndOfString \in Seq({0, 1})
    /\ \A c, d \in Symbols : Begins(HUFFMAN_CODE_TABLE[c], HUFFMAN_CODE_TABLE[d]) => c = d
    /\ \A c \in Symbols : /\ Len(HUFFMAN_CODE_TABLE[c]) > 1
                         /\ ~Begins(HUFFMAN_CODE_TABLE[c], EndOfString)
                         /\ ~Begins(EndOfString, HUFFMAN_CODE_TABLE[c])
    /\ Len(EndOfString) >= OctetBits /\ EndOfString[1] = 1

\* The octets an integer may have are enough for indexes, table sizes and the
\* lengths of the strings that are sent.
ASSUME IntegerAssumption ==
    /\ \A k \in Kinds, v \in 0 .. Len(STATIC_TABLE) + Allowed + 1 :
         Len(encode_integer(v, Mask[k])) <= OctetLimit
    /\ \A f \in Fields, i \in {1, 2} :
         \A s \in Strings(f[i]) : Len(s.len) <= OctetLimit

PeerEncode(f, rep) ==
    /\ who = "peer"
    /\ rep \in Representations(enc, f)
    /\ enc' = IF rep.kind = "LiteralWithIncrementalIndexing"
                THEN Fitting(<<f>> \o enc.table, enc.max) ELSE enc
    /\ Sent(<<f>>, <<rep>>, FALSE)

\* The size changes at the start of a block.
PeerResize(max, f) ==
    LET resized == Fitting(enc.table, max)
    IN  /\ who = "peer"
        /\ max # enc.max
        /\ \E rep \in Representations(resized, f) :
              /\ rep.kind \in {"Indexed", "LiteralNeverIndexed"}
              /\ enc' = resized
              /\ Sent(<<f>>, <<Rep("SizeUpdate", max, Raw(<<>>), Raw(<<>>)), rep>>, FALSE)

\* Blocks no encoder may send with table t.
Malformed(t) ==
    LET lit(name, value) == Rep("LiteralWithoutIndexing", 0, name, value)
        x == Raw(<<>>)
        cut(rep, n) == [rep EXCEPT !.int = [i \in 1 .. n |-> IF i = 1 THEN Mask[rep.kind] ELSE Base]]
    IN  {<<Rep("Indexed", 0, x, x)>>,
         <<Rep("Indexed", Len(Entries(t)) + 1, x, x)>>,
         <<Rep("LiteralNeverIndexed", Len(Entries(t)) + 1, x, x)>>,
         <<Rep("SizeUpdate", Allowed + 1, x, x), lit(x, x)>>,
         <<lit(x, x), Rep("SizeUpdate", Allowed, x, x)>>,
         <<cut(lit(x, x), OctetLimit)>>,
         <<cut(lit(x, x), 2)>>,
         <<lit([x EXCEPT !.len = encode_integer(1, Mask["string"])], x)>>,
         <<lit(x, [x EXCEPT !.len = <<Mask["string"]>>])>>}
        \cup {<<lit(Coded(bits), x)>> :
                bits \in {EndOfString \o SubSeq(EndOfString, 1, OctetBits - 1),
                          SubSeq(EndOfString, 1, OctetBits)}}
        \cup {<<lit(x, Coded(HUFFMAN_CODE_TABLE[c] \o <<0>>))>> :
                c \in {c \in DOMAIN HUFFMAN_CODE_TABLE :
                         (Len(HUFFMAN_CODE_TABLE[c]) + 1) % OctetBits = 0}}

PeerErrs(block) ==
    /\ who = "peer"
    /\ enc' = enc
    /\ Sent(<<>>, block, TRUE)

-----------------------------------------------------------------------------
(* The decoder.                                                            *)

\* The pairing ends with the first error.
Decode ==
    LET d == decode_with_cb(dec, Allowed, Head(wire).block)
    IN  /\ wire # <<>>
        /\ decoded.error = "none"
        /\ dec' = d.table
        /\ decoded' = [error |-> d.error, same |-> d.fields = Head(wire).meant,
                       malformed |-> Head(wire).malformed]
        /\ wire' = Tail(wire)
        /\ UNCHANGED <<who, enc>>

LinkNext ==
    \/ \E fields \in FieldLists : Encode(fields)
    \/ \E max \in TableSizes : Resize(max)
    \/ \E f \in Fields : \E rep \in Representations(enc, f) : PeerEncode(f, rep)
    \/ \E max \in TableSizes, f \in Fields : PeerResize(max, f)
    \/ \E block \in Malformed(enc) : PeerErrs(block)
    \/ Decode

LinkSpec == LinkInit /\ [][LinkNext]_linkVars

-----------------------------------------------------------------------------
(* Properties.                                                             *)

\* The table the decoder will have once it has read everything in flight, up
\* to a malformed block, which ends the pairing.
CaughtUp ==
    Reduce(LAMBDA t, b : IF b.malformed THEN t
                           ELSE decode_with_cb(t, Allowed, b.block).table, dec, wire)

\* Decoder::decode_with_cb gives back the fields that were encoded, whatever
\* the representation, the tables' evictions and the blocks in between, and
\* refuses a malformed block.
DecodesWhatWasEncoded ==
    IF decoded.malformed THEN decoded.error # "none"
    ELSE decoded.error = "none" /\ decoded.same

\* Encoder and Decoder evict in step: once the decoder has read what is in
\* flight, every index the encoder may use means the same field to both.
\* (Encoder::set_max_table_size can leave the decoder with older entries that
\* the encoder dropped, never with other ones.)
TablesInStep ==
    decoded.error = "none" =>
        /\ Begins(enc.table, CaughtUp.table)
        /\ who = "peer" => enc = CaughtUp

\* DynamicTable.size, which is only ever adjusted, is the sum of the sizes of
\* the entries and within the maximum: consolidate_table cannot run out of
\* entries.
SizeIsTheSum ==
    \A t \in {enc, dec} : t.size = Sum(t.table) /\ t.size <= t.max

\* "There are never two header names with different values in the produced
\* header table" (Encoder::encode): names in the dynamic part are distinct,
\* and none is in the static table.
NamesAreUnique ==
    who = "loona" =>
        \A i \in DOMAIN enc.table, j \in DOMAIN Entries(enc) :
            enc.table[i][1] = Entries(enc)[j][1] => j = i + Len(STATIC_TABLE)
=============================================================================
