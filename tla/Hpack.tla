------------------------------- MODULE Hpack -------------------------------
(***************************************************************************)
(* Header compression (loona-hpack): integers, strings, the dynamic table, *)
(* the Encoder and the Decoder, as operators.                              *)
(*                                                                         *)
(* A string is a sequence of symbols, a field a pair <<name, value>>.  A   *)
(* block is a sequence of representations; the octets that matter, those   *)
(* of integers and of Huffman-coded strings, are kept.  The widths are     *)
(* parameters: Base stands for 128, OctetBits for 8, Overhead for 32, and  *)
(* Mask[k] for 2^prefix - 1 of the representation k.                       *)
(***************************************************************************)
EXTENDS Integers, Sequences

CONSTANTS
    STATIC_TABLE,         \* the fields of the static table
    HUFFMAN_CODE_TABLE,   \* the bits of each symbol
    EndOfString,          \* the bits of EOS
    OctetBits, Base, Mask, OctetLimit, Overhead

\* FoldLeft of the community modules, as a function of how many elements were
\* taken: what op makes of base with the elements of seq, first to last.
Reduce(op(_, _), base, seq) ==
    LET after[n \in 0 .. Len(seq)] == IF n = 0 THEN base ELSE op(after[n - 1], seq[n])
    IN  after[Len(seq)]

\* s is the beginning of t.
Begins(s, t) == Len(s) <= Len(t) /\ s = SubSeq(t, 1, Len(s))

-----------------------------------------------------------------------------
(* Integers.                                                               *)

\* encode_integer_into, after the prefix: least significant digit first.
Digits[v \in Nat] ==
    IF v >= Base THEN <<(v % Base) + Base>> \o Digits[v \div Base] ELSE <<v>>

encode_integer(v, mask) == IF v < mask THEN <<v>> ELSE <<mask>> \o Digits[v - mask]

\* The value of the digits buf[2 .. n], the last one first, added to the prefix.
ValueUpTo(buf, n) ==
    Reduce(LAMBDA acc, b : (b % Base) + Base * acc, 0, [i \in 1 .. n - 1 |-> buf[n + 1 - i]])
      + buf[1]

\* An integer at the start of buf: its value and its octets, or an error.
decode_integer(buf, mask) ==
    LET final == {i \in 2 .. Len(buf) : i <= OctetLimit /\ buf[i] < Base}
        last == CHOOSE i \in final : \A j \in final : i <= j
    IN  IF buf[1] < mask THEN [value |-> buf[1], consumed |-> 1, error |-> "none"]
        ELSE IF final # {} THEN [value |-> ValueUpTo(buf, last), consumed |-> last, error |-> "none"]
        ELSE [value |-> 0, consumed |-> 0,
              error |-> IF Len(buf) >= OctetLimit THEN "TooManyOctets" ELSE "NotEnoughOctets"]

-----------------------------------------------------------------------------
(* Huffman-coded strings.                                                  *)

\* HuffmanDecoder::decode, one bit: a symbol is complete as soon as its code
\* is read, and the code of EOS is an error.
DecodeBit(d, bit) ==
    LET current == Append(d.current, bit)
        hit == {s \in DOMAIN HUFFMAN_CODE_TABLE : HUFFMAN_CODE_TABLE[s] = current}
    IN  IF d.error # "none" THEN d
        ELSE IF current = EndOfString THEN [d EXCEPT !.error = "EOSInString"]
        ELSE IF hit # {} THEN [d EXCEPT !.current = <<>>,
                                        !.string = Append(@, CHOOSE s \in hit : TRUE)]
        ELSE [d EXCEPT !.current = current]

\* What is left over is padding: less than an octet of the bits of EOS.
CheckPadding(d) ==
    IF d.error # "none" THEN d
    ELSE IF Len(d.current) > OctetBits - 1 THEN [d EXCEPT !.error = "PaddingTooLarge"]
    ELSE IF ~Begins(d.current, EndOfString) THEN [d EXCEPT !.error = "InvalidPadding"]
    ELSE d

HuffmanDecode(bits) ==
    CheckPadding(Reduce(DecodeBit, [string |-> <<>>, current |-> <<>>, error |-> "none"], bits))

\* A string as it is written: its length, then its octets, raw or (by a peer)
\* Huffman-coded.
Raw(string) == [huffman |-> FALSE, len |-> encode_integer(Len(string), Mask["string"]),
                octets |-> string]
Coded(bits) == [huffman |-> TRUE, octets |-> bits,
                len |-> encode_integer(Len(bits) \div OctetBits, Mask["string"])]

decode_string(s) ==
    LET len == decode_integer(s.len, Mask["string"])
        held == IF s.huffman THEN Len(s.octets) \div OctetBits ELSE Len(s.octets)
        Failed(e) == [string |-> <<>>, current |-> <<>>, error |-> e]
    IN  IF len.error # "none" THEN Failed(len.error)
        ELSE IF len.value > held THEN Failed("NotEnoughOctets")
        ELSE IF s.huffman THEN HuffmanDecode(s.octets)
        ELSE [string |-> s.octets, current |-> <<>>, error |-> "none"]

-----------------------------------------------------------------------------
(* DynamicTable: the fields, newest first, its size and its maximum.       *)

SizeOf(f) == Len(f[1]) + Len(f[2]) + Overhead

with_size(max) == [table |-> <<>>, size |-> 0, max |-> max]

\* Mutant: an evicted entry is counted without its overhead.
ForgetsOverhead(t) ==
    LET size[n \in 0 .. Len(t.table)] ==
          IF n = 0 THEN t.size
          ELSE size[n - 1] - (SizeOf(t.table[Len(t.table) - n + 1]) - Overhead)
        n == CHOOSE n \in 0 .. Len(t.table) :
                (size[n] <= t.max \/ n = Len(t.table)) /\ \A k \in 0 .. (n - 1) : size[k] > t.max
    IN  [t EXCEPT !.table = SubSeq(@, 1, Len(@) - n), !.size = size[n]]

\* Entries leave from the back until the size is within the maximum.  When n
\* entries are gone, size[n] is left.
consolidate_table(t) ==
    LET size[n \in 0 .. Len(t.table)] ==
          IF n = 0 THEN t.size
          ELSE size[n - 1] - SizeOf(t.table[Len(t.table) - n + 1])
        n == CHOOSE n \in 0 .. Len(t.table) :
                size[n] <= t.max /\ \A k \in 0 .. (n - 1) : size[k] > t.max
    IN  [t EXCEPT !.table = SubSeq(@, 1, Len(@) - n), !.size = size[n]]

set_max_table_size(t, max) == consolidate_table([t EXCEPT !.max = max])

add_header(t, f) ==
    consolidate_table([t EXCEPT !.size = @ + SizeOf(f), !.table = <<f>> \o @])

\* HeaderTable: the static table, then the dynamic one, counted from 1.
Entries(t) == STATIC_TABLE \o t.table

\* Mutant: the index of find_header is not adjusted to start at 1.
FindsFromZero(t, f) ==
    LET full == {i \in DOMAIN Entries(t) : Entries(t)[i] = f}
    IN  IF full # {} THEN <<(CHOOSE i \in full : \A j \in full : i <= j) - 1, TRUE>> ELSE <<0, FALSE>>

\* The first entry with this name and value, or the last one with this name;
\* <<0, FALSE>> stands for None.
find_header(t, f) ==
    LET full == {i \in DOMAIN Entries(t) : Entries(t)[i] = f}
        named == {i \in DOMAIN Entries(t) : Entries(t)[i][1] = f[1]}
    IN  IF full # {} THEN <<CHOOSE i \in full : \A j \in full : i <= j, TRUE>>
        ELSE IF named # {} THEN <<CHOOSE i \in named : \A j \in named : i >= j, FALSE>>
        ELSE <<0, FALSE>>

-----------------------------------------------------------------------------
(* Representations.                                                        *)

Kinds == {"Indexed", "LiteralWithIncrementalIndexing", "LiteralWithoutIndexing",
          "LiteralNeverIndexed", "SizeUpdate"}

\* `int` holds the octets of the index, or of the new size.
Rep(kind, v, name, value) ==
    [kind |-> kind, int |-> encode_integer(v, Mask[kind]), name |-> name, value |-> value]

\* Mutant: a known name with a new value is indexed as well.
IndexesEverything(e, f) ==
    LET found == find_header(e.table, f)
    IN  IF found[2]
          THEN [e EXCEPT !.block = Append(@, Rep("Indexed", found[1], Raw(<<>>), Raw(<<>>)))]
          ELSE [e EXCEPT !.block = Append(@, Rep("LiteralWithIncrementalIndexing", found[1],
                                                 Raw(IF found[1] = 0 THEN f[1] ELSE <<>>), Raw(f[2]))),
                         !.table = add_header(@, f)]

\* Encoder::encode_header_into: an unknown name is written out and indexed, a
\* known one with another value is not.
encode_header_into(e, f) ==
    LET found == find_header(e.table, f)
    IN  IF found = <<0, FALSE>>
          THEN [e EXCEPT !.block = Append(@, Rep("LiteralWithIncrementalIndexing", 0, Raw(f[1]), Raw(f[2]))),
                         !.table = add_header(@, f)]
        ELSE IF ~found[2]
          THEN [e EXCEPT !.block = Append(@, Rep("LiteralWithoutIndexing", found[1], Raw(<<>>), Raw(f[2])))]
          ELSE [e EXCEPT !.block = Append(@, Rep("Indexed", found[1], Raw(<<>>), Raw(<<>>)))]

\* Encoder::encode_into, of a whole field list.
encode_into(t, fields) == Reduce(encode_header_into, [table |-> t, block |-> <<>>], fields)

\* Decoder::decode_indexed: the field an index stands for, or an error.
decode_indexed(t, i) ==
    IF i \in DOMAIN Entries(t) THEN [field |-> Entries(t)[i], error |-> "none"]
    ELSE [field |-> <<>>, error |-> "HeaderIndexOutOfBounds"]

\* Decoder::decode_literal: the name is in the table or written out.
decode_literal(t, rep, i) ==
    LET field(name, value) == [field |-> <<name.string, value.string>>,
                               error |-> IF name.error # "none" THEN name.error ELSE value.error]
    IN  field(IF i = 0 THEN decode_string(rep.name)
              ELSE IF i \in DOMAIN Entries(t)
                THEN [string |-> Entries(t)[i][1], current |-> <<>>, error |-> "none"]
              ELSE [string |-> <<>>, current |-> <<>>, error |-> "HeaderIndexOutOfBounds"],
              decode_string(rep.value))

\* Mutant: every literal is added to the table.
IndexesLiterals(kind) == kind # "Indexed"

\* The representations whose field is added to the table.
Adds(kind) == kind = "LiteralWithIncrementalIndexing"

\* The field of a representation is handed on and perhaps indexed.
TakeField(d, kind, result) ==
    IF result.error # "none" THEN [d EXCEPT !.error = result.error]
    ELSE [d EXCEPT !.fields = Append(@, result.field),
                   !.table = IF Adds(kind) THEN add_header(@, result.field) ELSE @]

\* The representation whose index or new size is int.
DecodeWith(d, rep, int) ==
    IF int.error # "none" THEN [d EXCEPT !.error = int.error]
    ELSE IF rep.kind = "SizeUpdate"
      THEN IF int.value > d.allowed THEN [d EXCEPT !.error = "InvalidMaxDynamicSize"]
           ELSE [d EXCEPT !.table = set_max_table_size(@, int.value)]
    ELSE TakeField(d, rep.kind, IF rep.kind = "Indexed" THEN decode_indexed(d.table, int.value)
                                ELSE decode_literal(d.table, rep, int.value))

\* One representation; an error stops the decoding, and what was done before
\* it stays done.  allowed is max_allowed_table_size.
DecodeRep(d, rep) ==
    IF d.error # "none" THEN d
    ELSE DecodeWith(d, rep, decode_integer(rep.int, Mask[rep.kind]))

\* Decoder::decode_with_cb.  A size update at the end is an error, found only
\* once it was applied.
decode_with_cb(t, allowed, block) ==
    LET ended(d) == IF /\ d.error = "none"
                       /\ block # <<>> /\ block[Len(block)].kind = "SizeUpdate"
                      THEN [d EXCEPT !.error = "SizeUpdateAtEnd"] ELSE d
    IN  ended(Reduce(DecodeRep, [table |-> t, allowed |-> allowed, fields |-> <<>>,
                                 error |-> "none"], block))
=============================================================================
