------------------------------ MODULE H1Codec ------------------------------
(***************************************************************************)
(* HTTP/1.1 framing: what is written for a message and its body, and the   *)
(* decoders that read it back from a buffer filled a few bytes at a time.  *)
(*                                                                         *)
(* A byte is a pair <<kind, value>>.  The head of a message is any number  *)
(* of "part" bytes and the byte "head", whose value says what the parser   *)
(* returns; its fields are not written out.  Chunk sizes are written in    *)
(* digits of base Hex (16 in the code).                                    *)
(***************************************************************************)
EXTENDS Integers, Sequences

LOCAL INSTANCE SequencesExt

CONSTANTS
    Hex,             \* the base of chunk sizes
    MaxHead,         \* max_http_header_len
    MaxSizeLine      \* the most bytes of a chunk's size and its CRLF

CR == <<"cr", 0>>
LF == <<"lf", 0>>
CRLF == <<CR, LF>>

HeadBytes(parts, m) == [i \in 1 .. parts |-> <<"part", 0>>] \o << <<"head", m>> >>

-----------------------------------------------------------------------------
(* Writing.  Modes are "Chunked", "ContentLength" and "Empty".             *)

HexDigits[n \in Nat] ==
    IF n < Hex THEN << <<"digit", n>> >>
    ELSE HexDigits[n \div Hex] \o << <<"digit", n % Hex>> >>

\* PieceList::push_back leaves out empty pieces.
PieceList(pieces) == SelectSeq(pieces, LAMBDA p : p # <<>>)

write_h1_body_chunk(chunk, mode) ==
    PieceList(IF mode = "Chunked" THEN <<HexDigits[Len(chunk)] \o CRLF, chunk, CRLF>>
              ELSE <<chunk>>)

\* Mutant: the CRLF after the last chunk is left out.
EndsWithSizeOnly(mode) ==
    IF mode = "Chunked" THEN <<HexDigits[0] \o CRLF>> ELSE <<>>

write_h1_body_end(mode) ==
    IF mode = "Chunked" THEN <<HexDigits[0] \o CRLF \o CRLF>> ELSE <<>>

\* Mutant: a piece that is written in part is taken off the list.
RECURSIVE PopsPartWritten(_, _)
PopsPartWritten(list, n) ==
    IF n <= 0 THEN list ELSE PopsPartWritten(Tail(list), n - Len(Head(list)))

\* writev_all_owned, when the transport took n bytes: whole pieces leave the
\* list, and one that was written in part is split.
RECURSIVE AfterWriting(_, _)
AfterWriting(list, n) ==
    IF n = 0 THEN list
    ELSE IF n < Len(Head(list))
      THEN <<SubSeq(Head(list), n + 1, Len(Head(list)))>> \o Tail(list)
    ELSE AfterWriting(Tail(list), n - Len(Head(list)))

-----------------------------------------------------------------------------
(* Parsers, of the bytes in a buffer.                                      *)

Ok(used, value) == [is |-> "ok", used |-> used, value |-> value]
Incomplete == [is |-> "incomplete", used |-> 0, value |-> 0]
Invalid == [is |-> "error", used |-> 0, value |-> 0]

\* How many bytes at the start of buf are of this kind.
Leading(buf, kind) ==
    LET other == {i \in DOMAIN buf : buf[i][1] # kind}
    IN  IF other = {} THEN Len(buf) ELSE (CHOOSE i \in other : \A j \in other : i <= j) - 1

\* parse::request and parse::response.
parse_head(buf) ==
    LET n == Leading(buf, "part")
    IN  IF n = Len(buf) THEN Incomplete
        ELSE IF buf[n + 1][1] = "head" THEN Ok(n + 1, buf[n + 1][2])
        ELSE Invalid

crlf(buf) ==
    IF IsPrefix(CRLF, buf) THEN Ok(2, 0)
    ELSE IF IsPrefix(buf, CRLF) THEN Incomplete
    ELSE Invalid

chunk_size(buf) ==
    LET n == Leading(buf, "digit")
        end == crlf(SubSeq(buf, n + 1, Len(buf)))
        size == FoldLeft(LAMBDA acc, b : Hex * acc + b[2], 0, SubSeq(buf, 1, n))
    IN  IF n = Len(buf) THEN Incomplete
        ELSE IF n = 0 \/ end.is = "error" THEN Invalid
        ELSE IF end.is = "incomplete" THEN Incomplete
        ELSE Ok(n + end.used, size)

-----------------------------------------------------------------------------
(* A reader: a buffer, what it expects next, and the bytes it still        *)
(* expects of a chunk or of a body with a content-length.  It expects a    *)
(* "head", bytes of a "length", or, of a chunked body, a chunk's "size",   *)
(* its "data", the "crlf" after it, the "last" CRLF, or nothing more:      *)
(* "done" or "failed".                                                     *)

\* H1Body::new, for the bytes that follow a head.
BodyReader(buf, m) ==
    [buf |-> buf, expects |-> IF m.chunked THEN "size" ELSE "length", remain |-> m.len]

\* H1Body::eof.
eof(r) == r.expects = "done" \/ (r.expects = "length" /\ r.remain = 0)

\* What a reader does next: it reads at most `limit` bytes, hands over a
\* chunk, goes on with the loop, says that the body is done, or fails.
Reads(r, limit) == [does |-> "read", limit |-> limit, chunk |-> <<>>, reader |-> r]
Loops(r) == [does |-> "loop", limit |-> 0, chunk |-> <<>>, reader |-> r]
IsDone(r) == [does |-> "done", limit |-> 0, chunk |-> <<>>, reader |-> r]
Fails(r) == [does |-> "fail", limit |-> 0, chunk |-> <<>>,
             reader |-> [r EXCEPT !.expects = "failed", !.buf = <<>>]]

\* read_and_parse, up to a read.  After what was parsed, `next` is expected.
Parse(r, parsed, limit, next) ==
    LET q == [r EXCEPT !.buf = SubSeq(@, parsed.used + 1, Len(@)),
                       !.expects = next, !.remain = parsed.value]
    IN  IF parsed.is = "ok" THEN IF next = "done" THEN IsDone(q) ELSE Loops(q)
        ELSE IF parsed.is = "error" \/ Len(r.buf) >= limit THEN Fails(r)
        ELSE Reads(r, limit - Len(r.buf))

\* take_at_most, of the bytes that remain; the buffer is filled when empty.
Takes(r, limit) ==
    LET n == IF Len(r.buf) < r.remain THEN Len(r.buf) ELSE r.remain
    IN  IF r.buf = <<>> THEN Reads(r, limit)
        ELSE [does |-> "chunk", limit |-> 0, chunk |-> SubSeq(r.buf, 1, n),
              reader |-> [r EXCEPT !.buf = SubSeq(@, n + 1, Len(@)), !.remain = @ - n]]

\* ContentLengthDecoder::next_chunk and ChunkedDecoder::next_chunk, one turn
\* of the loop.  After an error the buffer is gone, and H1Body::next_chunk
\* says that the body is done.
next_chunk(r, unlimited) ==
    CASE r.expects = "length" -> IF r.remain = 0 THEN IsDone(r) ELSE Takes(r, unlimited)
      [] r.expects = "size" ->
           LET parsed == chunk_size(r.buf)
           IN  Parse(r, parsed, MaxSizeLine, IF parsed.value = 0 THEN "last" ELSE "data")
      [] r.expects = "last" -> Parse(r, crlf(r.buf), 2, "done")
      [] r.expects = "data" ->
           IF r.remain = 0 THEN Loops([r EXCEPT !.expects = "crlf"]) ELSE Takes(r, r.remain)
      [] r.expects = "crlf" -> Parse(r, crlf(r.buf), 2, "size")
      [] OTHER -> IsDone(r)
=============================================================================
