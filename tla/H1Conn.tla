------------------------------ MODULE H1Conn -------------------------------
(***************************************************************************)
(* One HTTP/1.1 connection, from the first request to the end: the server  *)
(* loop h1::serve with its handlers, and a client, over a transport that   *)
(* takes and gives a few bytes at a time.  The client is h1::request,      *)
(* called again on the transport it gave back, or one that pipelines: it   *)
(* sends the next request before it has the answer to the last.            *)
(*                                                                         *)
(* What is asked and answered is in `plan`, one record for each exchange:  *)
(*   parts               how many bytes come before the last of the head   *)
(*   reqLen, req         the content-length of the request's body          *)
(*                       (Unknown: chunked) and the sizes of its pieces    *)
(*   te                  the request has `transfer-encoding: chunked`      *)
(*   close               the request has `connection: close`               *)
(*   handler             "drain": reads the body, then answers;            *)
(*                       "ignore": answers without reading it;             *)
(*                       "copy": answers with the request's body           *)
(*   resLen, res         the same of the answer                            *)
(*   resClose            the answer has `connection: close`                *)
(*   reads               the client's driver reads the answer's body       *)
(***************************************************************************)
EXTENDS H1Codec

LOCAL INSTANCE SequencesExt

CONSTANTS
    NExchanges,      \* how many exchanges the client asks for on a connection
    Plans,           \* sequences of NExchanges of the records above
    PipeCap          \* the bytes the transport holds in each direction

VARIABLES
    plan,            \* what is asked and answered
    pipelined,       \* the client pipelines its requests
    wire,            \* the bytes on their way to a side
    out,             \* what a side is writing: [list, whole], see WriteOwned
    closed,          \* a side has dropped the transport
    rd,              \* the reader of a side
    got,             \* the bytes a side has read of the current body
    srv,             \* h1::serve
    cli              \* the client

vars == <<plan, pipelined, wire, out, closed, rd, got, srv, cli>>

Sides == {"client", "server"}
Peer(x) == IF x = "client" THEN "server" ELSE "client"
Unknown == -1

RECURSIVE Sum(_, _)
Sum(sizes, k) == IF k = 0 THEN 0 ELSE sizes[k] + Sum(sizes, k - 1)

\* The bytes of body n that x sends, and the k-th piece of them.
BodyOf(x, n) ==
    LET copies == x = "server" /\ plan[n].handler = "copy"
        sizes == IF x = "client" \/ copies THEN plan[n].req ELSE plan[n].res
        from == IF copies THEN "client" ELSE x
    IN  [i \in 1 .. Sum(sizes, Len(sizes)) |-> <<"data", <<from, n, i>>>>]
Piece(x, n, sizes, k) == SubSeq(BodyOf(x, n), Sum(sizes, k - 1) + 1, Sum(sizes, k))

\* The length announced for the answer to request n, and the mode a length
\* is written in.
Announced(n) == IF plan[n].handler = "copy" THEN plan[n].reqLen ELSE plan[n].resLen
ModeFor(len) ==
    IF len = Unknown THEN "Chunked" ELSE IF len = 0 THEN "Empty" ELSE "ContentLength"

\* What the parser returns of a head.  `transfer-encoding: chunked` is added
\* to a response of unknown length, but not to a request: there it is among
\* the headers of the caller, or missing.
Message(n, len, te, close) ==
    [n |-> n, chunked |-> te, len |-> IF len = Unknown THEN 0 ELSE len, close |-> close]
NoMessage == Message(0, 0, FALSE, FALSE)
TooLarge == Message(0, 0, FALSE, FALSE)
RequestHead(n) == Message(n, plan[n].reqLen, plan[n].te, plan[n].close)
ResponseHead(n) == Message(n, Announced(n), Announced(n) = Unknown, plan[n].resClose)

Nothing == [list |-> <<>>, whole |-> 0]
Writing(list) == [list |-> list, whole |-> 0]
Free(x) == out[x].list = <<>>
NewReader == [buf |-> <<>>, expects |-> "head", remain |-> 0]

Init ==
    /\ plan \in Plans
    /\ pipelined \in BOOLEAN
    /\ pipelined => \A k \in 1 .. NExchanges : plan[k].reads
    /\ wire = [x \in Sides |-> <<>>]
    /\ out = [x \in Sides |-> Nothing]
    /\ closed = [x \in Sides |-> FALSE]
    /\ rd = [x \in Sides |-> NewReader]
    /\ got = [x \in Sides |-> <<>>]
    /\ srv = [pc |-> "request", n |-> 0, req |-> NoMessage, next |-> 1, written |-> 0,
              outcome |-> "none"]
    /\ cli = [n |-> 0, k |-> 0, send |-> "idle", next |-> 1, recv |-> "idle",
              res |-> NoMessage, outcome |-> "none"]

-----------------------------------------------------------------------------
(* The transport.                                                          *)

\* One write_owned of a writev_owned: it takes the next piece, or the part of
\* it that fits.  After a partial write, or the last piece, the bytes written
\* since the list was last cut are cut from it.
WriteOwned(x) ==
    LET piece == out[x].list[out[x].whole + 1]
        before == Len(FlattenSeq(SubSeq(out[x].list, 1, out[x].whole)))
    IN  /\ ~Free(x) /\ ~closed[Peer(x)]
        /\ \E n \in 1 .. Len(piece) :
             /\ Len(wire[Peer(x)]) + n <= PipeCap
             /\ wire' = [wire EXCEPT ![Peer(x)] = @ \o SubSeq(piece, 1, n)]
             /\ out' = [out EXCEPT ![x] =
                  IF n < Len(piece) \/ @.whole + 1 = Len(@.list)
                  THEN Writing(AfterWriting(@.list, before + n))
                  ELSE [@ EXCEPT !.whole = @ + 1]]
        /\ UNCHANGED <<plan, pipelined, closed, rd, got, srv, cli>>

\* What the reader of x does next, while its task waits for input.
Awaits(x) ==
    IF x = "server" THEN srv.pc \in {"request", "drain", "copy"} /\ Free(x)
    ELSE cli.recv \in {"head", "body"}
Does(x) ==
    IF rd[x].expects = "head"
    THEN Parse(rd[x], parse_head(rd[x].buf), MaxHead, "body")
    ELSE next_chunk(rd[x], PipeCap)

\* RollMut::read_into, when the transport has bytes to give.
ReadInto(x) ==
    /\ Awaits(x) /\ Does(x).does = "read"
    /\ \E n \in 1 .. Does(x).limit :
         /\ n <= Len(wire[x])
         /\ rd' = [rd EXCEPT ![x].buf = @ \o SubSeq(wire[x], 1, n)]
         /\ wire' = [wire EXCEPT ![x] = SubSeq(@, n + 1, Len(@))]
    /\ UNCHANGED <<plan, pipelined, out, closed, got, srv, cli>>

\* A read that returns zero bytes, and a write that fails.
AtEnd(x) ==
    /\ Awaits(x) /\ Does(x).does = "read"
    /\ wire[x] = <<>> /\ closed[Peer(x)]
CannotWrite(x) == ~Free(x) /\ closed[Peer(x)]

-----------------------------------------------------------------------------
(* The server.                                                             *)

\* h1::serve returns, and the transport is dropped.
Returns(outcome) ==
    /\ srv' = [srv EXCEPT !.pc = "ended", !.outcome = outcome]
    /\ closed' = [closed EXCEPT !["server"] = TRUE]
    /\ out' = [out EXCEPT !["server"] = Nothing]
    /\ UNCHANGED <<plan, pipelined, wire, rd, got, cli>>

\* The head of a request is read: the handler is called with the body that
\* follows it.
ReceiveRequest ==
    LET head == parse_head(rd["server"].buf)
    IN  /\ srv.pc = "request" /\ head.is = "ok"
        /\ srv' = [srv EXCEPT !.n = @ + 1, !.req = head.value, !.next = 1, !.written = 0,
                              !.pc = IF plan[srv.n + 1].handler = "drain" THEN "drain"
                                     ELSE "respond"]
        /\ rd' = [rd EXCEPT !["server"] = BodyReader(Does("server").reader.buf, head.value)]
        /\ got' = [got EXCEPT !["server"] = <<>>]
        /\ UNCHANGED <<plan, pipelined, wire, out, closed, cli>>

\* The head is as long as max_http_header_len and does not end.
RefuseRequest ==
    /\ srv.pc = "request" /\ Does("server").does = "fail"
    /\ parse_head(rd["server"].buf).is = "incomplete"
    /\ out' = [out EXCEPT !["server"] = Writing(<<HeadBytes(0, TooLarge)>>)]
    /\ srv' = [srv EXCEPT !.pc = "refuse"]
    /\ UNCHANGED <<plan, pipelined, wire, closed, rd, got, cli>>

\* A turn of the loop in which the handler reads the request's body.  A
\* handler that copies writes each chunk before it reads the next.
ReadRequestBody ==
    LET step == Does("server")
    IN  /\ srv.pc \in {"drain", "copy"} /\ Free("server")
        /\ step.does \in {"loop", "chunk"}
        /\ rd' = [rd EXCEPT !["server"] = step.reader]
        /\ got' = [got EXCEPT !["server"] = @ \o step.chunk]
        /\ IF srv.pc = "copy" /\ step.does = "chunk"
           THEN /\ out' = [out EXCEPT !["server"] =
                     Writing(write_h1_body_chunk(step.chunk, ModeFor(Announced(srv.n))))]
                /\ srv' = [srv EXCEPT !.written = @ + Len(step.chunk)]
           ELSE UNCHANGED <<out, srv>>
        /\ UNCHANGED <<plan, pipelined, wire, closed, cli>>

\* The handler is told that the body is done: it answers.
RequestBodyDone ==
    /\ srv.pc = "drain" /\ Does("server").does = "done"
    /\ rd' = [rd EXCEPT !["server"] = Does("server").reader]
    /\ srv' = [srv EXCEPT !.pc = "respond"]
    /\ UNCHANGED <<plan, pipelined, wire, out, closed, got, cli>>

\* Responder::write_final_response.
WriteFinalResponse ==
    /\ srv.pc = "respond"
    /\ out' = [out EXCEPT !["server"] =
         Writing(<<HeadBytes(1, ResponseHead(srv.n))>>)]
    /\ srv' = [srv EXCEPT !.pc = IF plan[srv.n].handler = "copy" THEN "copy" ELSE "body"]
    /\ UNCHANGED <<plan, pipelined, wire, closed, rd, got, cli>>

\* Responder::write_chunk, of the next piece of the handler's own body.
WriteChunk ==
    LET chunk == Piece("server", srv.n, plan[srv.n].res, srv.next)
        mode == ModeFor(Announced(srv.n))
    IN  /\ srv.pc = "body" /\ Free("server") /\ srv.next <= Len(plan[srv.n].res)
        /\ IF mode = "Empty" THEN Returns("Driver")
           ELSE /\ out' = [out EXCEPT !["server"] = Writing(write_h1_body_chunk(chunk, mode))]
                /\ srv' = [srv EXCEPT !.next = @ + 1, !.written = @ + Len(chunk)]
                /\ UNCHANGED <<plan, pipelined, wire, closed, rd, got, cli>>

\* Responder::finish_body.
finish_body ==
    IF Announced(srv.n) # Unknown /\ srv.written # Announced(srv.n)
    THEN Returns("Driver")
    ELSE /\ out' = [out EXCEPT !["server"] =
              Writing(write_h1_body_end(ModeFor(Announced(srv.n))))]
         /\ srv' = [srv EXCEPT !.pc = "flush"]
         /\ rd' = [rd EXCEPT !["server"] =
              IF srv.pc = "copy" THEN Does("server").reader ELSE @]
         /\ UNCHANGED <<plan, pipelined, wire, closed, got, cli>>

FinishBody ==
    /\ Free("server")
    /\ \/ srv.pc = "body" /\ srv.next > Len(plan[srv.n].res)
       \/ srv.pc = "copy" /\ Does("server").does = "done"
    /\ finish_body

\* Mutant: a body that was not read to its end is left in the connection.
KeepsUndrained ==
    /\ srv.pc = "flush" /\ Free("server")
    /\ IF srv.req.close THEN Returns("ClientRequestedConnectionClose")
       ELSE /\ srv' = [srv EXCEPT !.pc = "request"]
            /\ rd' = [rd EXCEPT !["server"].expects = "head"]
            /\ UNCHANGED <<plan, pipelined, wire, out, closed, got, cli>>

\* The handler is done: the next request follows what it has read.
NextRequest ==
    /\ srv.pc = "flush" /\ Free("server")
    /\ IF ~eof(rd["server"]) THEN Returns("ResponseHandlerBodyNotDrained")
       ELSE IF srv.req.close THEN Returns("ClientRequestedConnectionClose")
       ELSE /\ srv' = [srv EXCEPT !.pc = "request"]
            /\ rd' = [rd EXCEPT !["server"].expects = "head"]
            /\ UNCHANGED <<plan, pipelined, wire, out, closed, got, cli>>

\* Every other way in which h1::serve returns.
ServeEnds ==
    LET asked == srv.pc = "request"
    IN  \/ /\ AtEnd("server")
           /\ Returns(IF ~asked THEN "Driver"
                      ELSE IF rd["server"].buf = <<>> THEN "ClientClosedConnectionBetweenRequests"
                      ELSE "ClientDidntSpeakHttp11")
        \/ /\ asked /\ parse_head(rd["server"].buf).is = "error"
           /\ Returns("ClientDidntSpeakHttp11")
        \/ /\ srv.pc \in {"drain", "copy"} /\ Free("server") /\ Does("server").does = "fail"
           /\ Returns("Driver")
        \/ /\ CannotWrite("server")
           /\ Returns(IF srv.pc = "refuse" THEN "DownstreamWrite" ELSE "Driver")
        \/ /\ srv.pc = "refuse" /\ Free("server")
           /\ Returns("RequestHeadersTooLargeOnHttp1Conn")

Server ==
    \/ ReceiveRequest \/ RefuseRequest \/ ReadRequestBody \/ RequestBodyDone
    \/ WriteFinalResponse \/ WriteChunk \/ FinishBody \/ NextRequest \/ ServeEnds

-----------------------------------------------------------------------------
(* The client.                                                             *)

\* The client ends: it has its answers, it gave up or it went away.
Ends(outcome) ==
    /\ cli' = [cli EXCEPT !.outcome = outcome, !.send = "idle", !.recv = "idle"]
    /\ closed' = [closed EXCEPT !["client"] = TRUE]
    /\ out' = [out EXCEPT !["client"] = Nothing]
    /\ UNCHANGED <<plan, pipelined, wire, rd, got, srv>>

Alive == cli.outcome = "none"

\* h1::request is called: the head is written, and nothing is read before
\* that is done.  The buffer is a new one.
Request ==
    /\ Alive /\ cli.n < NExchanges
    /\ \/ cli.send = "idle" /\ cli.recv = "idle"
       \/ pipelined /\ cli.send = "sent"
    /\ cli' = [cli EXCEPT !.n = @ + 1, !.send = "head", !.next = 1]
    /\ out' = [out EXCEPT !["client"] =
         Writing(<<HeadBytes(plan[cli.n + 1].parts, RequestHead(cli.n + 1))>>)]
    /\ rd' = [rd EXCEPT !["client"] = IF pipelined THEN @ ELSE NewReader]
    /\ UNCHANGED <<plan, pipelined, wire, closed, got, srv>>

\* The head is written: send_body_fut and recv_res_fut run side by side.
HeadWritten ==
    /\ cli.send = "head" /\ Free("client")
    /\ cli' = [cli EXCEPT !.send = "body",
                          !.k = IF @ = 0 \/ ~pipelined THEN cli.n ELSE @,
                          !.recv = IF @ = "idle" THEN "head" ELSE @]
    /\ UNCHANGED <<plan, pipelined, wire, out, closed, rd, got, srv>>

\* write_h1_body: the next piece, or the end of the body.
WriteBody ==
    LET sizes == plan[cli.n].req
        mode == ModeFor(plan[cli.n].reqLen)
        more == cli.next <= Len(sizes)
    IN  /\ cli.send = "body" /\ Free("client")
        /\ out' = [out EXCEPT !["client"] = Writing(
             IF more THEN write_h1_body_chunk(Piece("client", cli.n, sizes, cli.next), mode)
             ELSE write_h1_body_end(mode))]
        /\ cli' = [cli EXCEPT !.next = @ + 1, !.send = IF more THEN @ ELSE "end"]
        /\ UNCHANGED <<plan, pipelined, wire, closed, rd, got, srv>>

BodyWritten ==
    /\ cli.send = "end" /\ Free("client")
    /\ cli' = [cli EXCEPT !.send = "sent"]
    /\ UNCHANGED <<plan, pipelined, wire, out, closed, rd, got, srv>>

\* The head of the response is read; the driver may leave the body unread.
ReceiveResponse ==
    LET head == parse_head(rd["client"].buf)
    IN  /\ cli.recv = "head" /\ head.is = "ok"
        /\ cli' = [cli EXCEPT !.res = head.value,
                              !.recv = IF plan[cli.k].reads THEN "body" ELSE "done"]
        /\ rd' = [rd EXCEPT !["client"] = BodyReader(Does("client").reader.buf, head.value)]
        /\ got' = [got EXCEPT !["client"] = <<>>]
        /\ UNCHANGED <<plan, pipelined, wire, out, closed, srv>>

ReadResponseBody ==
    LET step == Does("client")
    IN  /\ cli.recv = "body" /\ step.does \in {"loop", "chunk", "done"}
        /\ rd' = [rd EXCEPT !["client"] = step.reader]
        /\ got' = [got EXCEPT !["client"] = @ \o step.chunk]
        /\ cli' = [cli EXCEPT !.recv = IF step.does = "done" THEN "done" ELSE @]
        /\ UNCHANGED <<plan, pipelined, wire, out, closed, srv>>

\* Mutant: the transport is given back with the response's body unread.
ReusesUndrained ==
    /\ ~pipelined /\ cli.send = "sent" /\ cli.recv = "done"
    /\ IF cli.res.close \/ cli.n = NExchanges
       THEN Ends("closed")
       ELSE /\ cli' = [cli EXCEPT !.send = "idle", !.recv = "idle"]
            /\ UNCHANGED <<plan, pipelined, wire, out, closed, rd, got, srv>>

\* Both are done: h1::request gives the transport back, or drops it.
RequestDone ==
    /\ ~pipelined /\ cli.send = "sent" /\ cli.recv = "done"
    /\ IF cli.res.close \/ ~eof(rd["client"]) \/ cli.n = NExchanges
       THEN Ends("closed")
       ELSE /\ cli' = [cli EXCEPT !.send = "idle", !.recv = "idle"]
            /\ UNCHANGED <<plan, pipelined, wire, out, closed, rd, got, srv>>

\* A client that pipelines goes on with the next response.
NextResponse ==
    /\ pipelined /\ cli.recv = "done"
    /\ IF cli.res.close \/ cli.k = NExchanges
       THEN Ends("closed")
       ELSE /\ cli' = [cli EXCEPT !.k = @ + 1, !.recv = "head"]
            /\ rd' = [rd EXCEPT !["client"].expects = "head"]
            /\ UNCHANGED <<plan, pipelined, wire, out, closed, got, srv>>

\* try_join! ends with the first error; one that write_h1_body returns is a
\* panic.
RequestFails ==
    \/ AtEnd("client") /\ Ends("response cut off")
    \/ Awaits("client") /\ Does("client").does = "fail" /\ Ends("response invalid")
    \/ /\ CannotWrite("client")
       /\ Ends(IF cli.send = "head" THEN "WhileWritingRequestHeaders" ELSE "panic")

\* The program at the other end goes away.
GoesAway == Alive /\ Ends("gone")

Client ==
    \/ Request \/ HeadWritten \/ WriteBody \/ BodyWritten \/ ReceiveResponse
    \/ ReadResponseBody \/ RequestDone \/ NextResponse \/ RequestFails

-----------------------------------------------------------------------------

Tasks == Server \/ Client \/ \E x \in Sides : WriteOwned(x) \/ ReadInto(x)

Next == Tasks \/ GoesAway

\* The executor polls a task that was woken, and the transport moves bytes.
Spec == Init /\ [][Next]_vars /\ WF_vars(Tasks)

-----------------------------------------------------------------------------

\* A handler writes more than it announced: finish_body notices when the
\* bytes are gone.
Overruns(n) ==
    /\ Announced(n) # Unknown
    /\ Len(BodyOf("server", n)) > Announced(n)
Refused(n) == plan[n].parts >= MaxHead

\* The headers of the requests say how their bodies are written.
WellFramed == \A n \in 1 .. NExchanges : plan[n].te <=> plan[n].reqLen = Unknown

\* The messages keep their boundaries over the life of the connection,
\* however reads and writes are cut up: the server takes the n-th head for
\* request n and the client the k-th for response k, and neither finds
\* anything but a head where it looks for one, unless a handler wrote more
\* than it announced, a request's headers do not say how its body is written,
\* or the peer went away in the middle of a message.
KeepsInStep ==
    /\ srv.n > 0 => srv.req.n = srv.n
    /\ cli.recv \in {"body", "done"} => cli.res.n = IF Refused(cli.k) THEN 0 ELSE cli.k
    /\ srv.outcome = "ClientDidntSpeakHttp11" => closed["client"] \/ ~WellFramed
    /\ cli.outcome = "response invalid" => \E n \in 1 .. NExchanges : Overruns(n)

\* What a side reads of a body is the bytes its peer meant to send, from the
\* first on and in order, and a side that is told that the body is done has
\* all of them: as many as were announced, or, when nothing was announced,
\* as many as there are.  (types/mod.rs:102: "The body finished, and it
\* matched the announced content-length, or we were using a framed
\* protocol".)
BodiesArriveWhole ==
    /\ WellFramed /\ srv.n > 0 /\ srv.pc # "request" =>
         /\ IsPrefix(got["server"], BodyOf("client", srv.n))
         /\ eof(rd["server"]) => got["server"] = BodyOf("client", srv.n)
    /\ cli.recv \in {"body", "done"} /\ ~Refused(cli.k) =>
         /\ IsPrefix(got["client"], BodyOf("server", cli.k))
         /\ eof(rd["client"]) =>
              \/ got["client"] = BodyOf("server", cli.k)
              \/ Overruns(cli.k) /\ Len(got["client"]) = Announced(cli.k)

\* h1::request gives a transport back only when nothing of the last response
\* is left in it or in the buffer it throws away: what the next call reads
\* is the answer to its own request.
ReuseIsClean ==
    Alive /\ ~pipelined /\ cli.send = "idle" /\ cli.n > 0 /\ ~Overruns(cli.n) =>
      wire["client"] = <<>> /\ rd["client"].buf = <<>> /\ Free("server")

\* No exchange hangs: whatever handlers read, write and announce, and however
\* little the transport holds, both sides come to an end, as long as requests
\* are what their headers say and the client's drivers read what they are
\* sent.
ExchangesEnd ==
    WellFramed /\ (\A k \in 1 .. NExchanges : plan[k].reads)
      => <>(cli.outcome # "none" /\ srv.pc = "ended")
=============================================================================
