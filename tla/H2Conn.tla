------------------------------- MODULE H2Conn -------------------------------
(***************************************************************************)
(* One HTTP/2 server connection, seen from its sending side                *)
(* (loona/src/h2/server.rs, types.rs, encode.rs).                          *)
(*                                                                         *)
(* ServerContext::process_loop owns ConnState and, one at a time, handles  *)
(* a frame of the client, handles an H2Event of a request handler, or runs *)
(* send_data_maybe.  The handlers are other tasks on the same thread: they *)
(* reach the loop only through the bounded event channel.  send_data_maybe *)
(* is split into one action per iteration of its loops: the loop keeps the *)
(* program counter "pc" away from "loop" meanwhile, so no frame and no     *)
(* event is handled in the middle of a pass, but handlers go on sending.   *)
(*                                                                         *)
(* Data is abstracted to lengths.  What happens to a request body is the   *)
(* subject of H2Incoming: here its effect on the stream is an input of     *)
(* the DATA and HEADERS actions.  PING, PRIORITY of the right size,        *)
(* SETTINGS acknowledgements, GOAWAY (it sets a flag nobody reads) and     *)
(* unknown frames change none of this state and are stuttering steps.      *)
(***************************************************************************)
EXTENDS Integers, Sequences, FiniteSets

CONSTANTS
    StreamIds,       \* the stream identifiers the client uses
    MaxConcurrent,   \* self_settings.max_concurrent_streams
    MaxWindow,       \* MAX_WINDOW_SIZE
    DefaultWindow,   \* Settings::default().initial_window_size
    DefaultFrame,    \* Settings::default().max_frame_size
    UsizeModulus,    \* 2^64
    EvCap,           \* capacity of the event channel (H2_SERVER_CHAN_SIZE)
    RstRepeat,       \* how often rst writes its frame
    ClientFrames,    \* the frame types the client of this instance sends
    Blocks,          \* the field blocks it sends (see ReceiveHeaders)
    Windows,         \* SETTINGS_INITIAL_WINDOW_SIZE values it announces
    FrameSizes,      \* SETTINGS_MAX_FRAME_SIZE values it announces
    Increments,      \* WINDOW_UPDATE increments it sends
    HeaderLens,      \* lengths of encoded response header blocks
    ChunkLens,       \* lengths of the chunks handlers write
    MaxBody          \* bound: bytes one handler writes

ASSUME ConnAssumption ==
    /\ StreamIds \subseteq Nat \ {0}
    /\ MaxConcurrent \in Nat
    /\ MaxWindow \in Nat
    /\ DefaultWindow \in 0 .. MaxWindow
    /\ DefaultFrame \in Nat \ {0}
    /\ UsizeModulus \in Nat
    /\ UsizeModulus > 2 * MaxWindow + MaxBody
    /\ EvCap \in Nat \ {0}
    /\ RstRepeat \in Nat \ {0}
    /\ Blocks \subseteq {"fine", "connection", "malformed", "status"}
    /\ Windows \subseteq 0 .. MaxWindow
    /\ FrameSizes \subseteq Nat \ {0}
    /\ Increments \subseteq Nat
    /\ HeaderLens \subseteq Nat
    /\ ChunkLens \subseteq Nat
    /\ MaxBody \in Nat

VARIABLES
    \* ConnState, one function per field of StreamState / StreamOutgoing
    streams,     \* state of each stream; "Absent" = no entry in the map
    headers,     \* HeadersOutgoing
    headerLen,   \* length of the piece in WroteNone / WroteSome
    body,        \* BodyOutgoing
    queued,      \* bytes in its pieces
    pieces,      \* whether its VecDeque holds a piece (possibly empty ones)
    capacity,    \* StreamOutgoing::capacity
    lastSid,     \* last_stream_id
    initWindow,  \* peer_settings.initial_window_size
    maxFrame,    \* peer_settings.max_frame_size
    connCap,     \* ConnState::outgoing_capacity
    pending,     \* streams_with_pending_data
    permit,      \* the stored permit of the Notify send_data_maybe
    \* the process loop
    pc,          \* where the loop is
    cur,         \* send_data_maybe: the stream of this iteration
    left,        \* send_data_maybe: capacity - total_bytes_written
    todo,        \* send_data_maybe: streams of the snapshot not visited yet
    notPending,  \* send_data_maybe: not_pending
    frames,      \* send_data_maybe: the frames vector
    selfq,       \* events process_frame itself still has to send
    exit,        \* "running", or why it ended
    \* request handlers and the event channel
    events,      \* the event channel
    enc,         \* EncoderState of each stream's H2Encoder
    dropq,       \* events the task spawned by H2Encoder::drop has to send
    handed,      \* bytes the handler of a stream has put in the channel
    \* what the peer has granted and received
    wire,        \* how far each stream has come on the wire
    sent,        \* DATA bytes written per stream
    granted,     \* bytes the peer has allowed per stream
    connSent,    \* DATA bytes written
    connGranted, \* bytes the peer has allowed on the connection
    rstFrames    \* RST_STREAM frames the last reset of a stream wrote

outVars == <<headers, headerLen, body, queued, pieces, capacity>>
connVars == <<lastSid, initWindow, maxFrame>>
passVars == <<cur, left, todo, notPending, frames>>
taskVars == <<enc, dropq, handed>>
wireVars == <<wire, sent, connSent, rstFrames>>
grantVars == <<granted, connGranted>>
vars == <<streams, outVars, connVars, connCap, pending, permit, pc, passVars,
          selfq, exit, events, taskVars, wireVars, grantVars>>

\* No stream: the value of cur outside a pass.
NoStream == 0

StreamStates == {"Absent", "Open", "HalfClosedRemote", "HalfClosedLocal"}
EncoderStates == {"None", "ExpectResponseHeaders", "ExpectResponseBody",
                  "ResponseDone"}
Events == [sid : StreamIds, ev : {"Headers", "BodyChunk", "BodyEnd"}, len : Nat]
Frames == [sid : StreamIds, type : {"HEADERS", "CONTINUATION", "DATA"},
           len : Nat, end : BOOLEAN]
Panics == {"panic: pending stream is not outgoing", "panic: headers too late",
           "panic: piece after done", "panic: body end twice",
           "panic: DATA without outgoing", "panic: stream capacity negative",
           "panic: connection capacity negative", "panic: trailers not open"}
Errors == {"Closed", "FrameTooLarge", "IncompleteFrame", "HeadersInvalidPriority",
           "ClientSidShouldBeOdd", "ClientSidShouldBeNumericallyIncreasing",
           "PaddedFrameEmpty", "PaddedFrameTooShort", "ExpectedContinuationFrame",
           "ExpectedContinuationForStream", "UnexpectedContinuationFrame",
           "HpackDecodingError", "ClientSentPushPromise",
           "WindowUpdateForUnknownOrClosedStream", "StreamSpecificFrameToConnection",
           "ReadAndParse", "RstStreamForUnknownStream", "StreamClosed",
           "PingFrameWithNonZeroStreamId", "PingFrameInvalidLength",
           "SettingsInvalidLength", "SettingsWithNonZeroStreamId",
           "GoAwayWithNonZeroStreamId", "WindowUpdateZeroIncrement",
           "WindowUpdateOverflow", "WindowUnderflow",
           "StreamWindowSizeOverflowDueToSettings", "WindowUpdateInvalidLength",
           "InitialWindowSizeTooLarge", "BadSettingValue"}

Min(a, b) == IF a <= b THEN a ELSE b

\* `as usize` of an i64: a negative number becomes a huge one.
AsUsize(i) == IF i < 0 THEN i + UsizeModulus ELSE i

StreamsType ==
    /\ streams \in [StreamIds -> StreamStates]
    /\ headers \in [StreamIds -> {"WaitingForHeaders", "WroteNone", "WroteSome", "WroteAll"}]
    /\ headerLen \in [StreamIds -> Nat]
    /\ body \in [StreamIds -> {"StillReceiving", "DoneReceiving", "DoneSending"}]
    /\ queued \in [StreamIds -> Nat]
    /\ pieces \in [StreamIds -> BOOLEAN]
    /\ capacity \in [StreamIds -> Int]

ConnType ==
    /\ lastSid \in Nat
    /\ initWindow \in 0 .. MaxWindow
    /\ maxFrame \in Nat \ {0}
    /\ connCap \in 0 .. MaxWindow
    /\ pending \subseteq StreamIds
    /\ permit \in BOOLEAN

LoopType ==
    /\ pc \in {"loop", "each", "headers", "body", "write", "respond"}
    /\ cur \in StreamIds \cup {NoStream}
    /\ pc \in {"headers", "body"} => cur \in StreamIds
    /\ left \in Nat
    /\ todo \subseteq StreamIds
    /\ notPending \subseteq StreamIds
    /\ frames \in Seq(Frames)
    /\ selfq \in Seq(Events)
    /\ exit \in {"running"} \cup Panics \cup Errors

TaskType ==
    /\ events \in Seq(Events)
    /\ enc \in [StreamIds -> EncoderStates]
    /\ dropq \in [StreamIds -> Seq(Events)]
    /\ handed \in [StreamIds -> Nat]

WireType ==
    /\ wire \in [StreamIds -> {"idle", "headers", "body", "ended", "reset"}]
    /\ sent \in [StreamIds -> Nat]
    /\ granted \in [StreamIds -> Int]
    /\ connSent \in Nat
    /\ connGranted \in Nat
    /\ rstFrames \in [StreamIds -> Nat]

\* Every variable has its type; in particular the connection capacity stays
\* between 0 and MAX_WINDOW_SIZE, and what send_data_maybe may still write
\* never becomes negative.
TypeOK == StreamsType /\ ConnType /\ LoopType /\ TaskType /\ WireType

Init ==
    /\ streams = [s \in StreamIds |-> "Absent"]
    /\ headers = [s \in StreamIds |-> "WaitingForHeaders"]
    /\ headerLen = [s \in StreamIds |-> 0]
    /\ body = [s \in StreamIds |-> "StillReceiving"]
    /\ queued = [s \in StreamIds |-> 0]
    /\ pieces = [s \in StreamIds |-> FALSE]
    /\ capacity = [s \in StreamIds |-> 0]
    /\ lastSid = 0
    /\ initWindow = DefaultWindow
    /\ maxFrame = DefaultFrame
    /\ connCap = DefaultWindow
    /\ pending = {}
    /\ permit = FALSE
    /\ pc = "loop"
    /\ cur = NoStream
    /\ left = 0
    /\ todo = {}
    /\ notPending = {}
    /\ frames = <<>>
    /\ selfq = <<>>
    /\ exit = "running"
    /\ events = <<>>
    /\ enc = [s \in StreamIds |-> "None"]
    /\ dropq = [s \in StreamIds |-> <<>>]
    /\ handed = [s \in StreamIds |-> 0]
    /\ wire = [s \in StreamIds |-> "idle"]
    /\ sent = [s \in StreamIds |-> 0]
    /\ granted = [s \in StreamIds |-> 0]
    /\ connSent = 0
    /\ connGranted = DefaultWindow
    /\ rstFrames = [s \in StreamIds |-> 0]

-----------------------------------------------------------------------------
(* Helpers.                                                                *)

\* StreamState::outgoing_mut returns Some.
Outgoing(s) == streams[s] \in {"Open", "HalfClosedRemote"}

\* The loop is at its select!, and the client's next frame is of type t.
Receives(t) == exit = "running" /\ pc = "loop" /\ t \in ClientFrames

\* process_loop returns or panics: nothing it owns is used again.
Ends(why) ==
    /\ exit' = why
    /\ UNCHANGED <<streams, outVars, connVars, connCap, pending, permit, pc,
                   passVars, selfq, events, taskVars, wireVars, grantVars>>

\* A StreamOutgoing nothing was written to yet; with no capacity it also
\* stands for the fields of a stream that has no StreamOutgoing.
SetOutgoing(s, cap) ==
    /\ headers' = [headers EXCEPT ![s] = "WaitingForHeaders"]
    /\ headerLen' = [headerLen EXCEPT ![s] = 0]
    /\ body' = [body EXCEPT ![s] = "StillReceiving"]
    /\ queued' = [queued EXCEPT ![s] = 0]
    /\ pieces' = [pieces EXCEPT ![s] = FALSE]
    /\ capacity' = [capacity EXCEPT ![s] = cap]

\* Mutant: the window a stream starts with ignores the peer's settings.
StartsWithDefaultWindow(s) == SetOutgoing(s, DefaultWindow)

mk_stream_outgoing(s) == SetOutgoing(s, initWindow)
DropOutgoing(s) == SetOutgoing(s, 0)

\* The stream leaves the map.  streams_with_pending_data keeps it.
RemoveStream(s) ==
    /\ streams' = [streams EXCEPT ![s] = "Absent"]
    /\ DropOutgoing(s)

\* The wire after a reset; one of a stream not in the map changes nothing.
WireReset(s) ==
    wire' = [wire EXCEPT ![s] = IF streams[s] = "Absent" THEN @ ELSE "reset"]

\* rst: remove the stream and write the RST_STREAM frame.
rst(s) ==
    /\ RemoveStream(s)
    /\ WireReset(s)
    /\ rstFrames' = [rstFrames EXCEPT ![s] = RstRepeat]
    /\ UNCHANGED <<sent, connSent>>

-----------------------------------------------------------------------------
(* process_frame                                                           *)

\* Mutant: the limit on concurrent streams is off by one.
OneStreamTooMany ==
    Cardinality({s \in StreamIds : streams[s] # "Absent"}) > MaxConcurrent

\* One more stream would exceed max_concurrent_streams.
TooManyStreams ==
    Cardinality({s \in StreamIds : streams[s] # "Absent"}) + 1 > MaxConcurrent

\* Mutant: last_stream_id is not kept.
ForgetSid(s) == UNCHANGED lastSid

RecordSid(s) == lastSid' = s

\* A header block that opens a stream is read to its end and accepted: the
\* stream is stored and its handler spawned (read_headers).
AcceptRequest(s, es) ==
    /\ streams' = [streams EXCEPT ![s] = IF es THEN "HalfClosedRemote" ELSE "Open"]
    /\ mk_stream_outgoing(s)
    /\ granted' = [granted EXCEPT ![s] = initWindow]
    /\ RecordSid(s)
    /\ enc' = [enc EXCEPT ![s] = "ExpectResponseHeaders"]
    /\ UNCHANGED <<initWindow, maxFrame, connCap, pending, permit, pc, passVars,
                   selfq, exit, events, dropq, handed, wireVars, connGranted>>

\* The request cannot be served (CONNECT, invalid URI parts): process_frame
\* answers itself, through the event channel only it drains.
RespondWithStatus(s, n) ==
    /\ streams' = [streams EXCEPT ![s] = "HalfClosedRemote"]
    /\ mk_stream_outgoing(s)
    /\ granted' = [granted EXCEPT ![s] = initWindow]
    /\ RecordSid(s)
    /\ selfq' = << [sid |-> s, ev |-> "Headers", len |-> 0],
                   [sid |-> s, ev |-> "BodyChunk", len |-> n],
                   [sid |-> s, ev |-> "BodyEnd", len |-> 0] >>
    /\ pc' = "respond"
    /\ UNCHANGED <<initWindow, maxFrame, connCap, pending, permit, passVars,
                   exit, events, taskVars, wireVars, connGranted>>

ResetByServer(s) ==
    /\ rst(s)
    /\ UNCHANGED <<connVars, connCap, pending, permit, pc, passVars, selfq,
                   exit, events, taskVars, grantVars>>

\* HEADERS for a stream that is not in the map.  `block` is what read_headers
\* makes of the field block: fine, a connection error, a malformed request,
\* or a request to be answered with a status.  The block of a refused stream
\* is skipped; one cut short by another frame is a ReceiveErroneous of its own.
ReceiveHeaders(s, es, block) ==
    /\ Receives("HEADERS")
    /\ streams[s] = "Absent"
    /\ IF s % 2 = 0
         THEN Ends("ClientSidShouldBeOdd")
       ELSE IF s < lastSid
         THEN Ends("ClientSidShouldBeNumericallyIncreasing")
       ELSE IF s = lastSid
         THEN Ends("StreamClosed")
       ELSE IF TooManyStreams
         THEN ResetByServer(s)
       ELSE \/ block = "fine" /\ AcceptRequest(s, es)
            \/ block = "connection" /\ Ends("HpackDecodingError")
            \/ /\ block = "malformed"
               /\ rst(s)
               /\ RecordSid(s)
               /\ UNCHANGED <<initWindow, maxFrame, connCap, pending, permit, pc,
                              passVars, selfq, exit, events, taskVars, grantVars>>
            \/ block = "status" /\ \E n \in ChunkLens : RespondWithStatus(s, n)

\* HEADERS for a stream in the map: trailers.
ReceiveTrailers(s, es, block) ==
    /\ Receives("HEADERS")
    /\ streams[s] # "Absent"
    /\ block # "status"
    /\ \/ streams[s] = "HalfClosedRemote" /\ Ends("StreamClosed")
       \/ /\ streams[s] # "HalfClosedRemote"
          /\ ~es \/ block = "malformed"
          /\ ResetByServer(s)
       \/ /\ streams[s] # "HalfClosedRemote"
          /\ es /\ block = "connection"
          /\ Ends("HpackDecodingError")
       \/ /\ streams[s] = "Open"
          /\ es /\ block = "fine"
          /\ streams' = [streams EXCEPT ![s] = "HalfClosedRemote"]
          /\ UNCHANGED <<outVars, connVars, connCap, pending, permit, pc, passVars,
                         selfq, exit, events, taskVars, wireVars, grantVars>>
       \/ /\ streams[s] = "HalfClosedLocal"
          /\ es /\ block = "fine"
          /\ Ends("panic: trailers not open")

\* DATA.  `chunk` is what becomes of the payload: over the stream's incoming
\* window, handed to the handler, or refused by StreamIncoming::write_chunk.
ReceiveData(s, es, chunk) ==
    /\ Receives("DATA")
    /\ \/ streams[s] = "Absent" /\ Ends("StreamClosed")
       \/ streams[s] = "HalfClosedRemote" /\ ResetByServer(s)
       \/ /\ streams[s] \in {"Open", "HalfClosedLocal"}
          /\ chunk = "underflow"
          /\ Ends("WindowUnderflow")
       \/ /\ streams[s] \in {"Open", "HalfClosedLocal"}
          /\ chunk = "refused"
          /\ ResetByServer(s)
       \/ /\ streams[s] \in {"Open", "HalfClosedLocal"}
          /\ chunk = "handed" /\ es
          /\ streams' = [streams EXCEPT ![s] =
                           IF @ = "Open" THEN "HalfClosedRemote" ELSE "Absent"]
          /\ UNCHANGED <<outVars, connVars, connCap, pending, permit, pc, passVars,
                         selfq, exit, events, taskVars, wireVars, grantVars>>

\* PRIORITY or RST_STREAM of the wrong size, for any stream.
ReceiveInvalidSize(s) ==
    /\ Receives("INVALID_SIZE")
    /\ ResetByServer(s)

ReceiveRstStream(s) ==
    /\ Receives("RST_STREAM")
    /\ \/ streams[s] = "Absent" /\ Ends("RstStreamForUnknownStream")
       \/ /\ streams[s] # "Absent"
          /\ RemoveStream(s)
          /\ WireReset(s)
          /\ UNCHANGED <<connVars, connCap, pending, permit, pc, passVars, selfq,
                         exit, events, taskVars, sent, connSent, rstFrames, grantVars>>

\* SETTINGS: the change of the initial window is applied to every stream
\* that has an outgoing half; one that overflows ends the connection.
ReceiveSettings(window, frameSize) ==
    LET delta == window - initWindow
        next(s) == capacity[s] + delta
    IN  /\ Receives("SETTINGS")
        /\ IF \E s \in StreamIds : Outgoing(s) /\ delta # 0 /\ next(s) > MaxWindow
             THEN Ends("StreamWindowSizeOverflowDueToSettings")
             ELSE /\ initWindow' = window
                  /\ maxFrame' = frameSize
                  /\ capacity' = [s \in StreamIds |->
                                    IF Outgoing(s) THEN next(s) ELSE capacity[s]]
                  /\ granted' = [s \in StreamIds |->
                                   IF Outgoing(s) THEN granted[s] + delta ELSE granted[s]]
                  /\ permit' = (permit \/ \E s \in StreamIds :
                                  Outgoing(s) /\ next(s) > 0 /\ capacity[s] <= 0)
                  /\ UNCHANGED <<streams, headers, headerLen, body, queued, pieces,
                                 lastSid, connCap, pending, pc, passVars, selfq, exit,
                                 events, taskVars, wireVars, connGranted>>

\* Mutant: the connection window may overflow.
ConnWindowUnchecked(n) ==
    /\ Receives("WINDOW_UPDATE")
    /\ connCap' = connCap + n
    /\ connGranted' = connGranted + n
    /\ permit' = TRUE
    /\ UNCHANGED <<streams, outVars, connVars, pending, pc, passVars, selfq, exit,
                   events, taskVars, wireVars, granted>>

ReceiveConnWindowUpdate(n) ==
    /\ Receives("WINDOW_UPDATE")
    /\ IF n = 0
         THEN Ends("WindowUpdateZeroIncrement")
       ELSE IF connCap + n > MaxWindow
         THEN Ends("WindowUpdateOverflow")
       ELSE /\ connCap' = connCap + n
            /\ connGranted' = connGranted + n
            /\ permit' = TRUE
            /\ UNCHANGED <<streams, outVars, connVars, pending, pc, passVars,
                           selfq, exit, events, taskVars, wireVars, granted>>

ReceiveStreamWindowUpdate(s, n) ==
    /\ Receives("WINDOW_UPDATE")
    /\ IF n = 0
         THEN Ends("WindowUpdateZeroIncrement")
       ELSE IF ~Outgoing(s)
         THEN Ends("WindowUpdateForUnknownOrClosedStream")
       ELSE IF capacity[s] + n > MaxWindow
         THEN ResetByServer(s)
       ELSE LET revived == capacity[s] <= 0 /\ capacity[s] + n > 0
            IN  /\ capacity' = [capacity EXCEPT ![s] = @ + n]
                /\ granted' = [granted EXCEPT ![s] = @ + n]
                /\ pending' = IF revived THEN pending \cup {s} ELSE pending
                /\ permit' = (permit \/ (revived /\ connCap > 0))
                /\ UNCHANGED <<streams, headers, headerLen, body, queued, pieces,
                               connVars, connCap, pc, passVars, selfq, exit, events,
                               taskVars, wireVars, connGranted>>

\* The frames that are errors whatever the state: PUSH_PROMISE, CONTINUATION
\* outside a field block, frames on the wrong stream or of the wrong length,
\* and what the deframer rejects (too large, bad padding, cut short).
ReceiveErroneous(why) ==
    /\ Receives("ERRONEOUS")
    /\ Ends(why)

\* The peer hangs up (only noticed at the select!), or reading or writing the
\* transport fails, which `work` notices wherever the loop is.
TransportCloses ==
    /\ exit = "running"
    /\ "CLOSE" \in ClientFrames
    /\ Ends("Closed")

\* process_frame sends the next event of its own answer; it waits for room.
RespondStep ==
    /\ exit = "running"
    /\ pc = "respond"
    /\ Len(events) < EvCap
    /\ events' = Append(events, Head(selfq))
    /\ handed' = [handed EXCEPT ![Head(selfq).sid] = @ + Head(selfq).len]
    /\ selfq' = Tail(selfq)
    /\ pc' = IF Len(selfq) = 1 THEN "loop" ELSE "respond"
    /\ UNCHANGED <<streams, outVars, connVars, connCap, pending, permit, passVars,
                   exit, enc, dropq, wireVars, grantVars>>

-----------------------------------------------------------------------------
(* handle_event                                                            *)

\* The loop takes event e, of kind k, off the channel.
Takes(k) ==
    /\ exit = "running"
    /\ pc = "loop"
    /\ events # <<>>
    /\ Head(events).ev = k

\* Mutant: nobody tells send_data_maybe.
NotifyNever(s) == UNCHANGED permit

\* "worth revisiting then!"
NotifyIfCapacity(s) == permit' = (permit \/ (connCap > 0 /\ capacity[s] > 0))

\* The stream was closed meanwhile: the event is ignored.
IgnoreEvent ==
    /\ exit = "running" /\ pc = "loop" /\ events # <<>>
    /\ ~Outgoing(Head(events).sid)
    /\ events' = Tail(events)
    /\ UNCHANGED <<streams, outVars, connVars, connCap, pending, permit, pc,
                   passVars, selfq, exit, taskVars, wireVars, grantVars>>

HandleHeaders ==
    LET s == Head(events).sid
    IN  /\ Takes("Headers")
        /\ Outgoing(s)
        /\ IF body[s] # "StillReceiving"
             THEN Ends("panic: headers too late")
             ELSE /\ headers' = [headers EXCEPT ![s] = "WroteNone"]
                  /\ \E n \in HeaderLens : headerLen' = [headerLen EXCEPT ![s] = n]
                  /\ pending' = pending \cup {s}
                  /\ NotifyIfCapacity(s)
                  /\ events' = Tail(events)
                  /\ UNCHANGED <<streams, body, queued, pieces, capacity, connVars,
                                 connCap, pc, passVars, selfq, exit, taskVars,
                                 wireVars, grantVars>>

HandleBodyChunk ==
    LET s == Head(events).sid
    IN  /\ Takes("BodyChunk")
        /\ Outgoing(s)
        /\ IF body[s] = "DoneSending"
             THEN Ends("panic: piece after done")
             ELSE /\ queued' = [queued EXCEPT ![s] = @ + Head(events).len]
                  /\ pieces' = [pieces EXCEPT ![s] = TRUE]
                  /\ pending' = pending \cup {s}
                  /\ NotifyIfCapacity(s)
                  /\ events' = Tail(events)
                  /\ UNCHANGED <<streams, headers, headerLen, body, capacity, connVars,
                                 connCap, pc, passVars, selfq, exit, taskVars,
                                 wireVars, grantVars>>

HandleBodyEnd ==
    LET s == Head(events).sid
    IN  /\ Takes("BodyEnd")
        /\ Outgoing(s)
        /\ IF body[s] # "StillReceiving"
             THEN Ends("panic: body end twice")
             ELSE /\ body' = [body EXCEPT ![s] = "DoneReceiving"]
                  /\ permit' = (permit \/ ~pieces[s])
                  /\ events' = Tail(events)
                  /\ UNCHANGED <<streams, headers, headerLen, queued, pieces, capacity,
                                 connVars, connCap, pending, pc, passVars, selfq, exit,
                                 taskVars, wireVars, grantVars>>

-----------------------------------------------------------------------------
(* send_data_maybe and write_frame                                         *)

\* The select! is biased: frames, then events, then the notification.
BeginPass ==
    /\ exit = "running" /\ pc = "loop"
    /\ events = <<>>
    /\ permit
    /\ permit' = FALSE
    /\ todo' = pending
    /\ pc' = "each"
    /\ UNCHANGED <<streams, outVars, connVars, connCap, pending, cur, left,
                   notPending, frames, selfq, exit, events, taskVars, wireVars,
                   grantVars>>

\* 'each_stream: one more stream of the snapshot, in no particular order.
VisitStream(s) ==
    /\ exit = "running" /\ pc = "each"
    /\ s \in todo
    /\ connCap > 0
    /\ \/ ~Outgoing(s) /\ Ends("panic: pending stream is not outgoing")
       \/ /\ Outgoing(s)
          /\ headers[s] = "WaitingForHeaders"
          /\ notPending' = notPending \cup {s}
          /\ todo' = todo \ {s}
          /\ UNCHANGED <<streams, outVars, connVars, connCap, pending, permit, pc,
                         cur, left, frames, selfq, exit, events, taskVars,
                         wireVars, grantVars>>
       \/ /\ Outgoing(s)
          /\ headers[s] # "WaitingForHeaders"
          /\ cur' = s
          /\ left' = AsUsize(Min(connCap, capacity[s]))
          /\ todo' = todo \ {s}
          /\ pc' = IF headers[s] = "WroteAll" THEN "body" ELSE "headers"
          /\ UNCHANGED <<streams, outVars, connVars, connCap, pending, permit,
                         notPending, frames, selfq, exit, events, taskVars,
                         wireVars, grantVars>>

\* 'queue_header_frames: HEADERS, then CONTINUATION, maxFrame bytes each.
QueueHeaderFrame ==
    LET n == Min(headerLen[cur], maxFrame)
        last == headerLen[cur] <= maxFrame
        type == IF headers[cur] = "WroteSome" THEN "CONTINUATION" ELSE "HEADERS"
    IN  /\ exit = "running" /\ pc = "headers"
        /\ frames' = Append(frames, [sid |-> cur, type |-> type, len |-> n, end |-> last])
        /\ headers' = [headers EXCEPT ![cur] = IF last THEN "WroteAll" ELSE "WroteSome"]
        /\ headerLen' = [headerLen EXCEPT ![cur] = @ - n]
        /\ pc' = IF last THEN "body" ELSE "headers"
        /\ UNCHANGED <<streams, body, queued, pieces, capacity, connVars, connCap,
                       pending, permit, cur, left, todo, notPending, selfq, exit,
                       events, taskVars, wireVars, grantVars>>

\* Mutant: END_STREAM goes out with bytes still queued.
FinishesEarly(n) == body[cur] = "DoneReceiving"

\* A DATA frame of n bytes is the last one: might_receive_more is false.
Finishes(n) == body[cur] = "DoneReceiving" /\ n = queued[cur]

\* 'queue_body_frames: one DATA frame.  'build_frame packs whole pieces and a
\* part of the last one; DoneReceiving with nothing left becomes DoneSending,
\* and only that frame carries END_STREAM.
QueueDataFrame ==
    LET n == Min(queued[cur], Min(maxFrame, left))
        done == Finishes(n)
        more == done \/ n > 0
    IN  /\ exit = "running" /\ pc = "body"
        /\ body[cur] # "DoneSending"
        /\ left > 0
        /\ queued' = [queued EXCEPT ![cur] = @ - n]
        /\ pieces' = [pieces EXCEPT ![cur] = n < queued[cur]]
        /\ body' = [body EXCEPT ![cur] = IF done THEN "DoneSending" ELSE @]
        /\ frames' = IF more
                       THEN Append(frames, [sid |-> cur, type |-> "DATA", len |-> n, end |-> done])
                       ELSE frames
        /\ left' = left - n
        /\ pc' = IF more /\ ~done THEN "body" ELSE "each"
        /\ UNCHANGED <<streams, headers, headerLen, capacity, connVars, connCap,
                       pending, permit, cur, todo, notPending, selfq, exit, events,
                       taskVars, wireVars, grantVars>>

\* Nothing (more) of this stream's body can be written in this pass.
LeaveStream ==
    /\ exit = "running" /\ pc = "body"
    /\ body[cur] = "DoneSending" \/ left = 0
    /\ pc' = "each"
    /\ UNCHANGED <<streams, outVars, connVars, connCap, pending, permit, passVars,
                   selfq, exit, events, taskVars, wireVars, grantVars>>

\* The snapshot is exhausted, or the connection has no capacity.
BeginWriting ==
    /\ exit = "running" /\ pc = "each"
    /\ todo = {} \/ connCap <= 0
    /\ todo' = {}
    /\ cur' = NoStream
    /\ left' = 0
    /\ pc' = "write"
    /\ UNCHANGED <<streams, outVars, connVars, connCap, pending, permit,
                   notPending, frames, selfq, exit, events, taskVars, wireVars,
                   grantVars>>

\* write_frame of a HEADERS or CONTINUATION frame.
WriteHeaderFrame ==
    LET f == Head(frames)
    IN  /\ exit = "running" /\ pc = "write"
        /\ frames # <<>>
        /\ f.type # "DATA"
        /\ wire' = [wire EXCEPT ![f.sid] = IF f.end THEN "body" ELSE "headers"]
        /\ frames' = Tail(frames)
        /\ UNCHANGED <<streams, outVars, connVars, connCap, pending, permit, pc,
                       cur, left, todo, notPending, selfq, exit, events, taskVars,
                       sent, connSent, rstFrames, grantVars>>

\* write_frame of a DATA frame: both windows shrink, and END_STREAM closes
\* our half of the stream.
WriteDataFrame ==
    LET f == Head(frames)
        s == f.sid
    IN  /\ exit = "running" /\ pc = "write"
        /\ frames # <<>>
        /\ f.type = "DATA"
        /\ IF ~Outgoing(s)
             THEN Ends("panic: DATA without outgoing")
           ELSE IF capacity[s] - f.len < 0
             THEN Ends("panic: stream capacity negative")
           ELSE IF connCap - f.len < 0
             THEN Ends("panic: connection capacity negative")
           ELSE /\ connCap' = connCap - f.len
                /\ IF f.end
                     THEN /\ streams' = [streams EXCEPT ![s] =
                               IF @ = "Open" THEN "HalfClosedLocal" ELSE "Absent"]
                          /\ pending' = pending \ {s}
                          /\ DropOutgoing(s)
                     ELSE /\ capacity' = [capacity EXCEPT ![s] = @ - f.len]
                          /\ UNCHANGED <<streams, pending, headers, headerLen, body,
                                         queued, pieces>>
                /\ wire' = [wire EXCEPT ![s] = IF f.end THEN "ended" ELSE @]
                /\ sent' = [sent EXCEPT ![s] = @ + f.len]
                /\ connSent' = connSent + f.len
                /\ frames' = Tail(frames)
                /\ UNCHANGED <<connVars, permit, pc, cur, left, todo, notPending,
                               selfq, exit, events, taskVars, rstFrames, grantVars>>

\* All frames are written: forget the streams that had nothing to send.
EndPass ==
    /\ exit = "running" /\ pc = "write"
    /\ frames = <<>>
    /\ pending' = pending \ notPending
    /\ notPending' = {}
    /\ pc' = "loop"
    /\ UNCHANGED <<streams, outVars, connVars, connCap, permit, cur, left, todo,
                   frames, selfq, exit, events, taskVars, wireVars, grantVars>>

-----------------------------------------------------------------------------
(* Request handlers: Responder over H2Encoder.  A send waits for room.     *)

\* The handler of s puts an event in the channel.
Sends(s, k, n) ==
    /\ exit = "running"
    /\ Len(events) < EvCap
    /\ events' = Append(events, [sid |-> s, ev |-> k, len |-> n])
    /\ UNCHANGED <<streams, outVars, connVars, connCap, pending, permit, pc,
                   passVars, selfq, exit, wireVars, grantVars>>

\* Mutant: the encoder keeps expecting response headers.
RespondsAgain(s) ==
    /\ enc[s] = "ExpectResponseHeaders"
    /\ Sends(s, "Headers", 0)
    /\ UNCHANGED taskVars

write_response(s) ==
    /\ enc[s] = "ExpectResponseHeaders"
    /\ Sends(s, "Headers", 0)
    /\ enc' = [enc EXCEPT ![s] = "ExpectResponseBody"]
    /\ UNCHANGED <<dropq, handed>>

write_body_chunk(s, n) ==
    /\ enc[s] = "ExpectResponseBody"
    /\ handed[s] + n <= MaxBody
    /\ Sends(s, "BodyChunk", n)
    /\ handed' = [handed EXCEPT ![s] = @ + n]
    /\ UNCHANGED <<enc, dropq>>

\* Mutant: the encoder keeps expecting a body.
EndsAgain(s) ==
    /\ enc[s] = "ExpectResponseBody"
    /\ Sends(s, "BodyEnd", 0)
    /\ UNCHANGED taskVars

write_body_end(s) ==
    /\ enc[s] = "ExpectResponseBody"
    /\ Sends(s, "BodyEnd", 0)
    /\ enc' = [enc EXCEPT ![s] = "ResponseDone"]
    /\ UNCHANGED <<dropq, handed>>

\* The handler returns before the response is over: what is missing of it is
\* left to a task that H2Encoder::drop spawns.  (Dropping an encoder in state
\* ResponseDone does nothing.)
DropEncoder(s) ==
    /\ exit = "running"
    /\ enc[s] \in {"ExpectResponseHeaders", "ExpectResponseBody"}
    /\ enc' = [enc EXCEPT ![s] = "ResponseDone"]
    /\ dropq' = [dropq EXCEPT ![s] =
         LET end == [sid |-> s, ev |-> "BodyEnd", len |-> 0]
         IN  IF enc[s] = "ExpectResponseHeaders"
               THEN << [sid |-> s, ev |-> "Headers", len |-> 0], end >>
               ELSE << end >>]
    /\ UNCHANGED <<streams, outVars, connVars, connCap, pending, permit, pc,
                   passVars, selfq, exit, events, handed, wireVars, grantVars>>

DropTaskSends(s) ==
    /\ dropq[s] # <<>>
    /\ Sends(s, Head(dropq[s]).ev, 0)
    /\ dropq' = [dropq EXCEPT ![s] = Tail(@)]
    /\ UNCHANGED <<enc, handed>>

-----------------------------------------------------------------------------
Client ==
    \/ \E s \in StreamIds, es \in BOOLEAN, b \in Blocks :
          ReceiveHeaders(s, es, b) \/ ReceiveTrailers(s, es, b)
    \/ \E s \in StreamIds, es \in BOOLEAN, c \in {"handed", "refused", "underflow"} :
          ReceiveData(s, es, c)
    \/ \E s \in StreamIds : ReceiveInvalidSize(s) \/ ReceiveRstStream(s)
    \/ \E w \in Windows, f \in FrameSizes : ReceiveSettings(w, f)
    \/ \E n \in Increments : ReceiveConnWindowUpdate(n)
    \/ \E s \in StreamIds, n \in Increments : ReceiveStreamWindowUpdate(s, n)
    \/ ReceiveErroneous("FrameTooLarge")  \* one stands for all: they differ in nothing else
    \/ TransportCloses

HandleEvent == IgnoreEvent \/ HandleHeaders \/ HandleBodyChunk \/ HandleBodyEnd

SendDataMaybe ==
    \/ BeginPass
    \/ \E s \in StreamIds : VisitStream(s)
    \/ QueueHeaderFrame \/ QueueDataFrame \/ LeaveStream
    \/ BeginWriting \/ WriteHeaderFrame \/ WriteDataFrame \/ EndPass

Handler(s) ==
    \/ write_response(s)
    \/ \E n \in ChunkLens : write_body_chunk(s, n)
    \/ write_body_end(s)
    \/ DropEncoder(s)
    \/ DropTaskSends(s)

Next ==
    \/ Client
    \/ RespondStep
    \/ HandleEvent
    \/ SendDataMaybe
    \/ \E s \in StreamIds : Handler(s)

Spec == Init /\ [][Next]_vars

\* The loop runs whenever it can, and so do the tasks H2Encoder::drop spawns;
\* what a handler or the client does is up to them.
Loop == RespondStep \/ HandleEvent \/ SendDataMaybe
FairSpec ==
    /\ Spec
    /\ WF_vars(Loop)
    /\ \A s \in StreamIds : WF_vars(DropTaskSends(s))

-----------------------------------------------------------------------------
(* Properties                                                              *)

\* The wire as the peer sees it: framing order per stream, header blocks in
\* one piece, silence after END_STREAM or a reset, and both flow-control
\* windows respected.
Contract == INSTANCE H2WireContract
                WITH StreamIds <- StreamIds, wire <- wire, sent <- sent,
                     granted <- granted, connSent <- connSent,
                     connGranted <- connGranted
WireContract == Contract!Spec

\* Flow control: a step that writes DATA stays within what the peer has
\* allowed so far, on the stream and on the connection, however SETTINGS and
\* WINDOW_UPDATE frames moved the windows while the data was queued.
FlowControl ==
    [][\A s \in StreamIds : sent'[s] > sent[s] =>
          sent'[s] <= granted'[s] /\ connSent' <= connGranted']_vars

\* The capacities the server keeps are what the peer has granted less what
\* was written, and a stream's capacity is never further below zero than
\* SETTINGS can have taken it.
WindowsAccounted ==
    /\ connCap = connGranted - connSent
    /\ \A s \in StreamIds : Outgoing(s) =>
          /\ capacity[s] = granted[s] - sent[s]
          /\ capacity[s] >= initWindow - MaxWindow

\* A stream beyond last_stream_id was never written to, and the map holds
\* none.
FreshStreams ==
    \A s \in StreamIds : s > lastSid => streams[s] = "Absent" /\ sent[s] = 0

\* The server never serves more streams at once than it announced.
StreamLimit ==
    Cardinality({s \in StreamIds : streams[s] # "Absent"}) <= MaxConcurrent

\* A stream that enters the map is new: its identifier never had a handler
\* and nothing was ever sent on it, however earlier streams ended and whatever
\* refused or malformed requests came in between.
NoStreamReused ==
    [][\A s \in StreamIds : streams[s] = "Absent" /\ streams'[s] # "Absent" =>
          enc[s] = "None" /\ wire[s] = "idle"]_vars

\* While process_frame answers, it has something left to send.
RespondHasWork == pc = "respond" => selfq # <<>>

\* A stream that send_data_maybe could make progress on.
Sendable(s) ==
    /\ Outgoing(s)
    /\ headers[s] # "WaitingForHeaders"
    /\ headers[s] # "WroteAll" \/ queued[s] > 0 \/ body[s] = "DoneReceiving"
    /\ capacity[s] > 0

\* No lost wakeup: whenever the loop is back at its select! and some stream
\* has something to send and the windows to send it, that stream is in
\* streams_with_pending_data and the Notify holds a permit.
NoLostWakeup ==
    exit = "running" /\ pc = "loop" /\ connCap > 0 =>
        \A s \in StreamIds : Sendable(s) => s \in pending /\ permit

\* A response that ended with END_STREAM carried every byte its handler wrote.
BodyComplete ==
    \A s \in StreamIds : wire[s] = "ended" => sent[s] = handed[s]

\* The states handle_event and write_frame declare unreachable are: events of
\* a stream come in the order Headers, BodyChunk*, BodyEnd whoever sends them,
\* and a queued DATA frame's stream still has its outgoing half.
EventsInOrder ==
    exit \notin {"panic: headers too late", "panic: piece after done",
                 "panic: body end twice", "panic: DATA without outgoing"}

\* server.rs:455 - a stream in streams_with_pending_data is in an outgoing
\* state when send_data_maybe visits it.
PendingIsOutgoing == exit # "panic: pending stream is not outgoing"

\* A response whose handler is finished is sent to its end, unless a window
\* is used up, the stream is reset or the connection ends.
ResponseSent ==
    \A s \in StreamIds :
        (Outgoing(s) /\ enc[s] = "ResponseDone")
            ~> (~Outgoing(s) \/ exit # "running" \/ connCap <= 0 \/ capacity[s] <= 0)
=============================================================================
