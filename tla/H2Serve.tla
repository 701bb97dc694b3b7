------------------------------ MODULE H2Serve ------------------------------
(***************************************************************************)
(* A whole HTTP/2 server connection (loona/src/h2/server.rs): the frames   *)
(* that arrive are deframed, dispatched by process_frame to the actions    *)
(* of H2Conn, and answered on the wire; `work` runs the deframer and the   *)
(* process loop side by side and turns the error that ends either into a   *)
(* GOAWAY frame.  Requests are served by TestDriver (loona/tests/httpwg.rs), *)
(* which reads the whole body before it answers.                           *)
(*                                                                         *)
(* The peer is a module that extends this one: it appends to toServer,     *)
(* takes from toClient and hangs up.  The transport neither loses nor      *)
(* reorders frames; what is written to a peer that hung up is lost.        *)
(***************************************************************************)
EXTENDS H2Conn, H2Frame, H2Request

CONSTANTS
    FrameChan,   \* capacity of the channel from deframe_loop to process_loop
    BodyLen      \* length of the body TestDriver answers with

ASSUME ServeAssumption ==
    /\ FrameChan \in Nat \ {0}
    /\ BodyLen \in ChunkLens /\ BodyLen > 0 /\ BodyLen <= MaxBody
    /\ MAX_INITIAL_WINDOW_SIZE = MaxWindow
    /\ DefaultFrame \in MAX_FRAME_SIZE_ALLOWED_RANGE

VARIABLES
    toServer,   \* written by the peer, not yet read by the deframer
    toClient,   \* written by the server, not yet read by the peer
    hungUp,     \* the peer dropped its end
    phase,      \* of `work`: "preface", "serving", "closed"
    deframe,    \* deframe_loop: "reading", "eof", or the error it ended with
    chan,       \* the frame channel
    block,      \* the field block read_headers is collecting, or NoBlock
    opened,     \* ConnState::last_stream_id
    incoming,   \* StreamIncoming: announced and received body length
    failed,     \* streams whose handler was told of a reset
    goaway      \* the GOAWAY written: <<>>, or <<last stream, error code>>

serveVars == <<toServer, toClient, hungUp, phase, deframe, chan, block, opened,
               incoming, failed, goaway>>
allVars == <<vars, serveVars>>

NoBlock == [sid |-> 0, es |-> FALSE, skip |-> FALSE, fields |-> <<>>]

\* The client connection preface, and octets that are not it.
Preface == UnknownFrame(-1, {}, 0, 0)
NotPreface == UnknownFrame(-2, {}, 0, 0)

ServeInit ==
    /\ Init
    /\ toServer = <<>> /\ toClient = <<>> /\ hungUp = FALSE
    /\ phase = "preface" /\ deframe = "reading" /\ chan = <<>>
    /\ block = NoBlock /\ opened = 0
    /\ incoming = [s \in StreamIds |-> [length |-> NoLength, received |-> 0]]
    /\ failed = {} /\ goaway = <<>>

\* H2ConnectionError::as_known_error_code
ConnErrorCode(e) ==
    CASE e \in {"FrameTooLarge", "PaddedFrameEmpty", "PingFrameInvalidLength",
                "SettingsInvalidLength", "WindowUpdateInvalidLength"} -> "FrameSizeError"
      [] e \in {"WindowUpdateOverflow", "WindowUnderflow",
                "StreamWindowSizeOverflowDueToSettings",
                "InitialWindowSizeTooLarge"} -> "FlowControlError"
      [] e = "HpackDecodingError" -> "CompressionError"
      [] e = "StreamClosed" -> "StreamClosed"
      [] OTHER -> "ProtocolError"

\* H2StreamError::as_known_error_code
StreamErrorCode(e) ==
    CASE e \in {"StreamClosed", "RefusedStream"} -> e
      [] e \in {"InvalidPriorityFrameSize", "InvalidRstStreamFrameSize"} -> "FrameSizeError"
      [] e = "WindowUpdateOverflow" -> "FlowControlError"
      [] OTHER -> "ProtocolError"

\* Frames written to the transport.
Writes(fs) == toClient' = IF hungUp THEN toClient ELSE toClient \o fs

\* rst, as the peer sees it: H2StreamError e, or none.
RstFrames(s, e) ==
    IF e = "none" THEN <<>>
    ELSE [i \in 1 .. RstRepeat |->
            Frame("RstStream", {}, s, 4, <<repr(StreamErrorCode(e))>>)]

-----------------------------------------------------------------------------
(* deframe_loop                                                            *)

PayloadLen(f) == IF Padded \in f.flags THEN f.len - 1 - f.pad ELSE f.len

DeframeError(f) ==
    IF f.len > DefaultFrame THEN "FrameTooLarge"
    ELSE IF Padded \in f.flags /\ f.len = 0 THEN "PaddedFrameEmpty"
    ELSE IF Padded \in f.flags /\ PayloadLen(f) < 0 THEN "PaddedFrameTooShort"
    ELSE "none"

Serving == phase = "serving" /\ exit = "running"

\* One more frame: it is checked, and handed over when there is room.
ReadFrame ==
    LET f == parse(Head(toServer))
    IN  /\ Serving /\ deframe = "reading"
        /\ toServer # <<>>
        /\ IF DeframeError(f) # "none"
             THEN deframe' = DeframeError(f) /\ UNCHANGED chan
             ELSE /\ Len(chan) < FrameChan
                  /\ chan' = Append(chan, f)
                  /\ UNCHANGED deframe
        /\ toServer' = Tail(toServer)
        /\ UNCHANGED <<vars, toClient, hungUp, phase, block, opened, incoming, failed, goaway>>

\* "Peer hung up"
ReadEof ==
    /\ Serving /\ deframe = "reading"
    /\ toServer = <<>> /\ hungUp
    /\ deframe' = "eof"
    /\ UNCHANGED <<vars, toServer, toClient, hungUp, phase, chan, block, opened,
                   incoming, failed, goaway>>

Deframer == ReadFrame \/ ReadEof

-----------------------------------------------------------------------------
(* process_frame                                                           *)

\* The loop takes frame f of type t off the channel, not within a field block.
Dispatches(f, t) ==
    /\ Serving /\ pc = "loop"
    /\ chan # <<>> /\ f = Head(chan)
    /\ block = NoBlock
    /\ f.type = t
    /\ chan' = Tail(chan)
    /\ UNCHANGED <<toServer, hungUp, phase, deframe, goaway>>

\* What StreamIncoming makes of n more bytes of a request body.
ChunkFate(s, n, es) ==
    LET total == incoming[s].received + n
        length == incoming[s].length
    IN  IF total > DefaultWindow THEN "underflow"
        ELSE IF length # NoLength /\ (total > length \/ (es /\ total # length)) THEN "refused"
        ELSE "handed"

DataFrame(f) ==
    LET s == f.sid
        es == is_end_stream(f)
        fate == ChunkFate(s, PayloadLen(f), es)
        open == streams[s] \in {"Open", "HalfClosedLocal"}
    IN  /\ Dispatches(f, "Data")
        /\ IF s = 0
             THEN /\ ReceiveErroneous("StreamSpecificFrameToConnection")
                  /\ UNCHANGED <<toClient, incoming>>
           ELSE IF open /\ fate = "handed"
             THEN /\ IF es THEN ReceiveData(s, es, fate) ELSE UNCHANGED vars
                  /\ incoming' = [incoming EXCEPT ![s].received = @ + PayloadLen(f)]
                  /\ UNCHANGED toClient
             ELSE /\ ReceiveData(s, es, fate)
                  /\ Writes(RstFrames(s,
                       CASE streams[s] = "HalfClosedRemote" -> "StreamClosed"
                         [] open /\ fate = "refused" -> "DataLengthDoesNotMatchContentLength"
                         [] OTHER -> "none"))
                  /\ UNCHANGED incoming
        /\ UNCHANGED <<block, opened, failed>>

\* HEADERS is settled before its block is read: the stream is refused, the
\* trailers do not end the stream, or the connection ends.
SettledAtOnce(s, es) ==
    IF streams[s] = "Absent"
      THEN is_server_initiated(s) \/ s <= lastSid \/ TooManyStreams
      ELSE ~es \/ streams[s] = "HalfClosedRemote"

\* Why process_frame resets a stream whose HEADERS it is looking at.
HeadersRst(s, es, verdict) ==
    IF streams[s] = "Absent"
      THEN IF is_server_initiated(s) \/ s <= lastSid THEN "none"
           ELSE IF TooManyStreams THEN "RefusedStream"
           ELSE IF verdict = "malformed" THEN "BadRequest" ELSE "none"
      ELSE IF streams[s] = "HalfClosedRemote" THEN "none"
           ELSE IF ~es THEN "TrailersNotEndStream"
           ELSE IF verdict = "malformed" THEN "BadRequest" ELSE "none"

\* Trailers also fail when the body is shorter than announced.
Verdict(s, fields) ==
    LET trailers == streams[s] # "Absent"
        verdict == BlockVerdict(fields, trailers)
    IN  IF /\ trailers /\ verdict = "fine"
           /\ incoming[s].length \notin {NoLength, incoming[s].received}
          THEN "malformed" ELSE verdict

\* The end of read_headers: the request is accepted, answered or rejected.
ReadBlock(s, es, fields) ==
    LET verdict == Verdict(s, fields)
    IN  /\ ReceiveHeaders(s, es, verdict) \/ ReceiveTrailers(s, es, verdict)
        /\ Writes(RstFrames(s, HeadersRst(s, es, verdict)))
        /\ incoming' = IF streams[s] = "Absent" /\ verdict = "fine"
                         THEN [incoming EXCEPT ![s].length = ContentLength(fields, es)]
                         ELSE incoming

\* Mutant: last_stream_id is only recorded once the request is accepted.
RecordedLate(s, es) == opened' = lastSid'

\* last_stream_id moves as soon as the stream is not refused.
RecordsStream(s, es) ==
    opened' = IF streams[s] = "Absent" /\ ~SettledAtOnce(s, es) THEN s ELSE opened

HeadersFrame(f) ==
    LET s == f.sid
        es == is_end_stream(f)
    IN  /\ Dispatches(f, "Headers")
        /\ IF PriorityFlag \in f.flags /\ f.dep = s
             THEN /\ ReceiveErroneous("HeadersInvalidPriority")
                  /\ UNCHANGED <<toClient, incoming, block, opened>>
           ELSE IF s = 0
             THEN /\ ReceiveErroneous("ClientSidShouldBeOdd")
                  /\ UNCHANGED <<toClient, incoming, block, opened>>
             ELSE /\ IF SettledAtOnce(s, es) \/ is_end_headers(f)
                       THEN ReadBlock(s, es, f.pay)
                       ELSE UNCHANGED <<vars, toClient, incoming>>
                  /\ block' = IF is_end_headers(f) THEN NoBlock
                              ELSE [sid |-> s, es |-> es, skip |-> SettledAtOnce(s, es),
                                    fields |-> f.pay]
                  /\ RecordsStream(s, es)
        /\ UNCHANGED failed

\* Mutant: any CONTINUATION frame goes on with the block.
BlockGoesOn(f) == f.type # "Continuation"

\* Within a block, what a frame is an error for.
ContinuationError(f) == f.sid # block.sid \/ f.type # "Continuation"

\* read_headers waits for the rest of the block: only frames are looked at.
ContinuationFrame ==
    LET f == Head(chan)
    IN  /\ Serving /\ pc = "loop"
        /\ block # NoBlock /\ chan # <<>>
        /\ chan' = Tail(chan)
        /\ IF ContinuationError(f)
             THEN /\ Ends(IF f.sid # block.sid THEN "ExpectedContinuationForStream"
                                               ELSE "ExpectedContinuationFrame")
                  /\ UNCHANGED <<block, incoming, toClient>>
           ELSE IF ~is_end_headers(f)
             THEN /\ block' = [block EXCEPT !.fields = @ \o f.pay]
                  /\ UNCHANGED <<vars, incoming, toClient>>
             ELSE /\ IF block.skip THEN UNCHANGED <<vars, incoming, toClient>>
                     ELSE ReadBlock(block.sid, block.es, block.fields \o f.pay)
                  /\ block' = NoBlock
        /\ UNCHANGED <<toServer, hungUp, phase, deframe, opened, failed, goaway>>

\* PRIORITY only has to have the right size and not depend on itself.
PriorityFrame(f) ==
    /\ Dispatches(f, "Priority")
    /\ IF f.len < 5
         THEN /\ ReceiveInvalidSize(f.sid)
              /\ Writes(RstFrames(f.sid, "InvalidPriorityFrameSize"))
       ELSE IF f.dep = f.sid
         THEN ReceiveErroneous("HeadersInvalidPriority") /\ UNCHANGED toClient
         ELSE UNCHANGED <<vars, toClient>>
    /\ UNCHANGED <<block, opened, incoming, failed>>

\* A request that was still being received fails; one that was complete goes
\* on, and its response is ignored.
RstStreamFrame(f) ==
    LET s == f.sid
    IN  /\ Dispatches(f, "RstStream")
        /\ IF f.len # 4
             THEN /\ ReceiveInvalidSize(s)
                  /\ Writes(RstFrames(s, "InvalidRstStreamFrameSize"))
                  /\ UNCHANGED failed
           ELSE IF s = 0
             THEN ReceiveErroneous("RstStreamForUnknownStream") /\ UNCHANGED <<toClient, failed>>
             ELSE /\ ReceiveRstStream(s)
                  /\ failed' = IF streams[s] \in {"Open", "HalfClosedLocal"}
                                 THEN failed \cup {s} ELSE failed
                  /\ UNCHANGED toClient
        /\ UNCHANGED <<block, opened, incoming>>

SettingsFrame(f) ==
    LET s == ParseSettings([error |-> "none", window |-> initWindow, frame |-> maxFrame],
                           f.pay)
    IN  /\ Dispatches(f, "Settings")
        /\ IF f.sid # 0
             THEN ReceiveErroneous("SettingsWithNonZeroStreamId") /\ UNCHANGED toClient
           ELSE IF f.len % 6 # 0 \/ (is_ack(f) /\ f.len # 0)
             THEN ReceiveErroneous("SettingsInvalidLength") /\ UNCHANGED toClient
           ELSE IF is_ack(f)
             THEN UNCHANGED <<vars, toClient>>
           ELSE IF s.error # "none"
             THEN ReceiveErroneous(s.error) /\ UNCHANGED toClient
             ELSE /\ ReceiveSettings(s.window, s.frame)
                  /\ Writes(IF exit' = "running"
                              THEN <<Frame("Settings", {Ack}, 0, 0, <<>>)>> ELSE <<>>)
        /\ UNCHANGED <<block, opened, incoming, failed>>

PingFrame(f) ==
    /\ Dispatches(f, "Ping")
    /\ IF f.sid # 0
         THEN ReceiveErroneous("PingFrameWithNonZeroStreamId") /\ UNCHANGED toClient
       ELSE IF f.len # 8
         THEN ReceiveErroneous("PingFrameInvalidLength") /\ UNCHANGED toClient
         ELSE /\ Writes(IF is_ack(f) THEN <<>> ELSE <<Frame("Ping", {Ack}, 0, 8, f.pay)>>)
              /\ UNCHANGED vars
    /\ UNCHANGED <<block, opened, incoming, failed>>

\* Only the stream of a GOAWAY matters: the flag it sets is not read.
GoAwayFrame(f) ==
    /\ Dispatches(f, "GoAway")
    /\ IF f.sid # 0 THEN ReceiveErroneous("GoAwayWithNonZeroStreamId") ELSE UNCHANGED vars
    /\ UNCHANGED <<toClient, block, opened, incoming, failed>>

WindowUpdateFrame(f) ==
    LET s == f.sid
        n == f.pay[1]
    IN  /\ Dispatches(f, "WindowUpdate")
        /\ IF f.len # 4
             THEN ReceiveErroneous("WindowUpdateInvalidLength") /\ UNCHANGED toClient
           ELSE IF s = 0
             THEN ReceiveConnWindowUpdate(n) /\ UNCHANGED toClient
             ELSE /\ ReceiveStreamWindowUpdate(s, n)
                  /\ Writes(RstFrames(s,
                       IF n > 0 /\ Outgoing(s) /\ capacity[s] + n > MaxWindow
                         THEN "WindowUpdateOverflow" ELSE "none"))
        /\ UNCHANGED <<block, opened, incoming, failed>>

\* Frames a client may not send here.
ForbiddenFrame(f) ==
    /\ \/ Dispatches(f, "PushPromise") /\ ReceiveErroneous("ClientSentPushPromise")
       \/ Dispatches(f, "Continuation") /\ ReceiveErroneous("UnexpectedContinuationFrame")
    /\ UNCHANGED <<toClient, block, opened, incoming, failed>>

UnknownIgnored(f) ==
    /\ Dispatches(f, "Unknown")
    /\ UNCHANGED <<vars, toClient, block, opened, incoming, failed>>

process_frame ==
    \/ /\ chan # <<>>
       /\ LET f == Head(chan)
          IN  \/ DataFrame(f) \/ HeadersFrame(f) \/ PriorityFrame(f) \/ RstStreamFrame(f)
              \/ SettingsFrame(f) \/ PingFrame(f) \/ GoAwayFrame(f)
              \/ WindowUpdateFrame(f) \/ ForbiddenFrame(f) \/ UnknownIgnored(f)
    \/ ContinuationFrame

-----------------------------------------------------------------------------
(* process_loop and work                                                   *)

\* Mutant: read_headers goes on waiting when the deframer is gone.
DrainedBetweenBlocks ==
    /\ Serving /\ pc = "loop"
    /\ deframe # "reading" /\ chan = <<>> /\ block = NoBlock
    /\ Ends("Closed")
    /\ UNCHANGED serveVars

\* The deframer is gone and its frames are used up: the loop breaks, unless
\* it was in the middle of a field block.
ProcessDrained ==
    /\ Serving /\ pc = "loop"
    /\ deframe # "reading" /\ chan = <<>>
    /\ Ends(IF block = NoBlock THEN "Closed" ELSE "ExpectedContinuationFrame")
    /\ UNCHANGED serveVars

\* Once the peer is gone, writing fails: a frame of send_data_maybe, or what
\* process_frame answers.
WriteFails ==
    /\ Serving /\ hungUp
    /\ \/ pc = "write" /\ frames # <<>>
       \/ pc = "loop" /\ chan # <<>>
    /\ TransportCloses
    /\ UNCHANGED serveVars

\* biased: events and send_data_maybe only when there is no frame to process.
NoFrameReady == Serving /\ chan = <<>> /\ deframe = "reading" /\ block = NoBlock

ProcessEvent ==
    /\ NoFrameReady
    /\ HandleEvent
    /\ UNCHANGED serveVars

\* The status of the response of s: the server's own answer is an error.
Status(s) == IF enc[s] = "None" THEN "error" ELSE "200"

\* send_data_maybe; the frames it writes reach the peer.
SendData ==
    /\ Serving
    /\ SendDataMaybe
    /\ pc = "loop" => NoFrameReady
    /\ LET f == Head(frames)
       IN  Writes(
             IF pc # "write" \/ frames = <<>> \/ exit' # "running" THEN <<>>
             ELSE IF f.type = "DATA"
               THEN <<Frame("Data", IF f.end THEN {EndStream} ELSE {}, f.sid, f.len, <<>>)>>
             ELSE <<Frame(IF f.type = "HEADERS" THEN "Headers" ELSE "Continuation",
                          IF f.end THEN {EndHeaders} ELSE {}, f.sid, f.len,
                          <<Field(":status", Status(f.sid))>>)>>)
    /\ UNCHANGED <<toServer, hungUp, phase, deframe, chan, block, opened, incoming,
                   failed, goaway>>

\* process_frame goes on with the answer it gives itself.
Respond ==
    /\ Serving
    /\ RespondStep
    /\ UNCHANGED serveVars

ProcessLoop ==
    process_frame \/ ProcessDrained \/ WriteFails \/ ProcessEvent \/ SendData \/ Respond

\* The preface is read and our SETTINGS are sent; without a preface the
\* connection is dropped.
ReadPreface ==
    /\ phase = "preface"
    /\ \/ /\ toServer # <<>>
          /\ toServer' = Tail(toServer)
          /\ IF Head(toServer).ty = Preface.ty
               THEN /\ phase' = "serving"
                    /\ Writes(<<Frame("Settings", {}, 0, 36,
                         << <<Setting.EnablePush, 0>>,
                            <<Setting.InitialWindowSize, DefaultWindow>>,
                            <<Setting.MaxConcurrentStreams, MaxConcurrent>>,
                            <<Setting.MaxFrameSize, DefaultFrame>> >>)>>)
               ELSE phase' = "closed" /\ UNCHANGED toClient
       \/ /\ toServer = <<>> /\ hungUp
          /\ phase' = "closed"
          /\ UNCHANGED <<toServer, toClient>>
    /\ UNCHANGED <<vars, hungUp, deframe, chan, block, opened, incoming, failed, goaway>>

\* Mutant: an error of the deframer is forgotten once the process loop ends.
ProcessErrorOnly ==
    IF deframe = "reading" /\ exit \in Errors \ {"Closed"} THEN exit ELSE "none"

\* goaway_err: the error of whichever task ended first.  When the deframer
\* was first, an error of the process loop ends `work` without a GOAWAY.
GoAwayError ==
    IF deframe = "reading" /\ exit \in Errors \ {"Closed"} THEN exit
    ELSE IF deframe \in Errors /\ exit = "Closed" THEN deframe
    ELSE "none"

\* The rest of `work`, once the process loop has ended.
Close ==
    /\ phase = "serving" /\ exit # "running"
    /\ phase' = "closed"
    /\ IF GoAwayError = "none" \/ hungUp THEN UNCHANGED <<goaway, toClient>>
       ELSE /\ goaway' = <<opened, repr(ConnErrorCode(GoAwayError))>>
            /\ Writes(<<Frame("GoAway", {}, 0, 8, goaway')>>)
    /\ UNCHANGED <<vars, toServer, hungUp, deframe, chan, block, opened, incoming, failed>>

Work == ReadPreface \/ Close

-----------------------------------------------------------------------------
(* TestDriver::handle                                                      *)

\* The body is over when the stream no longer has an incoming half; only then
\* does the driver answer.  A reset fails the handler, and dropping its
\* encoder answers for it.
Handle(s) ==
    /\ \/ /\ s \notin failed
          /\ streams[s] \notin {"Open", "HalfClosedLocal"}
          /\ \/ write_response(s)
             \/ handed[s] = 0 /\ write_body_chunk(s, BodyLen)
             \/ handed[s] > 0 /\ write_body_end(s)
       \/ s \in failed /\ DropEncoder(s)
       \/ DropTaskSends(s)
    /\ UNCHANGED serveVars

Server == Deframer \/ ProcessLoop \/ Work \/ \E s \in StreamIds : Handle(s)

-----------------------------------------------------------------------------
(* Properties                                                              *)

\* A GOAWAY tells the peer which requests are safe to repeat elsewhere: every
\* stream a handler was started for is at or below the identifier it names,
\* and so is the one whose field block was being read.
GoAwayCoversWork ==
    goaway # <<>> =>
        /\ \A s \in StreamIds : enc[s] # "None" \/ streams[s] # "Absent" => s <= goaway[1]
        /\ block # NoBlock /\ ~block.skip => block.sid <= goaway[1]

\* The server does not close a connection on a peer that is still there
\* without a GOAWAY, except before the preface, by a panic, or when the
\* deframer and then the process loop both failed.
CloseIsAnnounced ==
    phase = "closed" /\ ~hungUp /\ goaway = <<>> =>
        \/ exit = "running"
        \/ exit \in Panics
        \/ deframe \in Errors /\ exit \in Errors \ {"Closed"}

\* Once the peer has hung up, the connection ends: no task of it waits for
\* ever, whatever frames and events were still on their way.
ConnectionEnds == hungUp ~> phase = "closed"
=============================================================================
