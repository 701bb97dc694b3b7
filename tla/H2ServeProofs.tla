---------------------------- MODULE H2ServeProofs ----------------------------
(***************************************************************************)
(* The end of an HTTP/2 server connection: what its GOAWAY covers, and     *)
(* that there is one.                                                      *)
(*                                                                         *)
(* The stream a GOAWAY names is ConnState::last_stream_id, which moves     *)
(* when HEADERS arrive, before their block is complete and the request is  *)
(* accepted.  SInv says how the two are related meanwhile, wherever the    *)
(* deframer, the process loop, the handlers and the client are.            *)
(***************************************************************************)
EXTENDS Httpwg, TLAPS

-----------------------------------------------------------------------------
(* The inductive invariant.                                                *)

\* What the client writes, and what the deframer makes of it.
SuiteFrames ==
    UNION {{Suite[t][i].frame : i \in 1 .. Len(Suite[t])} : t \in DOMAIN Suite}
ParsedFrames == {parse(w) : w \in SuiteFrames}

QueuesInv == toServer \in Seq(SuiteFrames) /\ chan \in Seq(ParsedFrames)

\* Where the test is.
TestInv == test \in DOMAIN Suite /\ step \in Nat \ {0}

\* A stream was opened, and a handler started, only up to lastSid.
MapInv ==
    /\ streams \in [StreamIds -> StreamStates]
    /\ enc \in [StreamIds -> EncoderStates]
    /\ lastSid \in Nat /\ opened \in Nat /\ lastSid <= opened
    /\ \A s \in StreamIds : enc[s] # "None" \/ streams[s] # "Absent" => s <= lastSid

\* last_stream_id is ahead of the accepted requests only while the field
\* block of a new stream is being read, or when that ended the connection.
BlockInv ==
    /\ DOMAIN block = {"sid", "es", "skip", "fields"}
    /\ block # NoBlock => block.sid \in StreamIds
    /\ block # NoBlock /\ ~block.skip => block.sid <= opened
    /\ exit = "running" /\ block = NoBlock => opened = lastSid
    /\ exit = "running" /\ block # NoBlock => pc = "loop"
    /\ exit = "running" /\ block # NoBlock /\ block.skip => opened = lastSid
    /\ exit = "running" /\ block # NoBlock /\ ~block.skip =>
          /\ ~SettledAtOnce(block.sid, block.es)
          /\ opened = IF streams[block.sid] = "Absent" THEN block.sid ELSE lastSid

\* How the two tasks of the connection end.
EndInv ==
    /\ exit \in {"running"} \cup Panics \cup Errors
    /\ deframe \in {"reading", "eof"} \cup Errors
    /\ hungUp \in BOOLEAN
    /\ phase = "preface" => exit = "running"
    /\ deframe = "eof" => hungUp
    /\ exit = "Closed" => hungUp \/ deframe # "reading"
    /\ goaway # <<>> => phase = "closed" /\ goaway[1] = opened
    /\ CloseIsAnnounced

SInv == QueuesInv /\ MapInv /\ BlockInv /\ EndInv

-----------------------------------------------------------------------------
(* What a step leaves alone.                                               *)

\* A frame of the client is of a known stream, or of the connection.
LEMMA FrameSids ==
    /\ \A w \in SuiteFrames : w.sid \in StreamIds \cup {0}
    /\ \A f \in ParsedFrames : f.sid \in StreamIds \cup {0}
  <1>1. ASSUME NEW w \in SuiteFrames PROVE w.sid \in StreamIds \cup {0}
    <2>1. PICK t \in DOMAIN Suite : \E i \in 1 .. Len(Suite[t]) : w = Suite[t][i].frame
      BY Zenon DEF SuiteFrames
    <2> QED BY Zenon, <2>1, SuiteAssumption
  <1>2. ASSUME NEW f \in ParsedFrames PROVE f.sid \in StreamIds \cup {0}
    <2>1. PICK w \in SuiteFrames : f = parse(w)
      BY Zenon DEF ParsedFrames
    <2>2. f.sid = w.sid
      BY Zenon, <2>1 DEF parse
    <2> QED BY Zenon, <1>1, <2>2
  <1> QED BY Zenon, <1>1, <1>2

\* A step opens no stream and starts no handler.
OpensNothing ==
    /\ lastSid' = lastSid
    /\ streams' \in [StreamIds -> StreamStates] /\ enc' \in [StreamIds -> EncoderStates]
    /\ \A r \in StreamIds : /\ streams'[r] # "Absent" => streams[r] # "Absent"
                            /\ enc'[r] # "None" => enc[r] # "None"

\* The process loop goes on, or ends with an error of its own.
GoesOn == exit' = exit \/ exit' \in (Panics \cup Errors) \ {"Closed"}

\* The frames between the two tasks only move along.
ChannelMoves == toServer' = toServer /\ (chan' = chan \/ (chan # <<>> /\ chan' = Tail(chan)))

\* The channels keep holding frames of the client.
LEMMA QueuesStep ==
    ASSUME QueuesInv, ChannelMoves
    PROVE  QueuesInv'
  BY DEF QueuesInv, ChannelMoves

\* A step of the process loop before `work` has closed the connection.
LEMMA EndStep ==
    ASSUME EndInv, phase = "serving", GoesOn, UNCHANGED <<phase, deframe, hungUp, goaway>>,
           opened' = opened \/ goaway = <<>>
    PROVE  EndInv'
  <1>1. exit' \in {"running"} \cup Panics \cup Errors /\ (exit' = "Closed" => exit = "Closed")
    BY Zenon DEF EndInv, GoesOn
  <1>2. goaway = <<>>
    BY Zenon DEF EndInv
  <1> QED BY Zenon, <1>1, <1>2 DEF EndInv, CloseIsAnnounced

\* A step of the process loop outside a field block, or one that ends it.
LEMMA LoopStep ==
    ASSUME SInv, phase = "serving", OpensNothing, GoesOn, ChannelMoves,
           UNCHANGED <<phase, deframe, hungUp, goaway, opened, block>>,
           exit = "running", block = NoBlock \/ exit' # "running"
    PROVE  SInv'
  <1>1. QueuesInv' /\ EndInv'
    BY Zenon, QueuesStep, EndStep DEF SInv
  <1>2. MapInv'
    BY Zenon DEF SInv, MapInv, OpensNothing
  <1>3. BlockInv'
    BY Zenon DEF SInv, BlockInv, OpensNothing
  <1> QED BY Zenon, <1>1, <1>2, <1>3 DEF SInv

-----------------------------------------------------------------------------
(* The actions of H2Conn that open no stream.                              *)

\* The map of streams is left alone.
LEMMA SameMap ==
    ASSUME MapInv, UNCHANGED <<streams, enc, lastSid, exit>>
    PROVE  OpensNothing /\ GoesOn
  BY Zenon DEF MapInv, OpensNothing, GoesOn

\* The process loop ends with an error.
LEMMA EndsS ==
    ASSUME MapInv, NEW why \in (Panics \cup Errors) \ {"Closed"}, Ends(why)
    PROVE  OpensNothing /\ GoesOn /\ exit' # "running"
  <1>1. UNCHANGED <<streams, enc, lastSid>> /\ exit' = why
    BY Zenon DEF Ends, connVars, taskVars
  <1>2. why # "running"
    BY Zenon DEF Panics, Errors
  <1> QED BY Zenon, <1>1, <1>2 DEF MapInv, OpensNothing, GoesOn

\* A stream leaves the map.
LEMMA RemovedS ==
    ASSUME MapInv, NEW s, RemoveStream(s), UNCHANGED <<enc, lastSid, exit>>
    PROVE  OpensNothing /\ GoesOn
  BY Zenon DEF MapInv, RemoveStream, OpensNothing, GoesOn, StreamStates

\* The server resets a stream.
LEMMA ResetByServerS ==
    ASSUME MapInv, NEW s, ResetByServer(s)
    PROVE  OpensNothing /\ GoesOn /\ exit' = exit /\ pc' = pc
  <1>1. RemoveStream(s) /\ UNCHANGED <<enc, lastSid, exit, pc>>
    BY Zenon DEF ResetByServer, rst, connVars, taskVars
  <1> QED BY Zenon, <1>1, RemovedS

\* A frame that is an error whatever the state.
LEMMA ErroneousS ==
    ASSUME MapInv, NEW why \in Errors \ {"Closed"}, ReceiveErroneous(why)
    PROVE  OpensNothing /\ GoesOn
  BY Zenon, EndsS DEF ReceiveErroneous

\* DATA.
LEMMA ReceiveDataS ==
    ASSUME MapInv, NEW s, NEW es, NEW chunk, ReceiveData(s, es, chunk)
    PROVE  OpensNothing /\ GoesOn
  <1>1. CASE Ends("StreamClosed") \/ Ends("WindowUnderflow")
    BY Zenon, <1>1, EndsS DEF Errors
  <1>2. CASE ResetByServer(s)
    BY Zenon, <1>2, ResetByServerS
  <1>3. ASSUME streams[s] \in {"Open", "HalfClosedLocal"},
               streams' = [streams EXCEPT ![s] = IF @ = "Open" THEN "HalfClosedRemote" ELSE "Absent"],
               UNCHANGED <<enc, lastSid, exit>>
        PROVE  OpensNothing /\ GoesOn
    BY Zenon, <1>3 DEF MapInv, OpensNothing, GoesOn, StreamStates
  <1> QED BY Zenon, <1>1, <1>2, <1>3 DEF ReceiveData, connVars, taskVars

\* RST_STREAM.
LEMMA ReceiveRstStreamS ==
    ASSUME MapInv, NEW s, ReceiveRstStream(s)
    PROVE  OpensNothing /\ GoesOn
  <1>1. CASE Ends("RstStreamForUnknownStream")
    BY Zenon, <1>1, EndsS DEF Errors
  <1>2. CASE ~Ends("RstStreamForUnknownStream")
    <2>1. RemoveStream(s) /\ UNCHANGED <<enc, lastSid, exit>>
      BY Zenon, <1>2 DEF ReceiveRstStream, connVars, taskVars
    <2> QED BY Zenon, <2>1, RemovedS
  <1> QED BY Zenon, <1>1, <1>2

\* SETTINGS.
LEMMA ReceiveSettingsS ==
    ASSUME MapInv, NEW w, NEW n, ReceiveSettings(w, n)
    PROVE  OpensNothing /\ GoesOn
  <1>1. CASE Ends("StreamWindowSizeOverflowDueToSettings")
    BY Zenon, <1>1, EndsS DEF Errors
  <1>2. CASE ~Ends("StreamWindowSizeOverflowDueToSettings")
    <2>1. UNCHANGED <<streams, enc, lastSid, exit>>
      BY Zenon, <1>2 DEF ReceiveSettings, taskVars
    <2> QED BY Zenon, <2>1, SameMap
  <1> QED BY Zenon, <1>1, <1>2

\* WINDOW_UPDATE.
LEMMA WindowUpdateS ==
    ASSUME MapInv, NEW s, NEW n, ReceiveConnWindowUpdate(n) \/ ReceiveStreamWindowUpdate(s, n)
    PROVE  OpensNothing /\ GoesOn
  <1>1. CASE \/ Ends("WindowUpdateZeroIncrement") \/ Ends("WindowUpdateOverflow")
             \/ Ends("WindowUpdateForUnknownOrClosedStream")
    BY Zenon, <1>1, EndsS DEF Errors
  <1>2. CASE ResetByServer(s)
    BY Zenon, <1>2, ResetByServerS
  <1>3. CASE UNCHANGED <<streams, enc, lastSid, exit>>
    BY Zenon, <1>3, SameMap
  <1>4. ASSUME ReceiveConnWindowUpdate(n) PROVE OpensNothing /\ GoesOn
    BY Zenon, <1>1, <1>3, <1>4 DEF ReceiveConnWindowUpdate, connVars, taskVars
  <1>5. ASSUME ReceiveStreamWindowUpdate(s, n) PROVE OpensNothing /\ GoesOn
    BY Zenon, <1>1, <1>2, <1>3, <1>5 DEF ReceiveStreamWindowUpdate, connVars, taskVars
  <1> QED BY Zenon, <1>4, <1>5

\* handle_event and send_data_maybe: a stream only ever closes.
LEMMA SendsS ==
    ASSUME MapInv, RespondStep \/ HandleEvent \/ SendDataMaybe
    PROVE  OpensNothing /\ GoesOn
  <1>1. CASE \/ Ends("panic: headers too late") \/ Ends("panic: piece after done")
             \/ Ends("panic: body end twice") \/ Ends("panic: pending stream is not outgoing")
             \/ Ends("panic: DATA without outgoing") \/ Ends("panic: stream capacity negative")
             \/ Ends("panic: connection capacity negative")
    <2>1. ASSUME NEW why \in Panics PROVE why \in (Panics \cup Errors) \ {"Closed"}
      BY Zenon DEF Panics
    <2> QED BY Zenon, <1>1, <2>1, EndsS DEF Panics
  <1>2. CASE UNCHANGED <<streams, enc, lastSid, exit>>
    BY Zenon, <1>2, SameMap
  <1>3. ASSUME RespondStep PROVE UNCHANGED <<streams, enc, lastSid, exit>>
    BY Zenon, <1>3 DEF RespondStep, connVars
  <1>4. ASSUME HandleEvent PROVE OpensNothing /\ GoesOn
    <2>1. CASE IgnoreEvent
      BY Zenon, <1>2, <2>1 DEF IgnoreEvent, connVars, taskVars
    <2>2. CASE HandleHeaders
      BY Zenon, <1>1, <1>2, <2>2 DEF HandleHeaders, connVars, taskVars
    <2>3. CASE HandleBodyChunk
      BY Zenon, <1>1, <1>2, <2>3 DEF HandleBodyChunk, connVars, taskVars
    <2>4. CASE HandleBodyEnd
      BY Zenon, <1>1, <1>2, <2>4 DEF HandleBodyEnd, connVars, taskVars
    <2> QED BY Zenon, <1>4, <2>1, <2>2, <2>3, <2>4 DEF HandleEvent
  <1>5. ASSUME NEW s, VisitStream(s) PROVE OpensNothing /\ GoesOn
    BY Zenon, <1>1, <1>2, <1>5 DEF VisitStream, connVars, taskVars
  <1>6. ASSUME WriteDataFrame PROVE OpensNothing /\ GoesOn
    <2>1. \/ UNCHANGED <<streams, enc, lastSid, exit>>
          \/ Ends("panic: DATA without outgoing") \/ Ends("panic: stream capacity negative")
          \/ Ends("panic: connection capacity negative")
          \/ /\ Outgoing(Head(frames).sid) /\ UNCHANGED <<enc, lastSid, exit>>
             /\ streams' = [streams EXCEPT ![Head(frames).sid] =
                              IF @ = "Open" THEN "HalfClosedLocal" ELSE "Absent"]
      BY Zenon, <1>6 DEF WriteDataFrame, connVars, taskVars
    <2>2. ASSUME Outgoing(Head(frames).sid), UNCHANGED <<enc, lastSid, exit>>,
                 streams' = [streams EXCEPT ![Head(frames).sid] =
                               IF @ = "Open" THEN "HalfClosedLocal" ELSE "Absent"]
          PROVE  OpensNothing /\ GoesOn
      BY Zenon, <2>2 DEF MapInv, OpensNothing, GoesOn, StreamStates, Outgoing
    <2> QED BY Zenon, <1>1, <1>2, <2>1, <2>2
  <1>7. ASSUME SendDataMaybe PROVE OpensNothing /\ GoesOn
    <2>1. CASE BeginPass
      BY Zenon, <1>2, <2>1 DEF BeginPass, connVars, taskVars
    <2>2. CASE QueueHeaderFrame \/ QueueDataFrame \/ LeaveStream
      BY Zenon, <1>2, <2>2 DEF QueueHeaderFrame, QueueDataFrame, LeaveStream, connVars, taskVars
    <2>3. CASE BeginWriting \/ WriteHeaderFrame \/ EndPass
      BY Zenon, <1>2, <2>3 DEF BeginWriting, WriteHeaderFrame, EndPass, connVars, taskVars
    <2> QED BY Zenon, <1>5, <1>6, <1>7, <2>1, <2>2, <2>3 DEF SendDataMaybe
  <1> QED BY Zenon, <1>2, <1>3, <1>4, <1>7

\* A handler goes on with its response.
LEMMA HandleS ==
    ASSUME MapInv, NEW s, Handle(s)
    PROVE  OpensNothing /\ UNCHANGED <<streams, lastSid, pc, exit, serveVars>>
  <1>1. UNCHANGED <<streams, lastSid, pc, exit, serveVars>>
    BY Zenon
       DEF Handle, write_response, write_body_chunk, write_body_end, DropEncoder, DropTaskSends,
           Sends, connVars
  <1>2. \/ enc' = enc
        \/ enc[s] # "None" /\ enc' = [enc EXCEPT ![s] = "ExpectResponseBody"]
        \/ enc[s] # "None" /\ enc' = [enc EXCEPT ![s] = "ResponseDone"]
    BY Zenon
       DEF Handle, write_response, write_body_chunk, write_body_end, DropEncoder, DropTaskSends
  <1>3. enc' \in [StreamIds -> EncoderStates] /\ \A r \in StreamIds : enc'[r] # "None" => enc[r] # "None"
    BY Zenon, <1>2 DEF MapInv, EncoderStates
  <1> QED BY Zenon, <1>1, <1>3 DEF OpensNothing, MapInv

-----------------------------------------------------------------------------
(* process_frame                                                           *)

\* A frame that opens no stream.
LEMMA DispatchedS ==
    ASSUME SInv, NEW f, NEW t, Dispatches(f, t), OpensNothing, GoesOn, UNCHANGED <<block, opened>>
    PROVE  SInv'
  <1>1. /\ phase = "serving" /\ exit = "running" /\ block = NoBlock
        /\ UNCHANGED <<phase, deframe, hungUp, goaway>>
    BY Zenon DEF Dispatches, Serving
  <1>2. ChannelMoves
    BY Zenon DEF Dispatches, ChannelMoves
  <1> QED BY Zenon, <1>1, <1>2, LoopStep

\* The state of the connection is left alone.
LEMMA UnchangedS ==
    ASSUME MapInv, UNCHANGED vars
    PROVE  OpensNothing /\ GoesOn
  <1>1. UNCHANGED <<streams, enc, lastSid, exit>>
    BY Zenon DEF vars, connVars, taskVars
  <1> QED BY Zenon, <1>1, SameMap

\* DATA.
LEMMA DataFrameS ==
    ASSUME SInv, NEW f, DataFrame(f)
    PROVE  SInv'
  <1>1. MapInv
    BY Zenon DEF SInv
  <1>2. Dispatches(f, "Data") /\ UNCHANGED <<block, opened>>
    BY Zenon DEF DataFrame
  <1>3. \/ ReceiveErroneous("StreamSpecificFrameToConnection")
        \/ UNCHANGED vars
        \/ \E s, es, fate : ReceiveData(s, es, fate)
    BY Zenon DEF DataFrame
  <1>4. OpensNothing /\ GoesOn
    BY Zenon, <1>1, <1>3, ErroneousS, UnchangedS, ReceiveDataS DEF Errors
  <1> QED BY Zenon, <1>2, <1>4, DispatchedS

\* PRIORITY, PING and GOAWAY.
LEMMA PlainFramesS ==
    ASSUME SInv, NEW f, PriorityFrame(f) \/ PingFrame(f) \/ GoAwayFrame(f)
    PROVE  SInv'
  <1>1. MapInv
    BY Zenon DEF SInv
  <1>2. (\E t : Dispatches(f, t)) /\ UNCHANGED <<block, opened>>
    BY Zenon DEF PriorityFrame, PingFrame, GoAwayFrame
  <1>3. \/ ReceiveErroneous("HeadersInvalidPriority")
        \/ ReceiveErroneous("PingFrameWithNonZeroStreamId")
        \/ ReceiveErroneous("PingFrameInvalidLength")
        \/ ReceiveErroneous("GoAwayWithNonZeroStreamId")
        \/ UNCHANGED vars
        \/ ResetByServer(f.sid)
    BY Zenon DEF PriorityFrame, PingFrame, GoAwayFrame, ReceiveInvalidSize
  <1>4. OpensNothing /\ GoesOn
    BY Zenon, <1>1, <1>3, ErroneousS, UnchangedS, ResetByServerS DEF Errors
  <1> QED BY Zenon, <1>2, <1>4, DispatchedS

\* RST_STREAM.
LEMMA RstStreamFrameS ==
    ASSUME SInv, NEW f, RstStreamFrame(f)
    PROVE  SInv'
  <1>1. MapInv
    BY Zenon DEF SInv
  <1>2. Dispatches(f, "RstStream") /\ UNCHANGED <<block, opened>>
    BY Zenon DEF RstStreamFrame
  <1>3. \/ ReceiveErroneous("RstStreamForUnknownStream")
        \/ ResetByServer(f.sid)
        \/ ReceiveRstStream(f.sid)
    BY Zenon DEF RstStreamFrame, ReceiveInvalidSize
  <1>4. OpensNothing /\ GoesOn
    BY Zenon, <1>1, <1>3, ErroneousS, ResetByServerS, ReceiveRstStreamS DEF Errors
  <1> QED BY Zenon, <1>2, <1>4, DispatchedS

\* The errors of Settings::parse.
LEMMA SettingsErrors ==
    ASSUME NEW settings, NEW pairs
    PROVE  ParseSettings(settings, pairs).error
             \in {"none", "BadSettingValue", "InitialWindowSizeTooLarge"}
  <1>1. \A id, value : SettingsError(id, value)
          \in {"none", "BadSettingValue", "InitialWindowSizeTooLarge"}
    BY Zenon DEF SettingsError
  <1> QED BY Zenon, <1>1 DEF ParseSettings

\* SETTINGS.
LEMMA SettingsFrameS ==
    ASSUME SInv, NEW f, SettingsFrame(f)
    PROVE  SInv'
  <1> DEFINE s == ParseSettings([error |-> "none", window |-> initWindow, frame |-> maxFrame], f.pay)
  <1>0. s.error \in {"none", "BadSettingValue", "InitialWindowSizeTooLarge"}
    BY Zenon, SettingsErrors
  <1>1. MapInv
    BY Zenon DEF SInv
  <1>2. Dispatches(f, "Settings") /\ UNCHANGED <<block, opened>>
    BY Zenon DEF SettingsFrame
  <1>3. \/ ReceiveErroneous("SettingsWithNonZeroStreamId")
        \/ ReceiveErroneous("SettingsInvalidLength")
        \/ UNCHANGED vars
        \/ s.error # "none" /\ ReceiveErroneous(s.error)
        \/ ReceiveSettings(s.window, s.frame)
    BY Zenon DEF SettingsFrame
  <1> HIDE DEF s
  <1>4. OpensNothing /\ GoesOn
    BY Zenon, <1>0, <1>1, <1>3, ErroneousS, UnchangedS, ReceiveSettingsS DEF Errors
  <1> QED BY Zenon, <1>2, <1>4, DispatchedS

\* WINDOW_UPDATE.
LEMMA WindowUpdateFrameS ==
    ASSUME SInv, NEW f, WindowUpdateFrame(f)
    PROVE  SInv'
  <1>1. MapInv
    BY Zenon DEF SInv
  <1>2. Dispatches(f, "WindowUpdate") /\ UNCHANGED <<block, opened>>
    BY Zenon DEF WindowUpdateFrame
  <1>3. \/ ReceiveErroneous("WindowUpdateInvalidLength")
        \/ \E s, n : ReceiveConnWindowUpdate(n) \/ ReceiveStreamWindowUpdate(s, n)
    BY Zenon DEF WindowUpdateFrame
  <1>4. OpensNothing /\ GoesOn
    BY Zenon, <1>1, <1>3, ErroneousS, WindowUpdateS DEF Errors
  <1> QED BY Zenon, <1>2, <1>4, DispatchedS

\* PUSH_PROMISE, CONTINUATION outside a block, and unknown frames.
LEMMA OtherFramesS ==
    ASSUME SInv, NEW f, ForbiddenFrame(f) \/ UnknownIgnored(f)
    PROVE  SInv'
  <1>1. MapInv
    BY Zenon DEF SInv
  <1>2. (\E t : Dispatches(f, t)) /\ UNCHANGED <<block, opened>>
    BY Zenon DEF ForbiddenFrame, UnknownIgnored
  <1>3. \/ ReceiveErroneous("ClientSentPushPromise")
        \/ ReceiveErroneous("UnexpectedContinuationFrame")
        \/ UNCHANGED vars
    BY Zenon DEF ForbiddenFrame, UnknownIgnored
  <1>4. OpensNothing /\ GoesOn
    BY Zenon, <1>1, <1>3, ErroneousS, UnchangedS DEF Errors
  <1> QED BY Zenon, <1>2, <1>4, DispatchedS

-----------------------------------------------------------------------------
(* Field blocks                                                            *)

\* A request that is refused or rejected before its block is read.
LEMMA SettledS ==
    ASSUME MapInv, NEW s \in StreamIds, NEW es, NEW fields, SettledAtOnce(s, es),
           ReadBlock(s, es, fields)
    PROVE  OpensNothing /\ GoesOn /\ (exit' # "running" \/ pc' = pc)
  <1>1. PICK v : ReceiveHeaders(s, es, v) \/ ReceiveTrailers(s, es, v)
    BY Zenon DEF ReadBlock
  <1>2. CASE \/ Ends("ClientSidShouldBeOdd") \/ Ends("ClientSidShouldBeNumericallyIncreasing")
             \/ Ends("StreamClosed")
    BY Zenon, <1>2, EndsS DEF Errors
  <1>3. CASE ResetByServer(s)
    BY Zenon, <1>3, ResetByServerS
  <1>4. ASSUME ReceiveHeaders(s, es, v)
        PROVE  OpensNothing /\ GoesOn /\ (exit' # "running" \/ pc' = pc)
    <2>1. streams[s] = "Absent" /\ lastSid \in Nat /\ s \in Nat
      BY Zenon, <1>4, ConnAssumption DEF ReceiveHeaders, MapInv
    <2>2. s % 2 = 0 \/ s < lastSid \/ s = lastSid \/ TooManyStreams
      BY <2>1 DEF SettledAtOnce, is_server_initiated
    <2>3. \/ Ends("ClientSidShouldBeOdd") \/ Ends("ClientSidShouldBeNumericallyIncreasing")
          \/ Ends("StreamClosed") \/ ResetByServer(s)
      BY Zenon, <1>4, <2>2 DEF ReceiveHeaders
    <2> QED BY Zenon, <1>2, <1>3, <2>3
  <1>5. ASSUME ReceiveTrailers(s, es, v)
        PROVE  OpensNothing /\ GoesOn /\ (exit' # "running" \/ pc' = pc)
    <2>1. streams[s] = "HalfClosedRemote" \/ ~es
      BY Zenon, <1>5 DEF ReceiveTrailers, SettledAtOnce
    <2>2. Ends("StreamClosed") \/ ResetByServer(s)
      BY Zenon, <1>5, <2>1 DEF ReceiveTrailers
    <2> QED BY Zenon, <1>2, <1>3, <2>2
  <1> QED BY Zenon, <1>1, <1>4, <1>5

\* The request of stream s is accepted, answered or rejected: it is now the
\* last one.
OpensStream(s) ==
    /\ lastSid' = s
    /\ streams' \in [StreamIds -> StreamStates] /\ enc' \in [StreamIds -> EncoderStates]
    /\ \A r \in StreamIds \ {s} : streams'[r] = streams[r] /\ enc'[r] = enc[r]

\* A block that is read to its end opens its stream, belongs to an open one,
\* or ends the connection.
LEMMA UnsettledS ==
    ASSUME MapInv, NEW s \in StreamIds, NEW es, NEW fields, ~SettledAtOnce(s, es),
           ReadBlock(s, es, fields)
    PROVE  /\ GoesOn
           /\ \/ OpensNothing /\ (streams[s] # "Absent" \/ exit' # "running")
              \/ OpensStream(s) /\ streams[s] = "Absent"
  <1>1. PICK v : ReceiveHeaders(s, es, v) \/ ReceiveTrailers(s, es, v)
    BY Zenon DEF ReadBlock
  <1>2. ASSUME Ends("HpackDecodingError") \/ Ends("panic: trailers not open")
        PROVE  GoesOn /\ OpensNothing /\ exit' # "running"
    BY Zenon, <1>2, EndsS DEF Errors, Panics
  <1>3. ASSUME ReceiveTrailers(s, es, v) PROVE OpensNothing /\ GoesOn /\ streams[s] # "Absent"
    <2>1. streams[s] # "Absent" /\ streams[s] # "HalfClosedRemote" /\ es
      BY Zenon, <1>3 DEF ReceiveTrailers, SettledAtOnce
    <2>2. \/ Ends("HpackDecodingError") \/ Ends("panic: trailers not open")
          \/ ResetByServer(s)
          \/ /\ streams' = [streams EXCEPT ![s] = "HalfClosedRemote"]
             /\ UNCHANGED <<enc, lastSid, exit>>
      BY Zenon, <1>3, <2>1 DEF ReceiveTrailers, connVars, taskVars
    <2>3. ASSUME streams' = [streams EXCEPT ![s] = "HalfClosedRemote"],
                 UNCHANGED <<enc, lastSid, exit>>
          PROVE  OpensNothing /\ GoesOn
      BY Zenon, <2>1, <2>3 DEF MapInv, OpensNothing, GoesOn, StreamStates
    <2> QED BY Zenon, <1>2, <2>1, <2>2, <2>3, ResetByServerS
  <1>4. ASSUME ReceiveHeaders(s, es, v)
        PROVE  /\ GoesOn /\ streams[s] = "Absent"
               /\ (OpensNothing /\ exit' # "running") \/ OpensStream(s)
    <2>1. streams[s] = "Absent" /\ lastSid \in Nat /\ s \in Nat
      BY Zenon, <1>4, ConnAssumption DEF ReceiveHeaders, MapInv
    <2>2. ~(s % 2 = 0) /\ ~(s < lastSid) /\ s # lastSid /\ ~TooManyStreams
      BY <2>1 DEF SettledAtOnce, is_server_initiated
    <2>3. \/ AcceptRequest(s, es)
          \/ Ends("HpackDecodingError")
          \/ rst(s) /\ RecordSid(s) /\ UNCHANGED <<exit, taskVars>>
          \/ \E n \in ChunkLens : RespondWithStatus(s, n)
      BY Zenon, <1>4, <2>2 DEF ReceiveHeaders
    <2>4. ASSUME AcceptRequest(s, es) PROVE OpensStream(s) /\ GoesOn
      BY Zenon, <2>4
         DEF AcceptRequest, RecordSid, OpensStream, GoesOn, MapInv, StreamStates, EncoderStates
    <2>5. ASSUME rst(s), RecordSid(s), UNCHANGED <<exit, taskVars>> PROVE OpensStream(s) /\ GoesOn
      BY Zenon, <2>5
         DEF rst, RemoveStream, RecordSid, OpensStream, GoesOn, MapInv, StreamStates, taskVars
    <2>6. ASSUME NEW n \in ChunkLens, RespondWithStatus(s, n) PROVE OpensStream(s) /\ GoesOn
      BY Zenon, <2>6
         DEF RespondWithStatus, RecordSid, OpensStream, GoesOn, MapInv, StreamStates, taskVars
    <2> QED BY Zenon, <1>2, <2>1, <2>3, <2>4, <2>5, <2>6
  <1> QED BY Zenon, <1>1, <1>3, <1>4

\* What a field block read to its end does to the map, with last_stream_id
\* already moved.
LEMMA BlockReadS ==
    ASSUME MapInv, NEW s \in StreamIds, NEW es, NEW fields, ~SettledAtOnce(s, es),
           ReadBlock(s, es, fields), exit = "running",
           opened' = IF streams[s] = "Absent" THEN s ELSE lastSid
    PROVE  MapInv' /\ GoesOn /\ (exit' = "running" => opened' = lastSid')
  <1>1. lastSid \in Nat /\ s \in Nat /\ opened' \in Nat
    BY Zenon, ConnAssumption DEF MapInv
  <1>2. streams[s] = "Absent" => lastSid < s
    BY <1>1 DEF SettledAtOnce
  <1>3. /\ GoesOn
        /\ \/ OpensNothing /\ (streams[s] # "Absent" \/ exit' # "running")
           \/ OpensStream(s) /\ streams[s] = "Absent"
    BY Zenon, UnsettledS
  <1>4. ASSUME OpensNothing, streams[s] # "Absent" \/ exit' # "running"
        PROVE  MapInv' /\ (exit' = "running" => opened' = lastSid')
    BY <1>1, <1>2, <1>4 DEF MapInv, OpensNothing
  <1>5. ASSUME OpensStream(s), streams[s] = "Absent"
        PROVE  MapInv' /\ (exit' = "running" => opened' = lastSid')
    <2>1. lastSid' = s /\ opened' = s /\ lastSid < s
      BY Zenon, <1>2, <1>5 DEF OpensStream
    <2>2. ASSUME NEW r \in StreamIds, enc'[r] # "None" \/ streams'[r] # "Absent"
          PROVE  r <= lastSid'
      <3>1. CASE r = s
        BY <1>1, <2>1, <3>1
      <3>2. CASE r # s
        <4>1. r <= lastSid /\ r \in Nat
          BY Zenon, <1>5, <2>2, <3>2, ConnAssumption DEF OpensStream, MapInv
        <4> QED BY <1>1, <2>1, <4>1
      <3> QED BY Zenon, <3>1, <3>2
    <2> QED BY <1>1, <1>5, <2>1, <2>2 DEF MapInv, OpensStream
  <1> QED BY Zenon, <1>3, <1>4, <1>5

\* The field block of a request is begun, and perhaps all there.
LEMMA BlockBegunS ==
    ASSUME MapInv, BlockInv, block = NoBlock, exit = "running", pc = "loop",
           NEW s \in StreamIds, NEW es, NEW fields, NEW done \in BOOLEAN,
           IF SettledAtOnce(s, es) \/ done THEN ReadBlock(s, es, fields) ELSE UNCHANGED vars,
           block' = IF done THEN NoBlock
                    ELSE [sid |-> s, es |-> es, skip |-> SettledAtOnce(s, es), fields |-> fields],
           RecordsStream(s, es)
    PROVE  MapInv' /\ BlockInv' /\ GoesOn
  <1>1. opened = lastSid /\ lastSid \in Nat /\ s \in Nat /\ s # 0
    BY Zenon, ConnAssumption DEF BlockInv, MapInv
  <1>2. CASE SettledAtOnce(s, es)
    <2>1. OpensNothing /\ GoesOn /\ (exit' # "running" \/ pc' = pc)
      BY Zenon, <1>2, SettledS
    <2>2. opened' = opened
      BY Zenon, <1>2 DEF RecordsStream
    <2>3. MapInv'
      BY Zenon, <1>1, <2>1, <2>2 DEF MapInv, OpensNothing
    <2>4. opened' = lastSid'
      BY Zenon, <1>1, <2>1, <2>2 DEF OpensNothing
    <2>5. /\ DOMAIN block' = {"sid", "es", "skip", "fields"}
          /\ block' # NoBlock => block'.sid = s /\ block'.skip
      BY Zenon, <1>2 DEF NoBlock
    <2>6. BlockInv'
      BY Zenon, <2>1, <2>4, <2>5 DEF BlockInv
    <2> QED BY Zenon, <2>1, <2>3, <2>6
  <1>3. CASE ~SettledAtOnce(s, es)
    <2>1. opened' = IF streams[s] = "Absent" THEN s ELSE lastSid
      BY Zenon, <1>1, <1>3 DEF RecordsStream
    <2>2. CASE done
      <3>1. MapInv' /\ GoesOn /\ (exit' = "running" => opened' = lastSid')
        BY Zenon, <1>3, <2>1, <2>2, BlockReadS
      <3>2. block' = NoBlock
        BY Zenon, <2>2
      <3> QED BY Zenon, <3>1, <3>2 DEF BlockInv, NoBlock
    <2>3. CASE ~done
      <3>1. /\ UNCHANGED <<streams, enc, lastSid, exit, pc>>
            /\ (SettledAtOnce(s, es))' <=> SettledAtOnce(s, es)
        <4>1. UNCHANGED vars
          BY Zenon, <1>3, <2>3
        <4>2. UNCHANGED <<streams, enc, lastSid, exit, pc>>
          BY Zenon, <4>1 DEF vars, connVars, taskVars
        <4> QED BY Zenon, <4>2 DEF SettledAtOnce, TooManyStreams
      <3>2. streams[s] = "Absent" => lastSid < s
        BY <1>1, <1>3 DEF SettledAtOnce
      <3>3. streams[s] # "Absent" => s <= lastSid
        BY Zenon DEF MapInv
      <3>4. lastSid <= opened' /\ opened' \in Nat /\ s <= opened'
        BY <1>1, <2>1, <3>2, <3>3
      <3>5. MapInv' /\ GoesOn
        BY Zenon, <3>1, <3>4 DEF MapInv, GoesOn
      <3>6. /\ block' # NoBlock /\ block'.sid = s /\ block'.es = es /\ ~block'.skip
            /\ DOMAIN block' = {"sid", "es", "skip", "fields"}
        BY Zenon, <1>1, <1>3, <2>3 DEF NoBlock
      <3>7. BlockInv'
        BY Zenon, <1>3, <2>1, <3>1, <3>4, <3>6 DEF BlockInv
      <3> QED BY Zenon, <3>5, <3>7
    <2> QED BY Zenon, <2>2, <2>3
  <1> QED BY Zenon, <1>2, <1>3

\* HEADERS.
LEMMA HeadersFrameS ==
    ASSUME SInv, NEW f \in ParsedFrames, HeadersFrame(f)
    PROVE  SInv'
  <1>1. /\ Dispatches(f, "Headers") /\ MapInv /\ QueuesInv /\ BlockInv /\ EndInv
        /\ phase = "serving" /\ exit = "running" /\ pc = "loop" /\ block = NoBlock
        /\ UNCHANGED <<phase, deframe, hungUp, goaway>> /\ ChannelMoves
    BY Zenon DEF HeadersFrame, Dispatches, Serving, SInv, ChannelMoves
  <1>2. CASE /\ \/ ReceiveErroneous("HeadersInvalidPriority")
                \/ ReceiveErroneous("ClientSidShouldBeOdd")
             /\ UNCHANGED <<block, opened>>
    <2>1. OpensNothing /\ GoesOn
      BY Zenon, <1>1, <1>2, ErroneousS DEF Errors
    <2> QED BY Zenon, <1>1, <1>2, <2>1, DispatchedS
  <1>3. ASSUME ~(/\ \/ ReceiveErroneous("HeadersInvalidPriority")
                    \/ ReceiveErroneous("ClientSidShouldBeOdd")
                 /\ UNCHANGED <<block, opened>>)
        PROVE  SInv'
    <2> DEFINE s == f.sid
               es == is_end_stream(f)
               done == is_end_headers(f)
    <2>1. /\ s # 0
          /\ IF SettledAtOnce(s, es) \/ done THEN ReadBlock(s, es, f.pay)
             ELSE UNCHANGED <<vars, toClient, incoming>>
          /\ block' = IF done THEN NoBlock
                      ELSE [sid |-> s, es |-> es, skip |-> SettledAtOnce(s, es), fields |-> f.pay]
          /\ RecordsStream(s, es)
      BY Zenon, <1>3 DEF HeadersFrame
    <2>2. s \in StreamIds /\ done \in BOOLEAN
      BY Zenon, <2>1, FrameSids DEF is_end_headers
    <2> HIDE DEF s, es, done
    <2>3. IF SettledAtOnce(s, es) \/ done THEN ReadBlock(s, es, f.pay) ELSE UNCHANGED vars
      BY Zenon, <2>1
    <2>4. MapInv' /\ BlockInv' /\ GoesOn
      BY Zenon, <1>1, <2>1, <2>2, <2>3, BlockBegunS
    <2>5. goaway = <<>>
      BY Zenon, <1>1 DEF EndInv
    <2>6. QueuesInv' /\ EndInv'
      BY Zenon, <1>1, <2>4, <2>5, QueuesStep, EndStep
    <2> QED BY Zenon, <2>4, <2>6 DEF SInv
  <1> QED BY Zenon, <1>2, <1>3

\* CONTINUATION, or whatever comes instead of it.
LEMMA ContinuationFrameS ==
    ASSUME SInv, ContinuationFrame
    PROVE  SInv'
  <1>1. /\ MapInv /\ QueuesInv /\ BlockInv /\ EndInv
        /\ phase = "serving" /\ exit = "running" /\ pc = "loop" /\ block # NoBlock
        /\ UNCHANGED <<phase, deframe, hungUp, opened, goaway>> /\ ChannelMoves
    BY Zenon DEF ContinuationFrame, Serving, SInv, ChannelMoves
  <1>2. PICK s \in StreamIds : s = block.sid
    BY Zenon, <1>1 DEF BlockInv
  <1>3. CASE /\ Ends("ExpectedContinuationForStream") \/ Ends("ExpectedContinuationFrame")
             /\ UNCHANGED block
    <2>1. OpensNothing /\ GoesOn /\ exit' # "running"
      BY Zenon, <1>1, <1>3, EndsS DEF Errors
    <2> QED BY Zenon, <1>1, <1>3, <2>1, LoopStep
  <1>4. ASSUME GoesOn, MapInv', BlockInv' PROVE SInv'
    BY Zenon, <1>1, <1>4, QueuesStep, EndStep DEF SInv
  <1>5. CASE block' = [block EXCEPT !.fields = @ \o Head(chan).pay] /\ UNCHANGED vars
    <2>1. UNCHANGED <<streams, enc, lastSid, exit, pc>>
      BY Zenon, <1>5 DEF vars, connVars, taskVars
    <2>2. MapInv' /\ GoesOn
      BY Zenon, <1>1, <2>1 DEF MapInv, GoesOn
    <2>3. /\ DOMAIN block' = DOMAIN block
          /\ block'.sid = block.sid /\ block'.es = block.es /\ block'.skip = block.skip
      BY Zenon, <1>1, <1>5 DEF BlockInv
    <2>4. block' # NoBlock
      BY <1>2, <2>3, ConnAssumption DEF NoBlock
    <2>5. (SettledAtOnce(block.sid, block.es))' <=> SettledAtOnce(block.sid, block.es)
      BY Zenon, <2>1, <2>3 DEF SettledAtOnce, TooManyStreams
    <2>6. BlockInv'
      BY Zenon, <1>1, <2>1, <2>3, <2>4, <2>5 DEF BlockInv
    <2> QED BY Zenon, <1>4, <2>2, <2>6
  <1>6. CASE block.skip /\ UNCHANGED vars /\ block' = NoBlock
    <2>1. UNCHANGED <<streams, enc, lastSid, exit, pc>>
      BY Zenon, <1>6 DEF vars, connVars, taskVars
    <2>2. MapInv' /\ GoesOn
      BY Zenon, <1>1, <2>1 DEF MapInv, GoesOn
    <2>3. BlockInv'
      BY Zenon, <1>1, <1>6, <2>1 DEF BlockInv, NoBlock
    <2> QED BY Zenon, <1>4, <2>2, <2>3
  <1>7. CASE ~block.skip /\ ReadBlock(block.sid, block.es, block.fields \o Head(chan).pay)
             /\ block' = NoBlock
    <2>1. MapInv' /\ GoesOn /\ (exit' = "running" => opened' = lastSid')
      BY Zenon, <1>1, <1>2, <1>7, BlockReadS DEF BlockInv
    <2>2. BlockInv'
      BY Zenon, <1>7, <2>1 DEF BlockInv, NoBlock
    <2> QED BY Zenon, <1>4, <2>1, <2>2
  <1> QED BY Zenon, <1>3, <1>5, <1>6, <1>7 DEF ContinuationFrame

\* Every frame the process loop takes off the channel.
LEMMA ProcessFrameS ==
    ASSUME SInv, process_frame
    PROVE  SInv'
  <1>1. ASSUME chan # <<>> PROVE Head(chan) \in ParsedFrames
    BY <1>1 DEF SInv, QueuesInv
  <1> QED
      BY Zenon, <1>1, DataFrameS, HeadersFrameS, PlainFramesS, RstStreamFrameS, SettingsFrameS,
          WindowUpdateFrameS, OtherFramesS, ContinuationFrameS DEF process_frame

-----------------------------------------------------------------------------
(* The tasks of the connection                                             *)

\* A step that leaves the map, the block and the process loop alone.
LEMMA QuietS ==
    ASSUME SInv, UNCHANGED <<streams, enc, lastSid, opened, exit, pc, block>>
    PROVE  MapInv' /\ BlockInv'
  <1>1. MapInv'
    BY Zenon DEF SInv, MapInv
  <1>2. (SettledAtOnce(block.sid, block.es))' <=> SettledAtOnce(block.sid, block.es)
    BY Zenon DEF SettledAtOnce, TooManyStreams
  <1>3. BlockInv'
    BY Zenon, <1>2 DEF SInv, BlockInv
  <1> QED BY Zenon, <1>1, <1>3

\* deframe_loop
LEMMA DeframerS ==
    ASSUME SInv, Deframer
    PROVE  SInv'
  <1>1. /\ UNCHANGED <<streams, enc, lastSid, opened, exit, pc, block, phase, hungUp, goaway>>
        /\ phase = "serving" /\ exit = "running" /\ deframe = "reading"
    BY Zenon DEF Deframer, ReadFrame, ReadEof, Serving, vars, connVars, taskVars
  <1>2. MapInv' /\ BlockInv'
    BY Zenon, <1>1, QuietS
  <1>3. CASE ReadFrame
    <2> DEFINE f == parse(Head(toServer))
    <2>1. /\ toServer # <<>> /\ toServer' = Tail(toServer)
          /\ \/ deframe' = DeframeError(f) /\ DeframeError(f) # "none" /\ chan' = chan
             \/ deframe' = deframe /\ chan' = Append(chan, f)
      BY Zenon, <1>3 DEF ReadFrame
    <2>2. f \in ParsedFrames
      BY <2>1 DEF SInv, QueuesInv, ParsedFrames
    <2>3. DeframeError(f) # "none" => DeframeError(f) \in Errors
      BY Zenon DEF DeframeError, Errors
    <2> HIDE DEF f
    <2>4. QueuesInv'
      BY <2>1, <2>2 DEF SInv, QueuesInv
    <2>5. deframe' \in {"reading"} \cup Errors
      BY Zenon, <1>1, <2>1, <2>3
    <2>6. deframe' # "eof"
      BY Zenon, <2>5 DEF Errors
    <2>7. EndInv'
      BY Zenon, <1>1, <2>5, <2>6 DEF SInv, EndInv, CloseIsAnnounced
    <2> QED BY Zenon, <1>2, <2>4, <2>7 DEF SInv
  <1>4. CASE ReadEof
    <2>1. hungUp /\ deframe' = "eof" /\ UNCHANGED <<toServer, chan>>
      BY Zenon, <1>4 DEF ReadEof
    <2>2. QueuesInv'
      BY Zenon, <2>1 DEF SInv, QueuesInv
    <2>3. EndInv'
      BY Zenon, <1>1, <2>1 DEF SInv, EndInv, CloseIsAnnounced
    <2> QED BY Zenon, <1>2, <2>2, <2>3 DEF SInv
  <1> QED BY Zenon, <1>3, <1>4 DEF Deframer

\* The process loop ends because there is nothing left to read or no one to
\* write to.
LEMMA LoopEndsS ==
    ASSUME SInv, ProcessDrained \/ WriteFails
    PROVE  SInv'
  <1>1. /\ phase = "serving" /\ exit = "running"
        /\ UNCHANGED <<toServer, chan, phase, deframe, hungUp, goaway, opened, block>>
    BY Zenon DEF ProcessDrained, WriteFails, Serving, serveVars
  <1>2. \/ Ends("ExpectedContinuationFrame")
        \/ Ends("Closed") /\ (hungUp \/ deframe # "reading")
    BY Zenon DEF ProcessDrained, WriteFails, TransportCloses
  <1>3. CASE Ends("ExpectedContinuationFrame")
    <2>1. OpensNothing /\ GoesOn /\ exit' # "running"
      BY Zenon, <1>3, EndsS DEF SInv, Errors
    <2>2. ChannelMoves
      BY Zenon, <1>1 DEF ChannelMoves
    <2> QED BY Zenon, <1>1, <2>1, <2>2, LoopStep
  <1>4. CASE Ends("Closed") /\ (hungUp \/ deframe # "reading")
    <2>1. UNCHANGED <<streams, enc, lastSid, pc>> /\ exit' = "Closed"
      BY Zenon, <1>4 DEF Ends, connVars, taskVars
    <2>2. QueuesInv' /\ MapInv' /\ BlockInv'
      BY Zenon, <1>1, <2>1 DEF SInv, QueuesInv, MapInv, BlockInv
    <2>3. EndInv'
      BY <1>1, <1>4, <2>1 DEF SInv, EndInv, CloseIsAnnounced, Errors
    <2> QED BY Zenon, <2>2, <2>3 DEF SInv
  <1> QED BY Zenon, <1>2, <1>3, <1>4

\* Events, send_data_maybe, and the answers of process_frame itself.
LEMMA SendingS ==
    ASSUME SInv, ProcessEvent \/ SendData \/ Respond
    PROVE  SInv'
  <1>1. /\ phase = "serving" /\ exit = "running"
        /\ UNCHANGED <<toServer, chan, phase, deframe, hungUp, goaway, opened, block>>
    BY Zenon DEF ProcessEvent, SendData, Respond, NoFrameReady, Serving, serveVars
  <1>2. OpensNothing /\ GoesOn
    BY Zenon, SendsS DEF SInv, ProcessEvent, SendData, Respond
  <1>3. pc # "loop" \/ block = NoBlock
    BY Zenon DEF ProcessEvent, SendData, Respond, RespondStep, NoFrameReady
  <1>4. block = NoBlock
    BY Zenon, <1>1, <1>3 DEF SInv, BlockInv
  <1>5. ChannelMoves
    BY Zenon, <1>1 DEF ChannelMoves
  <1> QED BY Zenon, <1>1, <1>2, <1>4, <1>5, LoopStep

\* A handler goes on.
LEMMA HandlerS ==
    ASSUME SInv, NEW s, Handle(s)
    PROVE  SInv'
  <1>1. OpensNothing /\ UNCHANGED <<streams, lastSid, pc, exit, serveVars>>
    BY Zenon, HandleS DEF SInv
  <1>2. UNCHANGED <<toServer, chan, phase, deframe, hungUp, goaway, opened, block>>
    BY Zenon, <1>1 DEF serveVars
  <1>3. MapInv'
    BY Zenon, <1>1, <1>2 DEF SInv, MapInv, OpensNothing
  <1>4. (SettledAtOnce(block.sid, block.es))' <=> SettledAtOnce(block.sid, block.es)
    BY Zenon, <1>1, <1>2 DEF SettledAtOnce, TooManyStreams
  <1>5. BlockInv'
    BY Zenon, <1>1, <1>2, <1>4 DEF SInv, BlockInv
  <1>6. QueuesInv' /\ EndInv'
    BY Zenon, <1>1, <1>2 DEF SInv, QueuesInv, EndInv, CloseIsAnnounced
  <1> QED BY Zenon, <1>3, <1>5, <1>6 DEF SInv

\* `work`: the preface, and the GOAWAY at the end.
LEMMA WorkS ==
    ASSUME SInv, Work
    PROVE  SInv'
  <1>1. UNCHANGED <<streams, enc, lastSid, opened, exit, pc, block, deframe, hungUp, chan>>
    BY Zenon DEF Work, ReadPreface, Close, vars, connVars, taskVars
  <1>2. MapInv' /\ BlockInv'
    BY Zenon, <1>1, QuietS
  <1>3. CASE ReadPreface
    <2>1. /\ phase = "preface" /\ phase' \in {"serving", "closed"} /\ goaway' = goaway
          /\ toServer' = toServer \/ (toServer # <<>> /\ toServer' = Tail(toServer))
      BY Zenon, <1>3 DEF ReadPreface
    <2>2. QueuesInv'
      BY <1>1, <2>1 DEF SInv, QueuesInv
    <2>3. EndInv'
      BY Zenon, <1>1, <2>1 DEF SInv, EndInv, CloseIsAnnounced
    <2> QED BY Zenon, <1>2, <2>2, <2>3 DEF SInv
  <1>4. CASE Close
    <2>1. /\ phase = "serving" /\ exit # "running" /\ phase' = "closed" /\ toServer' = toServer
          /\ IF GoAwayError = "none" \/ hungUp THEN goaway' = goaway
             ELSE goaway' = <<opened, repr(ConnErrorCode(GoAwayError))>>
      BY Zenon, <1>4 DEF Close
    <2>2. QueuesInv'
      BY Zenon, <1>1, <2>1 DEF SInv, QueuesInv
    <2>3. goaway = <<>> /\ exit \in Panics \cup Errors
      BY Zenon, <2>1 DEF SInv, EndInv
    <2>4. goaway' # <<>> => goaway'[1] = opened'
      BY <1>1, <2>1, <2>3
    <2>5. ASSUME ~hungUp, goaway' = <<>>, exit \notin Panics
          PROVE  deframe \in Errors /\ exit \in Errors \ {"Closed"}
      <3>1. GoAwayError = "none"
        BY Zenon, <2>1, <2>5
      <3>2. ASSUME NEW e \in Errors PROVE e # "none" /\ e # "reading"
        BY Zenon DEF Errors
      <3> QED BY Zenon, <2>3, <2>5, <3>1, <3>2 DEF GoAwayError, SInv, EndInv
    <2>6. EndInv'
      BY Zenon, <1>1, <2>1, <2>4, <2>5 DEF SInv, EndInv, CloseIsAnnounced
    <2> QED BY Zenon, <1>2, <2>2, <2>6 DEF SInv
  <1> QED BY Zenon, <1>3, <1>4 DEF Work

\* The client writes, reads and hangs up.
LEMMA RunTestS ==
    ASSUME SInv, TestInv, RunTest
    PROVE  SInv' /\ TestInv'
  <1>1. /\ UNCHANGED <<streams, enc, lastSid, opened, exit, pc, block, deframe, phase, chan, goaway>>
        /\ hungUp' \in BOOLEAN /\ (hungUp => hungUp')
    BY Zenon
       DEF RunTest, SendFrame, ReceiveFrame, ReceiveEof, HangUp, allVars, serveVars, vars,
           connVars,
           taskVars, SInv, EndInv
  <1>2. MapInv' /\ BlockInv'
    BY Zenon, <1>1, QuietS
  <1>3. TestInv'
    BY DEF TestInv, RunTest, SendFrame, ReceiveFrame, ReceiveEof, HangUp
  <1>4. toServer' \in Seq(SuiteFrames)
    <2>1. CASE SendFrame
      <3>1. test \in DOMAIN Suite /\ step \in 1 .. Len(Suite[test])
        BY <2>1, SuiteAssumption DEF TestInv, SendFrame, Running, Script
      <3>2. Suite[test][step].frame \in SuiteFrames
        BY <3>1 DEF SuiteFrames
      <3>3. toServer' = toServer \/ toServer' = Append(toServer, Suite[test][step].frame)
        BY Zenon, <2>1 DEF SendFrame, Script
      <3> QED BY <3>2, <3>3 DEF SInv, QueuesInv
    <2>2. CASE ~SendFrame
      BY Zenon, <2>2
         DEF RunTest, ReceiveFrame, ReceiveEof, HangUp, allVars, serveVars, SInv, QueuesInv
    <2> QED BY Zenon, <2>1, <2>2
  <1>5. QueuesInv' /\ EndInv'
    BY Zenon, <1>1, <1>4 DEF SInv, QueuesInv, EndInv, CloseIsAnnounced
  <1> QED BY Zenon, <1>2, <1>3, <1>5 DEF SInv

-----------------------------------------------------------------------------
(* The invariant holds.                                                    *)

\* A new connection.
LEMMA InitS == TestInit => SInv /\ TestInv
  <1> SUFFICES ASSUME TestInit PROVE SInv /\ TestInv
    BY Zenon
  <1>1. TestInv
    BY DEF TestInit, TestInv
  <1>2. /\ streams = [s \in StreamIds |-> "Absent"] /\ enc = [s \in StreamIds |-> "None"]
        /\ lastSid = 0 /\ opened = 0 /\ block = NoBlock /\ exit = "running"
        /\ toServer = <<>> /\ chan = <<>> /\ hungUp = FALSE /\ phase = "preface"
        /\ deframe = "reading" /\ goaway = <<>>
    BY Zenon DEF TestInit, ServeInit, Init
  <1>3. QueuesInv
    BY <1>2 DEF QueuesInv
  <1>4. MapInv
    BY <1>2 DEF MapInv, StreamStates, EncoderStates
  <1>5. EndInv
    BY Zenon, <1>2 DEF EndInv, CloseIsAnnounced
  <1>6. BlockInv
    BY Zenon, <1>2 DEF BlockInv, NoBlock
  <1> QED BY Zenon, <1>1, <1>3, <1>4, <1>5, <1>6 DEF SInv

\* Every step of the server and of its client.
LEMMA NextS ==
    ASSUME SInv, TestInv, [TestNext]_<<allVars, testVars>>
    PROVE  SInv' /\ TestInv'
  <1>1. CASE RunTest
    BY Zenon, <1>1, RunTestS
  <1>2. CASE Serves
    <2>1. TestInv'
      BY Zenon, <1>2 DEF Serves, testVars, TestInv
    <2>2. Server
      BY Zenon, <1>2 DEF Serves
    <2>3. SInv'
      BY Zenon, <2>2, DeframerS, ProcessFrameS, LoopEndsS, SendingS, WorkS, HandlerS
         DEF Server, ProcessLoop
    <2> QED BY Zenon, <2>1, <2>3
  <1>3. CASE UNCHANGED <<allVars, testVars>>
    <2>1. UNCHANGED <<streams, enc, lastSid, opened, exit, pc, block, deframe, phase, chan, goaway,
                      hungUp, toServer, test, step>>
      BY Zenon, <1>3 DEF allVars, testVars, serveVars, vars, connVars, taskVars
    <2>2. MapInv' /\ BlockInv'
      BY Zenon, <2>1, QuietS
    <2>3. QueuesInv' /\ EndInv' /\ TestInv'
      BY Zenon, <2>1 DEF SInv, QueuesInv, EndInv, CloseIsAnnounced, TestInv
    <2> QED BY Zenon, <2>2, <2>3 DEF SInv
  <1> QED BY Zenon, <1>1, <1>2, <1>3 DEF TestNext

\* A GOAWAY covers the work that was done: wherever the two tasks of the
\* connection, the handlers and the client are when it ends, every stream a
\* handler was started for, and the one whose field block was being read, is
\* at or below the stream it names.
THEOREM GoAwayCovers == TestSpec => []GoAwayCoversWork
  <1>1. TestInit => SInv /\ TestInv
    BY Zenon, InitS
  <1>2. SInv /\ TestInv /\ [TestNext]_<<allVars, testVars>> => SInv' /\ TestInv'
    BY Zenon, NextS
  <1>3. SInv => GoAwayCoversWork
    <2> SUFFICES ASSUME SInv, goaway # <<>>
                 PROVE  /\ \A s \in StreamIds :
                             enc[s] # "None" \/ streams[s] # "Absent" => s <= goaway[1]
                        /\ block # NoBlock /\ ~block.skip => block.sid <= goaway[1]
      BY Zenon DEF GoAwayCoversWork
    <2>1. goaway[1] = opened /\ lastSid <= opened /\ lastSid \in Nat /\ opened \in Nat
      BY Zenon DEF SInv, EndInv, MapInv
    <2>2. ASSUME NEW s \in StreamIds, enc[s] # "None" \/ streams[s] # "Absent" PROVE s <= goaway[1]
      <3>1. s <= lastSid /\ s \in Nat
        BY Zenon, <2>2, ConnAssumption DEF SInv, MapInv
      <3> QED BY <2>1, <3>1
    <2>3. block # NoBlock /\ ~block.skip => block.sid <= goaway[1]
      BY Zenon, <2>1 DEF SInv, BlockInv
    <2> QED BY Zenon, <2>2, <2>3
  <1> HIDE DEF SInv, TestInv
  <1> QED BY <1>1, <1>2, <1>3, PTL DEF TestSpec

\* A connection is not closed on a peer that is still there without a GOAWAY,
\* but for the cases CloseIsAnnounced lists, whatever ended the deframer and
\* the process loop, and in whichever order.
THEOREM ClosesAreAnnounced == TestSpec => []CloseIsAnnounced
  <1>1. TestInit => SInv /\ TestInv
    BY Zenon, InitS
  <1>2. SInv /\ TestInv /\ [TestNext]_<<allVars, testVars>> => SInv' /\ TestInv'
    BY Zenon, NextS
  <1>3. SInv => CloseIsAnnounced
    BY Zenon DEF SInv, EndInv
  <1> HIDE DEF SInv, TestInv, CloseIsAnnounced
  <1> QED BY <1>1, <1>2, <1>3, PTL DEF TestSpec
=============================================================================
