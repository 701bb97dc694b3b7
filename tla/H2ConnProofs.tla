---------------------------- MODULE H2ConnProofs ----------------------------
(***************************************************************************)
(* An HTTP/2 server connection: its windows, and the order of what it      *)
(* sends, for every choice of the constants.                               *)
(*                                                                         *)
(* The first part is about the state of the connection.  TypeOK is not     *)
(* inductive by itself: `left` is a natural number only because a stream's *)
(* capacity never falls below -MaxWindow, which WindowsAccounted says; and *)
(* that in turn needs that a stream identifier is never accepted twice     *)
(* (FreshStreams).  Together they are IInv.                                *)
(*                                                                         *)
(* The second part is about what is on its way: handlers hand over events, *)
(* the loop makes frames of them and writes the frames, while requests     *)
(* arrive and streams are reset.  OInv says, for each stream, which events *)
(* the channel can still hold, which frames are queued, how far the        *)
(* response is on the wire, and that the bytes handed over are those in    *)
(* the channel, queued and sent.  It gives EventsInOrder, BodyComplete,    *)
(* NoStreamReused and the refinement of H2WireContract.                    *)
(*                                                                         *)
(* The bytes in a queue are a sum over its elements.  It is defined by the *)
(* existence of its prefix sums, so that what an element adds or takes     *)
(* away is shown without induction on the queue.                           *)
(***************************************************************************)
EXTENDS H2Conn, TLAPS

-----------------------------------------------------------------------------
(* The state of the connection.                                            *)

IInv == TypeOK /\ WindowsAccounted /\ FreshStreams /\ RespondHasWork

USE DEF TypeOK, IInv

\* ConnType without the Boolean permit, which is shown apart: the solver that
\* does the arithmetic of the windows does not know Boolean-valued variables.
CapacityType ==
    /\ lastSid \in Nat
    /\ initWindow \in 0 .. MaxWindow
    /\ maxFrame \in Nat \ {0}
    /\ connCap \in 0 .. MaxWindow
    /\ pending \subseteq StreamIds

\* The two parts of ConnType, before and after a step.
LEMMA ConnTypeParts ==
    /\ ConnType <=> CapacityType /\ permit \in BOOLEAN
    /\ ConnType' <=> CapacityType' /\ permit' \in BOOLEAN
  BY Zenon DEF ConnType, CapacityType

\* The smaller of two lengths can be taken from both.
LEMMA MinParts ==
    ASSUME NEW a \in Nat, NEW b \in Nat
    PROVE  Min(a, b) \in Nat /\ a - Min(a, b) \in Nat /\ b - Min(a, b) \in Nat
  BY DEF Min

\* Taking the first element off a queue.
LEMMA HeadAndTail ==
    ASSUME NEW S, NEW q \in Seq(S), q # <<>>
    PROVE  Head(q) \in S /\ Tail(q) \in Seq(S)
  OBVIOUS

\* The initial state satisfies the inductive invariant.
LEMMA InitIInv == Init => IInv
  <1> SUFFICES ASSUME Init PROVE IInv
    BY Zenon
  <1> USE ConnAssumption DEF Init
  <1>1. StreamsType
    BY DEF StreamsType, StreamStates
  <1>2. ConnType
    BY Zenon DEF ConnType
  <1>3. LoopType
    BY DEF LoopType, NoStream
  <1>4. TaskType
    BY DEF TaskType, EncoderStates
  <1>5. WireType
    BY DEF WireType
  <1>6. WindowsAccounted
    BY DEF WindowsAccounted, Outgoing
  <1>7. FreshStreams /\ RespondHasWork
    BY Zenon DEF FreshStreams, RespondHasWork
  <1>8. QED
    BY Zenon, <1>1, <1>2, <1>3, <1>4, <1>5, <1>6, <1>7

\* A step that ends the loop keeps the invariant: it changes nothing else.
LEMMA EndsIInv ==
    ASSUME IInv, NEW why \in Panics \cup Errors, Ends(why)
    PROVE  IInv'
  <1> USE DEF Ends, outVars, connVars, passVars, taskVars, wireVars, grantVars
  <1>1. StreamsType' /\ ConnType' /\ TaskType' /\ WireType'
    BY Zenon DEF StreamsType, ConnType, TaskType, WireType
  <1>2. LoopType'
    BY Zenon DEF LoopType
  <1>3. WindowsAccounted'
    BY Zenon DEF WindowsAccounted, Outgoing
  <1>4. FreshStreams' /\ RespondHasWork'
    BY Zenon DEF FreshStreams, RespondHasWork
  <1>5. QED
    BY Zenon, <1>1, <1>2, <1>3, <1>4

\* A stream that leaves the map takes nothing out of balance.
LEMMA ResetByServerIInv ==
    ASSUME IInv, NEW s \in StreamIds, ResetByServer(s)
    PROVE  IInv'
  <1> USE ConnAssumption DEF ResetByServer, rst, connVars, passVars, taskVars, grantVars
  <1>1. StreamsType'
    BY DEF StreamsType, StreamStates, RemoveStream, DropOutgoing, SetOutgoing
  <1>2. ConnType' /\ LoopType' /\ TaskType'
    BY Zenon DEF ConnType, LoopType, TaskType
  <1>3. WireType'
    BY Zenon DEF WireType, WireReset
  <1>4. WindowsAccounted'
    BY Zenon
       DEF StreamsType, ConnType, WindowsAccounted, Outgoing, RemoveStream, DropOutgoing,
           SetOutgoing
  <1>5. FreshStreams' /\ RespondHasWork'
    BY Zenon DEF StreamsType, FreshStreams, RespondHasWork, RemoveStream
  <1>6. QED
    BY Zenon, <1>1, <1>2, <1>3, <1>4, <1>5

\* A stream is stored under an identifier beyond last_stream_id.
LEMMA StoreStreamIInv ==
    ASSUME IInv, NEW s \in StreamIds, s > lastSid,
           NEW st \in {"Open", "HalfClosedRemote"},
           streams' = [streams EXCEPT ![s] = st],
           mk_stream_outgoing(s),
           granted' = [granted EXCEPT ![s] = initWindow],
           lastSid' = s,
           UNCHANGED <<initWindow, maxFrame, connCap, pending, permit>>,
           UNCHANGED <<sent, connSent, connGranted>>
    PROVE  StreamsType' /\ ConnType' /\ WindowsAccounted' /\ FreshStreams'
  <1> USE ConnAssumption DEF mk_stream_outgoing, SetOutgoing
  <1>1. StreamsType'
    BY DEF StreamsType, StreamStates, ConnType
  <1>2. ConnType'
    BY Zenon DEF ConnType
  <1>3. WindowsAccounted'
    BY DEF WindowsAccounted, FreshStreams, StreamsType, ConnType, WireType, Outgoing
  <1>4. FreshStreams'
    BY DEF FreshStreams, StreamsType, ConnType
  <1>5. QED
    BY Zenon, <1>1, <1>2, <1>3, <1>4

\* read_headers accepts a request: a fresh stream starts with a full window.
LEMMA AcceptRequestIInv ==
    ASSUME IInv, NEW s \in StreamIds, NEW es \in BOOLEAN, s > lastSid,
           AcceptRequest(s, es)
    PROVE  IInv'
  <1> USE DEF AcceptRequest, RecordSid, passVars, wireVars
  <1>1. StreamsType' /\ ConnType' /\ WindowsAccounted' /\ FreshStreams'
    BY Zenon, StoreStreamIInv
  <1>2. LoopType' /\ RespondHasWork'
    BY Zenon DEF LoopType, RespondHasWork
  <1>3. TaskType'
    BY Zenon DEF TaskType, EncoderStates
  <1>4. WireType'
    BY DEF WireType, ConnType
  <1>5. QED
    BY Zenon, <1>1, <1>2, <1>3, <1>4

\* process_frame stores the stream it is going to answer itself.
LEMMA RespondWithStatusIInv ==
    ASSUME IInv, NEW s \in StreamIds, NEW n \in ChunkLens, s > lastSid,
           RespondWithStatus(s, n)
    PROVE  IInv'
  <1> USE DEF RespondWithStatus, RecordSid, passVars, taskVars, wireVars
  <1>1. StreamsType' /\ ConnType' /\ WindowsAccounted' /\ FreshStreams'
    BY Zenon, StoreStreamIInv
  <1>2. LoopType' /\ RespondHasWork'
    BY ConnAssumption DEF LoopType, RespondHasWork, Events
  <1>3. TaskType'
    BY Zenon DEF TaskType
  <1>4. WireType'
    BY DEF WireType, ConnType
  <1>5. QED
    BY Zenon, <1>1, <1>2, <1>3, <1>4

\* HEADERS for a stream that is not in the map, whatever becomes of it.
LEMMA ReceiveHeadersIInv ==
    ASSUME IInv, NEW s \in StreamIds, NEW es \in BOOLEAN, NEW b \in Blocks,
           ReceiveHeaders(s, es, b)
    PROVE  IInv'
  <1> USE DEF ReceiveHeaders, RecordSid
  <1>1. CASE \/ Ends("ClientSidShouldBeOdd")
             \/ Ends("ClientSidShouldBeNumericallyIncreasing")
             \/ Ends("StreamClosed")
             \/ Ends("HpackDecodingError")
    BY Zenon, <1>1, EndsIInv DEF Errors
  <1>2. CASE ResetByServer(s)
    BY Zenon, <1>2, ResetByServerIInv
  <1>3. CASE ~(s < lastSid) /\ s # lastSid /\ AcceptRequest(s, es)
    BY <1>3, AcceptRequestIInv, ConnAssumption DEF ConnType
  <1>4. CASE ~(s < lastSid) /\ s # lastSid /\ \E n \in ChunkLens : RespondWithStatus(s, n)
    BY <1>4, RespondWithStatusIInv, ConnAssumption DEF ConnType
  <1>5. CASE /\ ~(s < lastSid) /\ s # lastSid
             /\ rst(s)
             /\ lastSid' = s
             /\ UNCHANGED <<initWindow, maxFrame, connCap, pending, permit, pc,
                            passVars, selfq, exit, events, taskVars, grantVars>>
    <2> USE <1>5, ConnAssumption DEF rst, passVars, taskVars, grantVars
    <2>1. StreamsType'
      BY DEF StreamsType, StreamStates, RemoveStream, DropOutgoing, SetOutgoing
    <2>2. ConnType' /\ LoopType' /\ TaskType'
      BY Zenon DEF ConnType, LoopType, TaskType
    <2>3. WireType'
      BY Zenon DEF WireType, WireReset
    <2>4. WindowsAccounted'
      BY Zenon DEF StreamsType, ConnType, WindowsAccounted, Outgoing, RemoveStream,
             DropOutgoing, SetOutgoing
    <2>5. FreshStreams' /\ RespondHasWork'
      BY DEF StreamsType, ConnType, FreshStreams, RespondHasWork, RemoveStream
    <2>6. QED
      BY Zenon, <2>1, <2>2, <2>3, <2>4, <2>5
  <1>6. QED
    BY Zenon, <1>1, <1>2, <1>3, <1>4, <1>5

\* A stream that keeps or loses its outgoing half, and nothing else.
LEMMA StreamStateIInv ==
    ASSUME IInv, NEW s \in StreamIds, NEW st \in StreamStates,
           streams[s] # "Absent",
           st \in {"Open", "HalfClosedRemote"} => Outgoing(s),
           streams' = [streams EXCEPT ![s] = st],
           UNCHANGED <<outVars, connVars, connCap, pending, permit, pc, passVars,
                       selfq, exit, events, taskVars, wireVars, grantVars>>
    PROVE  IInv'
  <1> USE DEF outVars, connVars, passVars, taskVars, wireVars, grantVars
  <1>1. StreamsType' /\ ConnType' /\ LoopType' /\ TaskType' /\ WireType'
    BY Zenon DEF StreamsType, ConnType, LoopType, TaskType, WireType
  <1>2. WindowsAccounted'
    BY Zenon DEF WindowsAccounted, Outgoing, StreamsType
  <1>3. FreshStreams' /\ RespondHasWork'
    BY Zenon DEF FreshStreams, RespondHasWork, StreamsType
  <1>4. QED
    BY Zenon, <1>1, <1>2, <1>3

\* HEADERS for a stream in the map.
LEMMA ReceiveTrailersIInv ==
    ASSUME IInv, NEW s \in StreamIds, NEW es \in BOOLEAN, NEW b \in Blocks,
           ReceiveTrailers(s, es, b)
    PROVE  IInv'
  <1> USE DEF ReceiveTrailers
  <1>1. CASE Ends("StreamClosed") \/ Ends("HpackDecodingError")
    BY Zenon, <1>1, EndsIInv DEF Errors
  <1>2. CASE Ends("panic: trailers not open")
    BY Zenon, <1>2, EndsIInv DEF Panics
  <1>3. CASE ResetByServer(s)
    BY Zenon, <1>3, ResetByServerIInv
  <1>4. CASE /\ streams[s] = "Open"
             /\ streams' = [streams EXCEPT ![s] = "HalfClosedRemote"]
             /\ UNCHANGED <<outVars, connVars, connCap, pending, permit, pc, passVars,
                            selfq, exit, events, taskVars, wireVars, grantVars>>
    BY Zenon, <1>4, StreamStateIInv DEF StreamStates, Outgoing
  <1>5. QED
    BY Zenon, <1>1, <1>2, <1>3, <1>4

\* DATA, whatever becomes of its payload.
LEMMA ReceiveDataIInv ==
    ASSUME IInv, NEW s \in StreamIds, NEW es \in BOOLEAN,
           NEW c \in {"handed", "refused", "underflow"}, ReceiveData(s, es, c)
    PROVE  IInv'
  <1> USE DEF ReceiveData
  <1>1. CASE Ends("StreamClosed") \/ Ends("WindowUnderflow")
    BY Zenon, <1>1, EndsIInv DEF Errors
  <1>2. CASE ResetByServer(s)
    BY Zenon, <1>2, ResetByServerIInv
  <1>3. CASE /\ streams[s] \in {"Open", "HalfClosedLocal"}
             /\ streams' = [streams EXCEPT ![s] =
                              IF @ = "Open" THEN "HalfClosedRemote" ELSE "Absent"]
             /\ UNCHANGED <<outVars, connVars, connCap, pending, permit, pc, passVars,
                            selfq, exit, events, taskVars, wireVars, grantVars>>
    <2>1. CASE streams[s] = "Open"
      BY Zenon, <1>3, <2>1, StreamStateIInv DEF StreamStates, Outgoing
    <2>2. CASE streams[s] = "HalfClosedLocal"
      BY Zenon, <1>3, <2>2, StreamStateIInv DEF StreamStates, Outgoing
    <2>3. QED
      BY Zenon, <1>3, <2>1, <2>2
  <1>4. QED
    BY Zenon, <1>1, <1>2, <1>3

\* RST_STREAM: the stream leaves the map, or the connection ends.
LEMMA ReceiveRstStreamIInv ==
    ASSUME IInv, NEW s \in StreamIds, ReceiveRstStream(s)
    PROVE  IInv'
  <1>1. CASE Ends("RstStreamForUnknownStream")
    BY Zenon, <1>1, EndsIInv DEF Errors
  <1>2. CASE /\ RemoveStream(s)
             /\ WireReset(s)
             /\ UNCHANGED <<connVars, connCap, pending, permit, pc, passVars, selfq,
                            exit, events, taskVars, sent, connSent, rstFrames, grantVars>>
    <2> USE <1>2, ConnAssumption DEF connVars, passVars, taskVars, grantVars
    <2>1. StreamsType'
      BY DEF StreamsType, StreamStates, RemoveStream, DropOutgoing, SetOutgoing
    <2>2. ConnType' /\ LoopType' /\ TaskType'
      BY Zenon DEF ConnType, LoopType, TaskType
    <2>3. WireType'
      BY Zenon DEF WireType, WireReset
    <2>4. WindowsAccounted'
      BY Zenon DEF StreamsType, ConnType, WindowsAccounted, Outgoing, RemoveStream,
             DropOutgoing, SetOutgoing
    <2>5. FreshStreams' /\ RespondHasWork'
      BY Zenon DEF StreamsType, FreshStreams, RespondHasWork, RemoveStream
    <2>6. QED
      BY Zenon, <2>1, <2>2, <2>3, <2>4, <2>5
  <1>3. QED
    BY Zenon, <1>1, <1>2 DEF ReceiveRstStream

\* SETTINGS moves every outgoing window and the peer's grant by one delta.
LEMMA ReceiveSettingsIInv ==
    ASSUME IInv, NEW w \in Windows, NEW f \in FrameSizes, ReceiveSettings(w, f)
    PROVE  IInv'
  <1>1. CASE Ends("StreamWindowSizeOverflowDueToSettings")
    BY Zenon, <1>1, EndsIInv DEF Errors
  <1>2. CASE ~Ends("StreamWindowSizeOverflowDueToSettings")
    <2> USE <1>2, ConnAssumption DEF ReceiveSettings, passVars, taskVars, wireVars
    <2>0. ConnType'
      <3>1. permit' \in BOOLEAN
        BY Zenon DEF ConnType
      <3>2. CapacityType'
        BY Zenon DEF ConnType, CapacityType
      <3>3. QED
        BY <3>1, <3>2, ConnTypeParts, Zenon
    <2>1. StreamsType'
      BY DEF StreamsType, ConnType
    <2>2. LoopType' /\ TaskType' /\ RespondHasWork'
      BY Zenon DEF LoopType, TaskType, RespondHasWork
    <2>3. WireType'
      BY DEF WireType, ConnType
    <2>4. WindowsAccounted'
      BY DEF WindowsAccounted, Outgoing, StreamsType, ConnType, WireType
    <2>5. FreshStreams'
      BY Zenon DEF FreshStreams
    <2>6. QED
      BY Zenon, <2>0, <2>1, <2>2, <2>3, <2>4, <2>5
  <1>3. QED
    BY Zenon, <1>1, <1>2

\* WINDOW_UPDATE on the connection.
LEMMA ReceiveConnWindowUpdateIInv ==
    ASSUME IInv, NEW n \in Increments, ReceiveConnWindowUpdate(n)
    PROVE  IInv'
  <1>1. CASE Ends("WindowUpdateZeroIncrement") \/ Ends("WindowUpdateOverflow")
    BY Zenon, <1>1, EndsIInv DEF Errors
  <1>2. CASE ~(Ends("WindowUpdateZeroIncrement") \/ Ends("WindowUpdateOverflow"))
    <2> USE <1>2, ConnAssumption
        DEF ReceiveConnWindowUpdate, outVars, connVars, passVars, taskVars, wireVars
    <2>1. StreamsType' /\ LoopType' /\ TaskType' /\ RespondHasWork' /\ FreshStreams'
      BY ZenonT(30) DEF StreamsType, LoopType, TaskType, RespondHasWork, FreshStreams
    <2>2. permit' \in BOOLEAN
      BY Zenon
    <2>3. ConnType'
      <3>1. connCap' \in 0 .. MaxWindow
        BY DEF ConnType
      <3>2. CapacityType'
        BY Zenon, <3>1, ConnTypeParts DEF CapacityType
      <3>3. QED
        BY <2>2, <3>2, ConnTypeParts, Zenon
    <2>4. WireType'
      BY DEF WireType
    <2>5. WindowsAccounted'
      BY DEF WindowsAccounted, Outgoing, ConnType, WireType
    <2>6. QED
      BY Zenon, <2>1, <2>3, <2>4, <2>5
  <1>3. QED
    BY Zenon, <1>1, <1>2

\* WINDOW_UPDATE on a stream.
LEMMA ReceiveStreamWindowUpdateIInv ==
    ASSUME IInv, NEW s \in StreamIds, NEW n \in Increments,
           ReceiveStreamWindowUpdate(s, n)
    PROVE  IInv'
  <1>1. CASE Ends("WindowUpdateZeroIncrement") \/ Ends("WindowUpdateForUnknownOrClosedStream")
    BY Zenon, <1>1, EndsIInv DEF Errors
  <1>2. CASE ResetByServer(s)
    BY Zenon, <1>2, ResetByServerIInv
  <1>3. CASE ~(Ends("WindowUpdateZeroIncrement") \/ Ends("WindowUpdateForUnknownOrClosedStream")
               \/ ResetByServer(s))
    <2> USE <1>3, ConnAssumption
        DEF ReceiveStreamWindowUpdate, connVars, passVars, taskVars, wireVars
    <2>0. ConnType'
      <3>1. permit' \in BOOLEAN
        BY Zenon DEF ConnType
      <3>2. CapacityType'
        BY Zenon DEF ConnType, CapacityType
      <3>3. QED
        BY <3>1, <3>2, ConnTypeParts, Zenon
    <2>1. StreamsType'
      BY DEF StreamsType, ConnType
    <2>2. LoopType' /\ TaskType' /\ RespondHasWork' /\ FreshStreams'
      BY Zenon DEF LoopType, TaskType, RespondHasWork, FreshStreams
    <2>3. WireType'
      BY DEF WireType
    <2>4. WindowsAccounted'
      BY DEF WindowsAccounted, Outgoing, StreamsType, ConnType, WireType
    <2>5. QED
      BY Zenon, <2>0, <2>1, <2>2, <2>3, <2>4
  <1>4. QED
    BY Zenon, <1>1, <1>2, <1>3

\* What remains of a sequence of two or more elements is not empty (RespondStep
\* stays in "respond" exactly then).
LEMMA TailNonempty ==
    ASSUME NEW S, NEW q \in Seq(S), q # <<>>, Len(q) # 1
    PROVE  Tail(q) # <<>>
  <1>1. Len(q) \in Nat /\ Len(q) # 0
    OBVIOUS
  <1>2. Len(Tail(q)) = Len(q) - 1
    BY <1>1
  <1>3. Len(Tail(q)) # 0
    BY <1>1, <1>2
  <1>4. Len(<<>>) = 0
    BY Zenon
  <1>5. QED
    BY Zenon, <1>3, <1>4

\* process_frame sends an event of its own answer.
LEMMA RespondStepIInv ==
    ASSUME IInv, RespondStep
    PROVE  IInv'
  <1> USE DEF RespondStep, outVars, connVars, passVars, wireVars, grantVars
  <1>1. selfq # <<>> /\ selfq \in Seq(Events)
    BY Zenon DEF RespondHasWork, LoopType
  <1>2. Head(selfq) \in Events /\ Tail(selfq) \in Seq(Events)
    BY Zenon, <1>1, HeadAndTail
  <1>3. StreamsType' /\ ConnType' /\ WireType' /\ FreshStreams'
    BY Zenon DEF StreamsType, ConnType, WireType, FreshStreams
  <1>4. LoopType'
    BY Zenon, <1>2 DEF LoopType
  <1>5. TaskType'
    <2>1. Head(selfq).sid \in StreamIds /\ Head(selfq).len \in Nat
      BY Zenon, <1>2 DEF Events
    <2>2. events' \in Seq(Events)
      BY <1>2 DEF TaskType
    <2>3. handed' \in [StreamIds -> Nat]
      BY <2>1 DEF TaskType
    <2>4. QED
      BY Zenon, <2>2, <2>3 DEF TaskType
  <1>6. RespondHasWork'
    <2>1. CASE Len(selfq) = 1
      BY Zenon, <2>1 DEF RespondHasWork
    <2>2. CASE Len(selfq) # 1
      <3>1. Tail(selfq) # <<>>
        BY Zenon, <1>1, <2>2, TailNonempty
      <3>2. QED
        BY Zenon, <3>1 DEF RespondHasWork
    <2>3. QED
      BY Zenon, <2>1, <2>2
  <1>7. WindowsAccounted'
    BY Zenon DEF WindowsAccounted, Outgoing
  <1>8. QED
    BY Zenon, <1>3, <1>4, <1>5, <1>6, <1>7

-----------------------------------------------------------------------------
(* The events of the handlers and the passes of send_data_maybe.           *)

\* An event taken off the channel is an event, and so are those left in it.
LEMMA EventTaken ==
    ASSUME TaskType, events # <<>>
    PROVE  /\ Head(events) \in Events
           /\ Head(events).sid \in StreamIds
           /\ Head(events).len \in Nat
           /\ Tail(events) \in Seq(Events)
  <1>1. Head(events) \in Events /\ Tail(events) \in Seq(Events)
    BY DEF TaskType
  <1>2. QED
    BY Zenon, <1>1 DEF Events

\* An event of a closed stream is dropped.
LEMMA IgnoreEventIInv ==
    ASSUME IInv, IgnoreEvent
    PROVE  IInv'
  <1> USE DEF IgnoreEvent, outVars, connVars, passVars, taskVars, wireVars, grantVars
  <1>1. StreamsType' /\ ConnType' /\ LoopType' /\ WireType'
    BY Zenon DEF StreamsType, ConnType, LoopType, WireType
  <1>2. TaskType'
    BY Zenon, EventTaken DEF TaskType
  <1>3. WindowsAccounted' /\ FreshStreams' /\ RespondHasWork'
    BY Zenon DEF WindowsAccounted, Outgoing, FreshStreams, RespondHasWork
  <1>4. QED
    BY Zenon, <1>1, <1>2, <1>3

\* Adding to one entry of a table of lengths.
LEMMA AddAt ==
    ASSUME NEW f \in [StreamIds -> Nat], NEW s \in StreamIds, NEW n \in Nat
    PROVE  [f EXCEPT ![s] = @ + n] \in [StreamIds -> Nat]
  OBVIOUS

\* Response headers reach the stream.
LEMMA HandleHeadersIInv ==
    ASSUME IInv, HandleHeaders
    PROVE  IInv'
  <1>1. CASE Ends("panic: headers too late")
    BY Zenon, <1>1, EndsIInv DEF Panics
  <1>2. CASE ~Ends("panic: headers too late")
    <2> USE <1>2, ConnAssumption
        DEF HandleHeaders, Takes, connVars, passVars, taskVars, wireVars, grantVars
    <2>1. StreamsType'
      <3>1. PICK n \in HeaderLens :
              headerLen' = [headerLen EXCEPT ![Head(events).sid] = n]
        BY Zenon
      <3>2. headerLen' \in [StreamIds -> Nat]
        BY Zenon, <3>1, EventTaken DEF StreamsType
      <3>3. QED
        BY Zenon, <3>2, EventTaken DEF StreamsType
    <2>2. ConnType'
      <3>1. permit' \in BOOLEAN
        BY Zenon DEF NotifyIfCapacity
      <3>2. CapacityType'
        BY Zenon, EventTaken, ConnTypeParts DEF CapacityType
      <3>3. QED
        BY <3>1, <3>2, ConnTypeParts, Zenon
    <2>3. LoopType' /\ WireType'
      BY Zenon DEF LoopType, WireType
    <2>4. TaskType'
      BY Zenon, EventTaken DEF TaskType
    <2>5. WindowsAccounted' /\ FreshStreams' /\ RespondHasWork'
      BY Zenon DEF WindowsAccounted, Outgoing, FreshStreams, RespondHasWork
    <2>6. QED
      BY Zenon, <2>1, <2>2, <2>3, <2>4, <2>5
  <1>3. QED
    BY Zenon, <1>1, <1>2

\* A piece of the response body reaches the stream.
LEMMA HandleBodyChunkIInv ==
    ASSUME IInv, HandleBodyChunk
    PROVE  IInv'
  <1>1. CASE Ends("panic: piece after done")
    BY Zenon, <1>1, EndsIInv DEF Panics
  <1>2. CASE ~Ends("panic: piece after done")
    <2> USE <1>2, ConnAssumption
        DEF HandleBodyChunk, Takes, connVars, passVars, taskVars, wireVars, grantVars
    <2>1. StreamsType'
      <3>0. Head(events).sid \in StreamIds /\ Head(events).len \in Nat
        BY Zenon, EventTaken
      <3>1. queued' \in [StreamIds -> Nat]
        <4>1. queued' = [queued EXCEPT ![Head(events).sid] = @ + Head(events).len]
          BY Zenon
        <4>2. queued \in [StreamIds -> Nat]
          BY Zenon DEF StreamsType
        <4>3. QED
          BY <3>0, <4>1, <4>2, AddAt, Zenon
      <3>2. pieces' \in [StreamIds -> BOOLEAN]
        BY Zenon, EventTaken DEF StreamsType
      <3>3. QED
        BY Zenon, <3>1, <3>2 DEF StreamsType
    <2>2. ConnType'
      <3>1. permit' \in BOOLEAN
        BY Zenon DEF NotifyIfCapacity
      <3>2. CapacityType'
        BY Zenon, EventTaken, ConnTypeParts DEF CapacityType
      <3>3. QED
        BY <3>1, <3>2, ConnTypeParts, Zenon
    <2>3. LoopType' /\ WireType'
      BY Zenon DEF LoopType, WireType
    <2>4. TaskType'
      BY Zenon, EventTaken DEF TaskType
    <2>5. WindowsAccounted' /\ FreshStreams' /\ RespondHasWork'
      BY Zenon DEF WindowsAccounted, Outgoing, FreshStreams, RespondHasWork
    <2>6. QED
      BY Zenon, <2>1, <2>2, <2>3, <2>4, <2>5
  <1>3. QED
    BY Zenon, <1>1, <1>2

\* The response body is over.
LEMMA HandleBodyEndIInv ==
    ASSUME IInv, HandleBodyEnd
    PROVE  IInv'
  <1>1. CASE Ends("panic: body end twice")
    BY Zenon, <1>1, EndsIInv DEF Panics
  <1>2. CASE ~Ends("panic: body end twice")
    <2> USE <1>2, ConnAssumption
        DEF HandleBodyEnd, Takes, connVars, passVars, taskVars, wireVars, grantVars
    <2>1. StreamsType'
      BY Zenon, EventTaken DEF StreamsType
    <2>2. ConnType'
      <3>1. permit' \in BOOLEAN
        BY Zenon
      <3>2. CapacityType'
        BY Zenon, ConnTypeParts DEF CapacityType
      <3>3. QED
        BY <3>1, <3>2, ConnTypeParts, Zenon
    <2>3. LoopType' /\ WireType'
      BY Zenon DEF LoopType, WireType
    <2>4. TaskType'
      BY Zenon, EventTaken DEF TaskType
    <2>5. WindowsAccounted' /\ FreshStreams' /\ RespondHasWork'
      BY ZenonT(30) DEF WindowsAccounted, Outgoing, FreshStreams, RespondHasWork
    <2>6. QED
      BY Zenon, <2>1, <2>2, <2>3, <2>4, <2>5
  <1>3. QED
    BY Zenon, <1>1, <1>2

\* A pass begins: the permit is consumed, the snapshot taken.
LEMMA BeginPassIInv ==
    ASSUME IInv, BeginPass
    PROVE  IInv'
  <1> USE DEF BeginPass, outVars, connVars, taskVars, wireVars, grantVars
  <1>1. StreamsType' /\ TaskType' /\ WireType'
    BY Zenon DEF StreamsType, TaskType, WireType
  <1>2. ConnType'
    <2>1. permit' \in BOOLEAN
      BY Zenon
    <2>2. CapacityType'
      BY Zenon, ConnTypeParts DEF CapacityType
    <2>3. QED
      BY <2>1, <2>2, ConnTypeParts, Zenon
  <1>3. LoopType'
    BY Zenon, ConnTypeParts DEF LoopType, CapacityType
  <1>4. WindowsAccounted' /\ FreshStreams' /\ RespondHasWork'
    BY Zenon DEF WindowsAccounted, Outgoing, FreshStreams, RespondHasWork
  <1>5. QED
    BY Zenon, <1>1, <1>2, <1>3, <1>4

\* A step of a pass that moves only the loop's own variables.
LEMMA PassStepIInv ==
    ASSUME IInv, LoopType', RespondHasWork',
           UNCHANGED <<streams, outVars, connVars, connCap, pending, permit, events,
                       taskVars, wireVars, grantVars>>
    PROVE  IInv'
  <1> USE DEF outVars, connVars, taskVars, wireVars, grantVars
  <1>1. StreamsType' /\ ConnType' /\ TaskType' /\ WireType'
    BY Zenon DEF StreamsType, ConnType, TaskType, WireType
  <1>2. WindowsAccounted' /\ FreshStreams'
    BY Zenon DEF WindowsAccounted, Outgoing, FreshStreams
  <1>3. QED
    BY Zenon, <1>1, <1>2

\* What a pass may write on a stream is a natural number, even where the
\* capacity is negative: SETTINGS cannot take it below -MaxWindow.
LEMMA CapacityAsUsize ==
    ASSUME IInv, NEW s \in StreamIds, Outgoing(s)
    PROVE  AsUsize(Min(connCap, capacity[s])) \in Nat
  BY ConnAssumption DEF StreamsType, CapacityType, ConnType, WindowsAccounted, AsUsize, Min

\* A stream of the snapshot is visited.
LEMMA VisitStreamIInv ==
    ASSUME IInv, NEW s \in StreamIds, VisitStream(s)
    PROVE  IInv'
  <1> USE DEF VisitStream
  <1>1. CASE Ends("panic: pending stream is not outgoing")
    BY Zenon, <1>1, EndsIInv DEF Panics
  <1>2. CASE /\ notPending' = notPending \cup {s}
             /\ todo' = todo \ {s}
             /\ UNCHANGED <<streams, outVars, connVars, connCap, pending, permit, pc,
                            cur, left, frames, selfq, exit, events, taskVars,
                            wireVars, grantVars>>
    <2>1. LoopType' /\ RespondHasWork'
      BY Zenon, <1>2 DEF LoopType, RespondHasWork
    <2>2. QED
      BY Zenon, <1>2, <2>1, PassStepIInv
  <1>3. CASE /\ Outgoing(s)
             /\ cur' = s
             /\ left' = AsUsize(Min(connCap, capacity[s]))
             /\ todo' = todo \ {s}
             /\ pc' = IF headers[s] = "WroteAll" THEN "body" ELSE "headers"
             /\ UNCHANGED <<streams, outVars, connVars, connCap, pending, permit,
                            notPending, frames, selfq, exit, events, taskVars,
                            wireVars, grantVars>>
    <2>1. LoopType' /\ RespondHasWork'
      BY Zenon, <1>3, CapacityAsUsize DEF LoopType, RespondHasWork
    <2>2. QED
      BY Zenon, <1>3, <2>1, PassStepIInv
  <1>4. QED
    BY Zenon, <1>1, <1>2, <1>3

\* One HEADERS or CONTINUATION frame is queued.
LEMMA QueueHeaderFrameIInv ==
    ASSUME IInv, QueueHeaderFrame
    PROVE  IInv'
  <1> USE DEF QueueHeaderFrame, connVars, taskVars, wireVars, grantVars
  <1>0. cur \in StreamIds /\ headerLen[cur] \in Nat /\ maxFrame \in Nat
    BY Zenon DEF LoopType, StreamsType, ConnType
  <1>1. /\ Min(headerLen[cur], maxFrame) \in Nat
        /\ headerLen[cur] - Min(headerLen[cur], maxFrame) \in Nat
    BY Zenon, <1>0, MinParts
  <1>2. StreamsType'
    BY Zenon, <1>0, <1>1 DEF StreamsType
  <1>3. ConnType' /\ TaskType' /\ WireType'
    BY Zenon DEF ConnType, TaskType, WireType
  <1>4. LoopType'
    BY <1>0, <1>1 DEF LoopType, Frames
  <1>5. WindowsAccounted' /\ FreshStreams' /\ RespondHasWork'
    BY Zenon DEF WindowsAccounted, Outgoing, FreshStreams, RespondHasWork
  <1>6. QED
    BY Zenon, <1>2, <1>3, <1>4, <1>5

\* The length of a DATA frame exceeds neither the queue nor the budget.
LEMMA DataFrameLength ==
    ASSUME NEW q \in Nat, NEW m \in Nat, NEW b \in Nat
    PROVE  /\ Min(q, Min(m, b)) \in Nat
           /\ q - Min(q, Min(m, b)) \in Nat
           /\ b - Min(q, Min(m, b)) \in Nat
  BY DEF Min

\* One DATA frame is queued, or the stream has nothing to send.
LEMMA QueueDataFrameIInv ==
    ASSUME IInv, QueueDataFrame
    PROVE  IInv'
  <1> DEFINE n == Min(queued[cur], Min(maxFrame, left))
             done == body[cur] = "DoneReceiving" /\ n = queued[cur]
             f == [sid |-> cur, type |-> "DATA", len |-> n, end |-> done]
  <1> USE DEF QueueDataFrame, Finishes, connVars, taskVars, wireVars, grantVars
  <1>0. cur \in StreamIds /\ queued[cur] \in Nat /\ maxFrame \in Nat /\ left \in Nat
    BY Zenon DEF LoopType, StreamsType, ConnType
  <1>1. n \in Nat /\ queued[cur] - n \in Nat /\ left - n \in Nat
    BY Zenon, <1>0, DataFrameLength
  <1>2. StreamsType'
    BY <1>0, <1>1 DEF StreamsType
  <1>3. ConnType' /\ TaskType' /\ WireType'
    BY Zenon DEF ConnType, TaskType, WireType
  <1>4. LoopType'
    <2>1. f \in Frames
      <3> HIDE DEF n, QueueDataFrame
      <3>1. done \in BOOLEAN
        BY Zenon
      <3> HIDE DEF done
      <3>2. QED
        BY Zenon, <1>0, <1>1, <3>1 DEF Frames
    <2>2. frames' = Append(frames, f) \/ frames' = frames
      BY Zenon
    <2>3. frames' \in Seq(Frames)
      <3> HIDE DEF f, QueueDataFrame
      <3>1. QED
        BY <2>1, <2>2 DEF LoopType
    <2>4. left' = left - n /\ pc' \in {"body", "each"}
      BY Zenon
    <2>5. UNCHANGED <<cur, todo, notPending, selfq, exit>>
      BY Zenon
    <2>6. QED
      <3> HIDE DEF n, QueueDataFrame
      <3>1. QED
        BY Zenon, <1>0, <1>1, <2>3, <2>4, <2>5 DEF LoopType
  <1>5. WindowsAccounted' /\ FreshStreams' /\ RespondHasWork'
    BY Zenon DEF WindowsAccounted, Outgoing, FreshStreams, RespondHasWork
  <1>6. QED
    BY Zenon, <1>2, <1>3, <1>4, <1>5

\* The loop is done with a stream, or with the snapshot.
LEMMA LeaveIInv ==
    ASSUME IInv, LeaveStream \/ BeginWriting
    PROVE  IInv'
  <1>1. LoopType' /\ RespondHasWork'
    BY DEF LeaveStream, BeginWriting, LoopType, RespondHasWork, passVars, NoStream
  <1>2. QED
    BY Zenon, <1>1, PassStepIInv DEF LeaveStream, BeginWriting

\* A frame taken off the frames vector is a frame, and so are those left.
LEMMA FrameTaken ==
    ASSUME LoopType, frames # <<>>
    PROVE  /\ Head(frames).sid \in StreamIds
           /\ Head(frames).len \in Nat
           /\ Tail(frames) \in Seq(Frames)
  <1>1. Head(frames) \in Frames /\ Tail(frames) \in Seq(Frames)
    BY DEF LoopType
  <1>2. QED
    BY Zenon, <1>1 DEF Frames

\* A HEADERS or CONTINUATION frame is written.
LEMMA WriteHeaderFrameIInv ==
    ASSUME IInv, WriteHeaderFrame
    PROVE  IInv'
  <1> USE DEF WriteHeaderFrame, outVars, connVars, taskVars, grantVars
  <1>1. StreamsType' /\ ConnType' /\ TaskType'
    BY Zenon DEF StreamsType, ConnType, TaskType
  <1>2. LoopType'
    BY Zenon, FrameTaken DEF LoopType
  <1>3. WireType'
    BY Zenon, FrameTaken DEF WireType
  <1>4. WindowsAccounted' /\ FreshStreams' /\ RespondHasWork'
    BY Zenon DEF WindowsAccounted, Outgoing, FreshStreams, RespondHasWork
  <1>5. QED
    BY Zenon, <1>1, <1>2, <1>3, <1>4

\* What write_frame does to both windows and to what was sent, in short.
LEMMA DataFrameWritten ==
    ASSUME WriteDataFrame,
           ~Ends("panic: DATA without outgoing"),
           ~Ends("panic: stream capacity negative"),
           ~Ends("panic: connection capacity negative")
    PROVE  /\ frames # <<>> /\ Outgoing(Head(frames).sid)
           /\ ~(capacity[Head(frames).sid] - Head(frames).len < 0)
           /\ ~(connCap - Head(frames).len < 0)
           /\ connCap' = connCap - Head(frames).len
           /\ sent' = [sent EXCEPT ![Head(frames).sid] = @ + Head(frames).len]
           /\ connSent' = connSent + Head(frames).len
           /\ frames' = Tail(frames)
           /\ UNCHANGED <<connVars, permit, pc, cur, left, todo, notPending, selfq,
                          exit, events, taskVars, rstFrames, grantVars>>
  BY Zenon DEF WriteDataFrame

\* n bytes of stream s are written and taken off both windows; the stream may
\* lose its outgoing half with them.
LEMMA BytesWrittenIInv ==
    ASSUME IInv, NEW s \in StreamIds, NEW n \in Nat, Outgoing(s),
           ~(capacity[s] - n < 0), ~(connCap - n < 0),
           connCap' = connCap - n,
           sent' = [sent EXCEPT ![s] = @ + n],
           connSent' = connSent + n,
           UNCHANGED <<lastSid, initWindow, maxFrame, permit, granted, connGranted>>,
           \/ /\ streams' = [streams EXCEPT ![s] =
                               IF @ = "Open" THEN "HalfClosedLocal" ELSE "Absent"]
              /\ pending' = pending \ {s}
              /\ DropOutgoing(s)
           \/ /\ capacity' = [capacity EXCEPT ![s] = @ - n]
              /\ UNCHANGED <<streams, pending, headers, headerLen, body, queued, pieces>>
    PROVE  StreamsType' /\ ConnType' /\ WindowsAccounted' /\ FreshStreams'
  <1>1. StreamsType'
    <2>1. CASE DropOutgoing(s) /\ streams' = [streams EXCEPT ![s] =
                  IF @ = "Open" THEN "HalfClosedLocal" ELSE "Absent"]
      BY <2>1 DEF StreamsType, StreamStates, DropOutgoing, SetOutgoing
    <2>2. CASE /\ capacity' = [capacity EXCEPT ![s] = @ - n]
               /\ UNCHANGED <<streams, headers, headerLen, body, queued, pieces>>
      <3>1. capacity' \in [StreamIds -> Int]
        BY <2>2 DEF StreamsType
      <3>2. QED
        BY Zenon, <2>2, <3>1 DEF StreamsType
    <2>3. QED
      BY Zenon, <2>1, <2>2
  <1>2. ConnType'
    <2>1. connCap' \in 0 .. MaxWindow
      BY ConnAssumption DEF ConnType
    <2>2. QED
      BY Zenon, <2>1 DEF ConnType
  <1>3. WindowsAccounted'
    <2>1. connCap' = connGranted' - connSent'
      BY DEF WindowsAccounted, ConnType, WireType
    <2>2. ASSUME NEW t \in StreamIds, Outgoing(t)'
          PROVE  (capacity[t] = granted[t] - sent[t] /\ capacity[t] >= initWindow - MaxWindow)'
      <3>1. CASE t = s
        BY <2>2, <3>1, ConnAssumption
        DEF WindowsAccounted, Outgoing, StreamsType, ConnType, WireType
      <3>2. CASE t # s
        BY Zenon, <2>2, <3>2
        DEF WindowsAccounted, Outgoing, StreamsType, WireType, DropOutgoing, SetOutgoing
      <3>3. QED
        BY Zenon, <3>1, <3>2
    <2>3. QED
      BY Zenon, <2>1, <2>2 DEF WindowsAccounted
  <1>4. FreshStreams'
    BY Zenon DEF FreshStreams, StreamsType, ConnType, WireType, Outgoing
  <1>5. QED
    BY Zenon, <1>1, <1>2, <1>3, <1>4

\* A DATA frame is written.
LEMMA WriteDataFrameIInv ==
    ASSUME IInv, WriteDataFrame
    PROVE  IInv'
  <1>1. CASE \/ Ends("panic: DATA without outgoing")
             \/ Ends("panic: stream capacity negative")
             \/ Ends("panic: connection capacity negative")
    BY Zenon, <1>1, EndsIInv DEF Panics
  <1>2. CASE ~ \/ Ends("panic: DATA without outgoing")
               \/ Ends("panic: stream capacity negative")
               \/ Ends("panic: connection capacity negative")
    <2> USE DEF connVars, taskVars, grantVars
    <2>1. PICK s, n : s = Head(frames).sid /\ n = Head(frames).len
      BY Zenon
    <2>2. /\ frames # <<>> /\ Outgoing(s)
          /\ ~(capacity[s] - n < 0) /\ ~(connCap - n < 0)
          /\ connCap' = connCap - n
          /\ sent' = [sent EXCEPT ![s] = @ + n]
          /\ connSent' = connSent + n
          /\ frames' = Tail(frames)
          /\ UNCHANGED <<connVars, permit, pc, cur, left, todo, notPending, selfq,
                         exit, events, taskVars, rstFrames, grantVars>>
      BY Zenon, <1>2, <2>1, DataFrameWritten
    <2>3. s \in StreamIds /\ n \in Nat /\ Tail(frames) \in Seq(Frames)
      BY Zenon, <2>1, <2>2, FrameTaken
    <2>4. \/ /\ streams' = [streams EXCEPT ![s] =
                              IF @ = "Open" THEN "HalfClosedLocal" ELSE "Absent"]
             /\ pending' = pending \ {s}
             /\ DropOutgoing(s)
          \/ /\ capacity' = [capacity EXCEPT ![s] = @ - n]
             /\ UNCHANGED <<streams, pending, headers, headerLen, body, queued, pieces>>
      BY <1>2, <2>1, Zenon DEF WriteDataFrame
    <2>5. wire' \in [StreamIds -> {"idle", "headers", "body", "ended", "reset"}]
      BY Zenon, <1>2, <2>1, <2>3 DEF WriteDataFrame, WireType
    <2>6. StreamsType' /\ ConnType' /\ WindowsAccounted' /\ FreshStreams'
      BY Zenon, <2>2, <2>3, <2>4, BytesWrittenIInv
    <2>7. LoopType' /\ TaskType' /\ RespondHasWork'
      BY Zenon, <2>2, <2>3 DEF LoopType, TaskType, RespondHasWork
    <2>8. WireType'
      <3>1. sent' \in [StreamIds -> Nat]
        BY Zenon, <2>2, <2>3, AddAt DEF WireType
      <3>2. connSent' \in Nat
        BY <2>2, <2>3 DEF WireType
      <3>3. UNCHANGED <<granted, connGranted, rstFrames>>
        BY Zenon, <2>2
      <3>4. QED
        BY Zenon, <2>5, <3>1, <3>2, <3>3 DEF WireType
    <2>9. QED
      BY Zenon, <2>6, <2>7, <2>8
  <1>3. QED
    BY Zenon, <1>1, <1>2

\* The pass is over.
LEMMA EndPassIInv ==
    ASSUME IInv, EndPass
    PROVE  IInv'
  <1> USE DEF EndPass, outVars, connVars, taskVars, wireVars, grantVars
  <1>1. StreamsType' /\ ConnType' /\ TaskType' /\ WireType'
    BY Zenon DEF StreamsType, ConnType, TaskType, WireType
  <1>2. LoopType'
    BY Zenon DEF LoopType
  <1>3. WindowsAccounted' /\ FreshStreams' /\ RespondHasWork'
    BY Zenon DEF WindowsAccounted, Outgoing, FreshStreams, RespondHasWork
  <1>4. QED
    BY Zenon, <1>1, <1>2, <1>3

-----------------------------------------------------------------------------
(* The handlers, and the invariant.                                        *)

\* A handler, or the task of a dropped encoder, puts an event in the channel.
LEMMA SendsIInv ==
    ASSUME IInv, NEW s \in StreamIds, NEW k \in {"Headers", "BodyChunk", "BodyEnd"},
           NEW n \in Nat, Sends(s, k, n),
           enc' \in [StreamIds -> EncoderStates],
           dropq' \in [StreamIds -> Seq(Events)],
           handed' \in [StreamIds -> Nat]
    PROVE  IInv'
  <1> USE DEF Sends, outVars, connVars, passVars, wireVars, grantVars
  <1>1. StreamsType' /\ ConnType' /\ LoopType' /\ WireType'
    BY Zenon DEF StreamsType, ConnType, LoopType, WireType
  <1>2. TaskType'
    <2>1. [sid |-> s, ev |-> k, len |-> n] \in Events
      BY Zenon DEF Events
    <2>2. events' \in Seq(Events)
      BY <2>1 DEF TaskType
    <2>3. QED
      BY Zenon, <2>2 DEF TaskType
  <1>3. WindowsAccounted' /\ FreshStreams' /\ RespondHasWork'
    BY Zenon DEF WindowsAccounted, Outgoing, FreshStreams, RespondHasWork
  <1>4. QED
    BY Zenon, <1>1, <1>2, <1>3

\* What a request handler does.
LEMMA HandlerIInv ==
    ASSUME IInv, NEW s \in StreamIds, Handler(s)
    PROVE  IInv'
  <1>1. CASE write_response(s)
    BY Zenon, <1>1, SendsIInv DEF write_response, TaskType, EncoderStates
  <1>2. ASSUME NEW n \in ChunkLens, write_body_chunk(s, n) PROVE IInv'
    <2>1. n \in Nat
      BY Zenon, ConnAssumption
    <2>2. handed' \in [StreamIds -> Nat]
      BY Zenon, <1>2, <2>1, AddAt DEF write_body_chunk, TaskType
    <2>3. QED
      BY Zenon, <1>2, <2>1, <2>2, SendsIInv DEF write_body_chunk, TaskType
  <1>3. CASE write_body_end(s)
    BY Zenon, <1>3, SendsIInv DEF write_body_end, TaskType, EncoderStates
  <1>4. CASE DropEncoder(s)
    <2> USE <1>4 DEF DropEncoder, outVars, connVars, passVars, wireVars, grantVars
    <2>1. StreamsType' /\ ConnType' /\ LoopType' /\ WireType'
      BY Zenon DEF StreamsType, ConnType, LoopType, WireType
    <2>2. dropq' \in [StreamIds -> Seq(Events)]
      <3>1. /\ [sid |-> s, ev |-> "Headers", len |-> 0] \in Events
            /\ [sid |-> s, ev |-> "BodyEnd", len |-> 0] \in Events
        BY Zenon DEF Events
      <3>2. QED
        BY <3>1 DEF TaskType
    <2>3. TaskType'
      BY Zenon, <2>2 DEF TaskType, EncoderStates
    <2>4. WindowsAccounted' /\ FreshStreams' /\ RespondHasWork'
      BY Zenon DEF WindowsAccounted, Outgoing, FreshStreams, RespondHasWork
    <2>5. QED
      BY Zenon, <2>1, <2>3, <2>4
  <1>5. CASE DropTaskSends(s)
    <2>1. dropq[s] # <<>> /\ dropq[s] \in Seq(Events)
      BY Zenon, <1>5 DEF DropTaskSends, TaskType
    <2>2. Head(dropq[s]) \in Events /\ Tail(dropq[s]) \in Seq(Events)
      BY Zenon, <2>1, HeadAndTail
    <2>3. Head(dropq[s]).ev \in {"Headers", "BodyChunk", "BodyEnd"}
      BY Zenon, <2>2 DEF Events
    <2>4. dropq' \in [StreamIds -> Seq(Events)]
      BY Zenon, <1>5, <2>2 DEF DropTaskSends, TaskType
    <2>5. QED
      BY Zenon, <1>5, <2>3, <2>4, SendsIInv DEF DropTaskSends, TaskType
  <1>6. QED
    BY Zenon, <1>1, <1>2, <1>3, <1>4, <1>5 DEF Handler

\* Every step of the connection preserves the inductive invariant.
LEMMA NextIInv == IInv /\ [Next]_vars => IInv'
  <1> SUFFICES ASSUME IInv, [Next]_vars PROVE IInv'
    BY Zenon
  <1>1. CASE Client
    <2>1. ASSUME NEW s \in StreamIds, ReceiveInvalidSize(s) PROVE IInv'
      BY Zenon, <2>1, ResetByServerIInv DEF ReceiveInvalidSize
    <2>2. CASE ReceiveErroneous("FrameTooLarge") \/ TransportCloses
      BY Zenon, <2>2, EndsIInv DEF ReceiveErroneous, TransportCloses, Errors
    <2>3. QED
      BY Zenon, <1>1, <2>1, <2>2, ReceiveHeadersIInv, ReceiveTrailersIInv, ReceiveDataIInv,
         ReceiveRstStreamIInv, ReceiveSettingsIInv, ReceiveConnWindowUpdateIInv,
         ReceiveStreamWindowUpdateIInv, Zenon
      DEF Client
  <1>2. CASE RespondStep
    BY Zenon, <1>2, RespondStepIInv
  <1>3. CASE HandleEvent
    BY Zenon, <1>3, IgnoreEventIInv, HandleHeadersIInv, HandleBodyChunkIInv, HandleBodyEndIInv
    DEF HandleEvent
  <1>4. CASE SendDataMaybe
    BY Zenon, <1>4, BeginPassIInv, VisitStreamIInv, QueueHeaderFrameIInv, QueueDataFrameIInv,
       LeaveIInv, WriteHeaderFrameIInv, WriteDataFrameIInv, EndPassIInv
    DEF SendDataMaybe
  <1>5. CASE \E s \in StreamIds : Handler(s)
    BY Zenon, <1>5, HandlerIInv
  <1>6. CASE UNCHANGED vars
    <2> USE <1>6 DEF vars, outVars, connVars, passVars, taskVars, wireVars, grantVars
    <2>1. StreamsType' /\ ConnType' /\ LoopType' /\ TaskType' /\ WireType'
      BY Zenon DEF StreamsType, ConnType, LoopType, TaskType, WireType
    <2>2. WindowsAccounted' /\ FreshStreams' /\ RespondHasWork'
      BY Zenon DEF WindowsAccounted, Outgoing, FreshStreams, RespondHasWork
    <2>3. QED
      BY Zenon, <2>1, <2>2
  <1>7. QED
    BY Zenon, <1>1, <1>2, <1>3, <1>4, <1>5, <1>6 DEF Next

-----------------------------------------------------------------------------

\* Every reachable state satisfies the inductive invariant.
THEOREM Invariance == Spec => []IInv
  <1> HIDE DEF IInv
  <1>1. QED
    BY InitIInv, NextIInv, PTL DEF Spec

\* The state of the connection is always well-typed: the connection capacity
\* stays within 0 .. MAX_WINDOW_SIZE, and send_data_maybe's byte budget is
\* never negative, whatever the frames and the handlers do.
THEOREM TypeCorrect == Spec => []TypeOK
  <1>1. IInv => TypeOK
    BY Zenon DEF IInv
  <1> HIDE DEF IInv, TypeOK
  <1>2. QED
    BY <1>1, Invariance, PTL

\* The server's windows always agree with what the peer granted and was sent.
THEOREM WindowsAccountedAlways == Spec => []WindowsAccounted
  <1>1. IInv => WindowsAccounted
    BY Zenon DEF IInv
  <1> HIDE DEF IInv
  <1>2. QED
    BY <1>1, Invariance, PTL

\* Only write_frame of a DATA frame changes what was sent.
LEMMA OthersSendNothing ==
    ASSUME [Next]_vars, ~WriteDataFrame
    PROVE  UNCHANGED sent
  <1> USE DEF Ends, ResetByServer, rst, wireVars
  <1>1. CASE Client
    <2>1. ASSUME NEW s \in StreamIds, NEW es \in BOOLEAN, NEW b \in Blocks,
                 ReceiveHeaders(s, es, b)
          PROVE  UNCHANGED sent
      BY Zenon, <2>1 DEF ReceiveHeaders, AcceptRequest, RespondWithStatus
    <2>2. ASSUME NEW s \in StreamIds, NEW es \in BOOLEAN, NEW b \in Blocks,
                 ReceiveTrailers(s, es, b)
          PROVE  UNCHANGED sent
      BY Zenon, <2>2 DEF ReceiveTrailers
    <2>3. ASSUME NEW s \in StreamIds, NEW es \in BOOLEAN,
                 NEW c \in {"handed", "refused", "underflow"}, ReceiveData(s, es, c)
          PROVE  UNCHANGED sent
      BY Zenon, <2>3 DEF ReceiveData
    <2>4. ASSUME NEW s \in StreamIds, ReceiveInvalidSize(s) \/ ReceiveRstStream(s)
          PROVE  UNCHANGED sent
      BY Zenon, <2>4 DEF ReceiveInvalidSize, ReceiveRstStream
    <2>5. ASSUME NEW w \in Windows, NEW f \in FrameSizes, ReceiveSettings(w, f)
          PROVE  UNCHANGED sent
      BY Zenon, <2>5 DEF ReceiveSettings
    <2>6. ASSUME NEW n \in Increments, ReceiveConnWindowUpdate(n)
          PROVE  UNCHANGED sent
      BY Zenon, <2>6 DEF ReceiveConnWindowUpdate
    <2>7. ASSUME NEW s \in StreamIds, NEW n \in Increments, ReceiveStreamWindowUpdate(s, n)
          PROVE  UNCHANGED sent
      BY Zenon, <2>7 DEF ReceiveStreamWindowUpdate
    <2>8. CASE ReceiveErroneous("FrameTooLarge") \/ TransportCloses
      BY Zenon, <2>8 DEF ReceiveErroneous, TransportCloses
    <2>9. QED
      BY <1>1, <2>1, <2>2, <2>3, <2>4, <2>5, <2>6, <2>7, <2>8, Zenon DEF Client
  <1>2. CASE RespondStep
    BY Zenon, <1>2 DEF RespondStep
  <1>3. CASE HandleEvent
    BY Zenon, <1>3 DEF HandleEvent, IgnoreEvent, HandleHeaders, HandleBodyChunk, HandleBodyEnd
  <1>4. CASE SendDataMaybe
    BY Zenon, <1>4 DEF SendDataMaybe, BeginPass, VisitStream, QueueHeaderFrame, QueueDataFrame,
       LeaveStream, BeginWriting, WriteHeaderFrame, EndPass
  <1>5. CASE \E s \in StreamIds : Handler(s)
    BY Zenon, <1>5 DEF Handler, Sends, write_response, write_body_chunk, write_body_end,
       DropEncoder, DropTaskSends
  <1>6. CASE UNCHANGED vars
    BY Zenon, <1>6 DEF vars
  <1>7. QED
    BY Zenon, <1>1, <1>2, <1>3, <1>4, <1>5, <1>6 DEF Next

\* A capacity that stays non-negative keeps what is sent within the grant.
LEMMA WithinWindow ==
    ASSUME NEW g \in Int, NEW x \in Nat, NEW n \in Nat, NEW c, c = g - x, ~(c - n < 0)
    PROVE  x + n <= g
  OBVIOUS

\* The server never sends a byte of DATA the peer has not allowed, on the
\* stream and on the connection, for any windows, frame sizes and bodies:
\* the budget of a pass may be wrong, but write_frame checks both windows.
THEOREM FlowControlHolds == Spec => FlowControl
  <1> DEFINE Within == \A s \in StreamIds : sent'[s] > sent[s] =>
                          sent'[s] <= granted'[s] /\ connSent' <= connGranted'
  <1>1. IInv /\ [Next]_vars => [Within]_vars
    <2> SUFFICES ASSUME IInv, [Next]_vars PROVE Within
      BY Zenon
    <2>1. CASE UNCHANGED sent
      BY <2>1 DEF WireType
    <2>2. CASE sent' # sent
      <3>1. WriteDataFrame
        BY Zenon, <2>2, OthersSendNothing
      <3>2. /\ ~Ends("panic: DATA without outgoing")
            /\ ~Ends("panic: stream capacity negative")
            /\ ~Ends("panic: connection capacity negative")
        BY Zenon, <2>2 DEF Ends, wireVars
      <3>3. PICK t, n : t = Head(frames).sid /\ n = Head(frames).len
        BY Zenon
      <3>4. /\ frames # <<>> /\ Outgoing(t)
            /\ ~(capacity[t] - n < 0) /\ ~(connCap - n < 0)
            /\ sent' = [sent EXCEPT ![t] = @ + n]
            /\ connSent' = connSent + n
            /\ UNCHANGED <<granted, connGranted>>
        BY Zenon, <3>1, <3>2, <3>3, DataFrameWritten DEF grantVars
      <3>5. t \in StreamIds /\ n \in Nat
        BY Zenon, <3>3, <3>4, FrameTaken
      <3>6. /\ capacity[t] = granted[t] - sent[t] /\ connCap = connGranted - connSent
            /\ capacity[t] \in Int /\ granted[t] \in Int /\ sent[t] \in Nat
            /\ connCap \in Int /\ connGranted \in Int /\ connSent \in Nat
        BY <3>4, <3>5 DEF WindowsAccounted, StreamsType, ConnType, WireType
      <3>7. sent[t] + n <= granted[t] /\ connSent + n <= connGranted
        BY Zenon, <3>4, <3>5, <3>6, WithinWindow
      <3>8. ASSUME NEW s \in StreamIds, s # t PROVE ~(sent'[s] > sent[s])
        BY <3>4, <3>5, <3>8 DEF WireType
      <3>9. sent'[t] = sent[t] + n
        BY Zenon, <3>4, <3>5 DEF WireType
      <3>10. QED
        BY Zenon, <3>4, <3>7, <3>8, <3>9
    <2>3. QED
      BY Zenon, <2>1, <2>2
  <1> HIDE DEF IInv
  <1>2. QED
    BY <1>1, Invariance, PTL DEF Spec, FlowControl

HIDE DEF TypeOK, IInv

-----------------------------------------------------------------------------
(* Queues: the event channel and the frames vector.                        *)

\* The queue holds something of stream s.
OfStream(q, s) == \E i \in 1 .. Len(q) : q[i].sid = s

\* The channel holds an event of s of kind k.
EventOf(q, s, k) == \E i \in 1 .. Len(q) : q[i].sid = s /\ q[i].ev = k

\* Among the events of a stream, Headers can only come first and BodyEnd last.
InOrder(q) ==
    \A i, j \in 1 .. Len(q) :
        i < j /\ q[i].sid = q[j].sid => q[i].ev # "BodyEnd" /\ q[j].ev # "Headers"

\* A HEADERS or CONTINUATION frame of s is queued.
HeaderOf(q, s) == \E i \in 1 .. Len(q) : q[i].sid = s /\ q[i].type # "DATA"

\* A frame of s is queued that only follows, or ends, its header block.
ClosedOf(q, s) == \E i \in 1 .. Len(q) : q[i].sid = s /\ (q[i].type = "DATA" \/ q[i].end)

\* The frame with END_STREAM of s is queued.
StreamEndOf(q, s) == \E i \in 1 .. Len(q) : q[i].sid = s /\ q[i].type = "DATA" /\ q[i].end

\* The frames of each stream are a header block, DATA, and nothing after
\* END_STREAM.
Framed(q) ==
    \A i, j \in 1 .. Len(q) : i < j /\ q[i].sid = q[j].sid =>
        /\ q[i].type = "DATA" => ~q[i].end
        /\ q[i].type = "DATA" \/ q[i].end => q[j].type = "DATA"

\* A header block is contiguous; only one of s may be open at the end.
Contiguous(q, s) ==
    \A i \in 1 .. Len(q) : q[i].type # "DATA" /\ ~q[i].end =>
        IF i < Len(q) THEN q[i + 1].sid = q[i].sid /\ q[i + 1].type # "DATA"
                      ELSE q[i].sid = s

\* Small facts of arithmetic and about short queues, for the provers.
LEMMA AddNothing ==
    ASSUME NEW a \in Nat, NEW n, n = 0
    PROVE  a + n = a
  OBVIOUS

\* A number that stays the same is not less.
LEMMA NotLess ==
    ASSUME NEW a \in Nat, NEW b, b = a
    PROVE  b \in Nat /\ b >= a
  OBVIOUS

\* A number up to another one is not beyond it.
LEMMA NotAfter ==
    ASSUME NEW a \in Nat, NEW b \in Nat, a <= b
    PROVE  ~(a > b)
  OBVIOUS

\* Natural numbers and what is within a window are integers.
LEMMA AreIntegers ==
    /\ \A n \in Nat : n \in Int
    /\ \A n \in 0 .. MaxWindow : n \in Int
  OBVIOUS

\* What was added is the difference.
LEMMA Difference ==
    ASSUME NEW a \in Nat, NEW n \in Nat, NEW b, b = a + n
    PROVE  b - a = n
  OBVIOUS

\* Bytes handed over add to those in the channel, in the sum of the bytes sent (x),
\* in frames (a), queued (y) and in the channel (b).
AddsUp(a, b, n) == \A x, y \in Nat : (x + a + y + b) + n = x + a + y + (b + n)

\* The sum holds for every number of bytes.
LEMMA MoreBytes ==
    \A a, b \in Int, n \in Nat : AddsUp(a, b, n)
  BY DEF AddsUp

\* Bytes that move from the channel to a queue leave the sum as it is.
SameSum(a, b, n) == \A x, y \in Nat : x + a + y + b = x + a + (y + n) + (b - n)

\* So for every number of bytes.
LEMMA MovedBytes ==
    \A a, b \in Int, n \in Nat : SameSum(a, b, n)
  BY DEF SameSum

\* The queue q is h, and then t, which is not empty.
Splits(q, h, t) == Head(q) = h /\ Tail(q) = t /\ Len(q) # 1 /\ q # <<>>

\* The first of three events, and the others.
LEMMA ThreeEvents ==
    ASSUME NEW x, NEW y, NEW z
    PROVE  Splits(<<x, y, z>>, x, <<y, z>>)
  BY DEF Splits

\* The first of two events, and the other.
LEMMA TwoEvents ==
    ASSUME NEW x, NEW y
    PROVE  Splits(<<x, y>>, x, <<y>>)
  BY DEF Splits

\* The events without bytes.
LEMMA AreEvents ==
    ASSUME NEW s \in StreamIds
    PROVE  /\ [sid |-> s, ev |-> "Headers", len |-> 0] \in Events
           /\ [sid |-> s, ev |-> "BodyEnd", len |-> 0] \in Events
  BY DEF Events

\* The only event.
LEMMA OneEvent ==
    ASSUME NEW x
    PROVE  Head(<<x>>) = x /\ Tail(<<x>>) = <<>> /\ <<x>> # <<>>
  OBVIOUS

\* Where the elements of a queue are after one is added at its end.
LEMMA AppendIndex ==
    ASSUME NEW E, NEW q \in Seq(E), NEW e \in E
    PROVE  /\ Append(q, e) \in Seq(E) /\ Len(q) \in Nat /\ Len(Append(q, e)) = Len(q) + 1
           /\ \A i \in 1 .. Len(q) : Append(q, e)[i] = q[i]
           /\ Append(q, e)[Len(q) + 1] = e
  OBVIOUS

\* Where they are after the first one is taken off.
LEMMA TailIndex ==
    ASSUME NEW E, NEW q \in Seq(E), q # <<>>
    PROVE  /\ Head(q) \in E /\ Tail(q) \in Seq(E) /\ Head(q) = q[1]
           /\ Len(q) \in Nat \ {0} /\ Len(Tail(q)) = Len(q) - 1
           /\ \A i \in 1 .. Len(Tail(q)) : i + 1 \in 1 .. Len(q) /\ Tail(q)[i] = q[i + 1]
           /\ 1 \in 1 .. Len(q)
           /\ \A i \in 1 .. Len(q) : i # 1 => /\ i - 1 \in 1 .. Len(Tail(q))
                                             /\ Tail(q)[i - 1] = q[i]
  OBVIOUS

\* A sequence of numbers is known by its elements.
LEMMA SameNumbers ==
    ASSUME NEW v \in Seq(Nat), NEW w \in Seq(Nat), Len(v) = Len(w),
           \A i \in 1 .. Len(v) : v[i] = w[i]
    PROVE  v = w
  BY SMTT(30)

\* What an element added to a queue adds to it.
LEMMA OfAppend ==
    ASSUME NEW E, NEW q \in Seq(E), NEW e \in E, NEW s
    PROVE  OfStream(Append(q, e), s) <=> OfStream(q, s) \/ e.sid = s
  BY AppendIndex DEF OfStream

\* What taking the first element off a queue leaves.
LEMMA OfTail ==
    ASSUME NEW E, NEW q \in Seq(E), q # <<>>, NEW s
    PROVE  OfStream(q, s) <=> OfStream(Tail(q), s) \/ Head(q).sid = s
  BY TailIndex DEF OfStream

\* An event sent adds itself to the channel, and nothing else.
LEMMA EventAppend ==
    ASSUME NEW q \in Seq(Events), NEW e \in Events, NEW s, NEW k
    PROVE  EventOf(Append(q, e), s, k) <=> EventOf(q, s, k) \/ (e.sid = s /\ e.ev = k)
  BY AppendIndex DEF EventOf

\* The events left when one is received.
LEMMA EventTail ==
    ASSUME NEW q \in Seq(Events), q # <<>>, NEW s, NEW k
    PROVE  EventOf(q, s, k) <=> EventOf(Tail(q), s, k) \/ (Head(q).sid = s /\ Head(q).ev = k)
  <1>1. ASSUME EventOf(q, s, k)
        PROVE  EventOf(Tail(q), s, k) \/ (Head(q).sid = s /\ Head(q).ev = k)
    <2> PICK i \in 1 .. Len(q) : q[i].sid = s /\ q[i].ev = k
      BY Zenon, <1>1 DEF EventOf
    <2>1. CASE i = 1
      BY Zenon, <2>1, TailIndex
    <2>2. CASE i # 1
      <3>1. i - 1 \in 1 .. Len(Tail(q)) /\ Tail(q)[i - 1] = q[i]
        BY Zenon, <2>2, TailIndex
      <3> QED BY Zenon, <3>1 DEF EventOf
    <2> QED BY Zenon, <2>1, <2>2
  <1>2. ASSUME EventOf(Tail(q), s, k) PROVE EventOf(q, s, k)
    BY <1>2, TailIndex DEF EventOf
  <1>3. ASSUME Head(q).sid = s, Head(q).ev = k PROVE EventOf(q, s, k)
    BY ZenonT(30), <1>3, TailIndex DEF EventOf
  <1> QED BY Zenon, <1>1, <1>2, <1>3

\* An event keeps the channel in order when no BodyEnd of its stream is
\* before it and, if it is Headers, nothing of its stream is.
LEMMA OrderAppend ==
    ASSUME NEW q \in Seq(Events), NEW e \in Events, InOrder(q),
           ~EventOf(q, e.sid, "BodyEnd"),
           e.ev = "Headers" => ~OfStream(q, e.sid)
    PROVE  InOrder(Append(q, e))
  BY AppendIndex DEF InOrder, EventOf, OfStream

\* What the channel can no longer hold of a stream whose event was received.
LEMMA OrderTail ==
    ASSUME NEW q \in Seq(Events), q # <<>>, InOrder(q)
    PROVE  /\ InOrder(Tail(q))
           /\ ~EventOf(Tail(q), Head(q).sid, "Headers")
           /\ Head(q).ev = "BodyEnd" => ~OfStream(Tail(q), Head(q).sid)
  BY TailIndex DEF InOrder, EventOf, OfStream

\* What a frame queued by send_data_maybe adds.
LEMMA FrameAppend ==
    ASSUME NEW q \in Seq(Frames), NEW f \in Frames, NEW s
    PROVE  /\ HeaderOf(Append(q, f), s) <=> HeaderOf(q, s) \/ (f.sid = s /\ f.type # "DATA")
           /\ ClosedOf(Append(q, f), s) <=>
                 ClosedOf(q, s) \/ (f.sid = s /\ (f.type = "DATA" \/ f.end))
           /\ StreamEndOf(Append(q, f), s) <=>
                 StreamEndOf(q, s) \/ (f.sid = s /\ f.type = "DATA" /\ f.end)
  <1> USE AppendIndex
  <1>1. HeaderOf(Append(q, f), s) <=> HeaderOf(q, s) \/ (f.sid = s /\ f.type # "DATA")
    BY DEF HeaderOf
  <1>2. ClosedOf(Append(q, f), s) <=>
           ClosedOf(q, s) \/ (f.sid = s /\ (f.type = "DATA" \/ f.end))
    BY DEF ClosedOf
  <1>3. StreamEndOf(Append(q, f), s) <=>
           StreamEndOf(q, s) \/ (f.sid = s /\ f.type = "DATA" /\ f.end)
    BY DEF StreamEndOf
  <1> QED BY Zenon, <1>1, <1>2, <1>3

\* The frames left when one is written.
LEMMA FrameTail ==
    ASSUME NEW q \in Seq(Frames), q # <<>>, NEW s
    PROVE  /\ HeaderOf(q, s) <=> HeaderOf(Tail(q), s) \/ (Head(q).sid = s /\ Head(q).type # "DATA")
           /\ ClosedOf(q, s) <=>
                 ClosedOf(Tail(q), s) \/ (Head(q).sid = s /\ (Head(q).type = "DATA" \/ Head(q).end))
           /\ StreamEndOf(q, s) <=>
                 \/ StreamEndOf(Tail(q), s)
                 \/ Head(q).sid = s /\ Head(q).type = "DATA" /\ Head(q).end
  <1> USE TailIndex
  <1>1. HeaderOf(q, s) <=> HeaderOf(Tail(q), s) \/ (Head(q).sid = s /\ Head(q).type # "DATA")
    BY DEF HeaderOf
  <1>2. ClosedOf(q, s) <=>
           ClosedOf(Tail(q), s) \/ (Head(q).sid = s /\ (Head(q).type = "DATA" \/ Head(q).end))
    BY DEF ClosedOf
  <1>3. StreamEndOf(q, s) <=>
           \/ StreamEndOf(Tail(q), s)
           \/ Head(q).sid = s /\ Head(q).type = "DATA" /\ Head(q).end
    BY DEF StreamEndOf
  <1> QED BY Zenon, <1>1, <1>2, <1>3

\* A frame keeps the order of its stream when the stream is not ended, nor,
\* for a header frame, its header block.
LEMMA FramedAppend ==
    ASSUME NEW q \in Seq(Frames), NEW f \in Frames, Framed(q),
           ~StreamEndOf(q, f.sid),
           f.type # "DATA" => ~ClosedOf(q, f.sid)
    PROVE  Framed(Append(q, f))
  BY AppendIndex DEF Framed, StreamEndOf, ClosedOf

\* What can no longer be queued of a stream whose frame was written.
LEMMA FramedTail ==
    ASSUME NEW q \in Seq(Frames), q # <<>>, Framed(q)
    PROVE  /\ Framed(Tail(q))
           /\ Head(q).type = "DATA" \/ Head(q).end => ~HeaderOf(Tail(q), Head(q).sid)
           /\ Head(q).type = "DATA" /\ Head(q).end => ~OfStream(Tail(q), Head(q).sid)
  <1> USE TailIndex
  <1>1. Framed(Tail(q))
    BY DEF Framed
  <1>2. Head(q).type = "DATA" \/ Head(q).end => ~HeaderOf(Tail(q), Head(q).sid)
    BY DEF Framed, HeaderOf
  <1>3. Head(q).type = "DATA" /\ Head(q).end => ~OfStream(Tail(q), Head(q).sid)
    BY DEF Framed, OfStream
  <1> QED BY Zenon, <1>1, <1>2, <1>3

\* The open header block of s goes on, or ends.
LEMMA BlockAppend ==
    ASSUME NEW q \in Seq(Frames), NEW f \in Frames, Contiguous(q, f.sid), f.type # "DATA",
           NEW s, f.end \/ s = f.sid
    PROVE  Contiguous(Append(q, f), s)
  BY AppendIndex DEF Contiguous

\* A frame belongs to a stream.
LEMMA FrameSid ==
    ASSUME NEW q \in Seq(Frames), NEW i \in 1 .. Len(q)
    PROVE  q[i].sid # NoStream
  <1>1. q[i] \in Frames
    OBVIOUS
  <1>2. q[i].sid \in StreamIds
    BY Zenon, <1>1 DEF Frames
  <1> QED BY Zenon, <1>2, ConnAssumption DEF NoStream

\* No header block is open: anything may follow, and any stream may be next.
LEMMA NoBlockAppend ==
    ASSUME NEW q \in Seq(Frames), Contiguous(q, NoStream)
    PROVE  /\ \A s : Contiguous(q, s)
           /\ \A f \in Frames : f.type = "DATA" => Contiguous(Append(q, f), NoStream)
  <1>1. \A i \in 1 .. Len(q) : q[i].sid # NoStream
    BY Zenon, FrameSid
  <1>2. ASSUME NEW s PROVE Contiguous(q, s)
    BY Zenon, <1>1 DEF Contiguous
  <1>3. ASSUME NEW f \in Frames, f.type = "DATA" PROVE Contiguous(Append(q, f), NoStream)
    BY <1>1, <1>3, AppendIndex DEF Contiguous
  <1> QED BY Zenon, <1>2, <1>3

\* Once part of a header block is written, the rest of it is next.
LEMMA BlockTail ==
    ASSUME NEW q \in Seq(Frames), q # <<>>, Contiguous(q, NoStream)
    PROVE  /\ Contiguous(Tail(q), NoStream)
           /\ Head(q).type # "DATA" /\ ~Head(q).end =>
                 /\ Tail(q) # <<>> /\ Head(Tail(q)).sid = Head(q).sid
                 /\ Head(Tail(q)).type # "DATA"
  <1>1. \A i \in 1 .. Len(q) : q[i].sid # NoStream
    BY Zenon, FrameSid
  <1>2. Contiguous(Tail(q), NoStream)
    BY TailIndex DEF Contiguous
  <1>3. ASSUME Head(q).type # "DATA", ~Head(q).end
        PROVE  1 < Len(q) /\ q[2].sid = Head(q).sid /\ q[2].type # "DATA"
    BY <1>1, <1>3, TailIndex DEF Contiguous
  <1>4. ASSUME 1 < Len(q) PROVE Tail(q) # <<>> /\ Head(Tail(q)) = q[2]
    BY <1>4
  <1> QED BY Zenon, <1>2, <1>3, <1>4

-----------------------------------------------------------------------------
(* Sums over a queue.                                                      *)

\* b is the sum of the numbers in w: there are prefix sums p that end in b, and
\* that are b as soon as only zeros follow.
PrefixSums(w, b, p) ==
    /\ p[0] = 0
    /\ p[Len(w)] = b
    /\ \A i \in 1 .. Len(w) : p[i] = p[i - 1] + w[i]
    /\ \A i \in 0 .. Len(w) : (\A k \in 1 .. Len(w) : i < k => w[k] = 0) => p[i] = b
Sum(w, b) == \E p \in [0 .. Len(w) -> Int] : PrefixSums(w, b, p)

\* Numbers that are all 0 add up to 0 and to nothing else.
LEMMA SumOfZeros ==
    ASSUME NEW w \in Seq(Nat), \A i \in 1 .. Len(w) : w[i] = 0
    PROVE  Sum(w, 0) /\ \A b : Sum(w, b) => b = 0
  <1>1. Len(w) \in Nat
    OBVIOUS
  <1>2. Sum(w, 0)
    <2> DEFINE p == [i \in 0 .. Len(w) |-> 0]
    <2>1. p \in [0 .. Len(w) -> Int] /\ p[0] = 0 /\ p[Len(w)] = 0
      BY <1>1
    <2>2. \A i \in 1 .. Len(w) : p[i] = p[i - 1] + w[i]
      BY <1>1
    <2>3. \A i \in 0 .. Len(w) : p[i] = 0
      BY Zenon
    <2> HIDE DEF p
    <2>4. PrefixSums(w, 0, p)
      BY Zenon, <2>1, <2>2, <2>3 DEF PrefixSums
    <2> QED BY Zenon, <2>1, <2>4 DEF Sum
  <1>3. ASSUME NEW b, Sum(w, b) PROVE b = 0
    <2>1. PICK p \in [0 .. Len(w) -> Int] : PrefixSums(w, b, p)
      BY Zenon, <1>3 DEF Sum
    <2>2. 0 \in 0 .. Len(w) /\ p[0] = 0
      BY <1>1, <2>1 DEF PrefixSums
    <2>3. p[0] = b
      BY Zenon, <2>1, <2>2 DEF PrefixSums
    <2> QED BY Zenon, <2>2, <2>3
  <1> QED BY Zenon, <1>2, <1>3

\* What a number at the end adds to the sum.
LEMMA SumAppend ==
    ASSUME NEW w \in Seq(Nat), NEW n \in Nat, NEW b \in Int, Sum(w, b)
    PROVE  Sum(Append(w, n), b + n)
  <1>0. PICK p \in [0 .. Len(w) -> Int] : PrefixSums(w, b, p)
    BY Zenon DEF Sum
  <1> PICK m \in Nat : m = Len(w)
    OBVIOUS
  <1> DEFINE v == Append(w, n)
             r == [i \in 0 .. m + 1 |-> IF i = m + 1 THEN b + n ELSE p[i]]
  <1>1. Len(v) = m + 1 /\ v[m + 1] = n /\ \A i \in 1 .. m : v[i] = w[i]
    BY AppendIndex
  <1>2. p[0] = 0 /\ p[m] = b /\ \A i \in 0 .. m : p[i] \in Int
    BY Zenon, <1>0 DEF PrefixSums
  <1>3. /\ r \in [0 .. m + 1 -> Int] /\ r[m + 1] = b + n
        /\ \A i \in 0 .. m : r[i] = p[i]
    BY <1>2
  <1> HIDE DEF r, v
  <1>4. r[0] = 0 /\ r[m] = b
    BY <1>2, <1>3
  <1>5. ASSUME NEW i \in 1 .. m + 1 PROVE r[i] = r[i - 1] + v[i]
    <2>1. CASE i = m + 1
      <3>1. i - 1 = m
        BY <2>1
      <3> QED BY Zenon, <1>1, <1>3, <1>4, <2>1, <3>1
    <2>2. CASE i # m + 1
      <3>1. i \in 1 .. m /\ i \in 0 .. m /\ i - 1 \in 0 .. m
        BY <2>2
      <3>2. p[i] = p[i - 1] + w[i]
        BY Zenon, <1>0, <3>1 DEF PrefixSums
      <3> QED BY Zenon, <1>1, <1>3, <3>1, <3>2
    <2> QED BY Zenon, <2>1, <2>2
  <1>6. ASSUME NEW i \in 0 .. m + 1, \A k \in 1 .. m + 1 : i < k => v[k] = 0 PROVE r[i] = b + n
    <2>1. CASE i = m + 1
      BY Zenon, <1>3, <2>1
    <2>2. CASE i # m + 1
      <3>1. i \in 0 .. m /\ m + 1 \in 1 .. m + 1 /\ i < m + 1
        BY <2>2
      <3>2. n = 0
        BY Zenon, <1>1, <1>6, <3>1
      <3>3. ASSUME NEW k \in 1 .. m, i < k PROVE w[k] = 0
        <4>1. k \in 1 .. m + 1
          OBVIOUS
        <4> QED BY Zenon, <1>1, <1>6, <3>3, <4>1
      <3>4. p[i] = b
        BY Zenon, <1>0, <3>1, <3>3 DEF PrefixSums
      <3>5. b + n = b
        BY <3>2
      <3> QED BY Zenon, <1>3, <3>1, <3>4, <3>5
    <2> QED BY Zenon, <2>1, <2>2
  <1>7. PrefixSums(v, b + n, r)
    BY Zenon, <1>1, <1>3, <1>4, <1>5, <1>6 DEF PrefixSums
  <1>8. Sum(v, b + n)
    BY Zenon, <1>1, <1>3, <1>7 DEF Sum
  <1> QED BY Zenon, <1>8 DEF v

\* What the first number, taken off, takes from the sum.
LEMMA SumTail ==
    ASSUME NEW w \in Seq(Nat), w # <<>>, NEW b \in Int, Sum(w, b)
    PROVE  Sum(Tail(w), b - Head(w))
  <1>0. PICK p \in [0 .. Len(w) -> Int] : PrefixSums(w, b, p)
    BY Zenon DEF Sum
  <1> DEFINE v == Tail(w)
  <1>1. Len(w) \in Nat \ {0} /\ Len(v) = Len(w) - 1 /\ Head(w) = w[1] /\ Head(w) \in Nat
        /\ \A i \in 1 .. Len(v) : v[i] = w[i + 1]
    BY Zenon, TailIndex
  <1> HIDE DEF v
  <1>2. PICK m \in Nat : Len(w) = m + 1 /\ Len(v) = m
    BY <1>1
  <1> PICK h \in Nat : h = Head(w)
    BY Zenon, <1>1
  <1> DEFINE r == [i \in 0 .. m |-> p[i + 1] - h]
  <1>3. ASSUME NEW i \in 0 .. m PROVE i + 1 \in 0 .. m + 1 /\ i + 1 \in 1 .. m + 1 /\ p[i + 1] \in Int
    <2>1. i + 1 \in 0 .. m + 1 /\ i + 1 \in 1 .. m + 1
      OBVIOUS
    <2> QED BY Zenon, <1>2, <2>1
  <1>4. p[1] = h /\ p[m + 1] = b
    <2>1. 1 \in 1 .. m + 1 /\ 1 - 1 = 0
      OBVIOUS
    <2>2. p[1] = p[0] + w[1] /\ p[0] = 0 /\ p[m + 1] = b
      BY Zenon, <1>0, <1>2, <2>1 DEF PrefixSums
    <2> QED BY <1>1, <2>2
  <1>5. r \in [0 .. m -> Int] /\ \A i \in 0 .. m : r[i] = p[i + 1] - h
    BY <1>3
  <1> HIDE DEF r
  <1>6. r[0] = 0 /\ r[m] = b - h
    <2>1. 0 \in 0 .. m /\ m \in 0 .. m /\ 0 + 1 = 1
      OBVIOUS
    <2>2. r[0] = p[1] - h /\ r[m] = p[m + 1] - h
      BY Zenon, <1>5, <2>1
    <2> QED BY <1>4, <2>2
  <1>7. ASSUME NEW i \in 1 .. m PROVE r[i] = r[i - 1] + v[i]
    <2>1. i \in 0 .. m /\ i - 1 \in 0 .. m /\ (i - 1) + 1 = i /\ i + 1 \in 1 .. m + 1
          /\ (i + 1) - 1 = i /\ i \in 1 .. m + 1
      OBVIOUS
    <2>2. p[i + 1] = p[i] + w[i + 1]
      BY Zenon, <1>0, <1>2, <2>1 DEF PrefixSums
    <2>3. p[i] \in Int /\ w[i + 1] \in Nat
      <3>1. p[i] \in Int
        BY <1>2, <2>1
      <3>2. i + 1 \in 1 .. Len(w)
        BY Zenon, <1>2, <2>1
      <3> QED BY SMTT(30), <3>1, <3>2
    <2>4. r[i] = p[i + 1] - h /\ r[i - 1] = p[i] - h
      BY Zenon, <1>5, <2>1
    <2>5. ASSUME NEW x \in Int, NEW y \in Nat PROVE (x + y) - h = (x - h) + y
      OBVIOUS
    <2>6. r[i] = (p[i] - h) + w[i + 1]
      BY Zenon, <2>2, <2>3, <2>4, <2>5
    <2> QED BY Zenon, <1>1, <1>2, <2>4, <2>6
  <1>8. ASSUME NEW i \in 0 .. m, \A k \in 1 .. m : i < k => v[k] = 0 PROVE r[i] = b - h
    <2>1. ASSUME NEW k \in 1 .. m + 1, i + 1 < k PROVE w[k] = 0
      <3> PICK j \in 1 .. m : k = j + 1 /\ i < j
        <4>1. k - 1 \in 1 .. m /\ k = (k - 1) + 1 /\ i < k - 1
          BY <2>1
        <4> QED BY Zenon, <4>1
      <3> QED BY Zenon, <1>1, <1>2, <1>8
    <2>2. p[i + 1] = b
      BY Zenon, <1>0, <1>2, <1>3, <2>1 DEF PrefixSums
    <2> QED BY Zenon, <1>5, <2>2
  <1>9. PrefixSums(v, b - h, r)
    BY Zenon, <1>2, <1>5, <1>6, <1>7, <1>8 DEF PrefixSums
  <1>10. Sum(v, b - h)
    BY Zenon, <1>2, <1>5, <1>9 DEF Sum
  <1> QED BY Zenon, <1>10 DEF v

\* The numbers in the frames and events stay integers.
LEMMA BytesAreNumbers ==
    ASSUME NEW a \in Int, NEW n \in Nat
    PROVE  a + n \in Int /\ a - n \in Int
  OBVIOUS

\* Nothing is left but what the last frame carries.
LEMMA LastBytes ==
    ASSUME NEW x \in Nat, NEW a \in Int, NEW n \in Nat, a - n = 0
    PROVE  a = n /\ x + a + 0 + 0 = x + n
  OBVIOUS

\* What is queued adds up to b bytes, where L says what each element carries.
Bytes(q, L, b) == Sum([i \in 1 .. Len(q) |-> L[q[i]]], b)

\* What an event, and a frame, carries of the body of s.
EventLoad(s) ==
    [e \in Events |-> IF e.sid = s /\ e.ev = "BodyChunk" THEN e.len ELSE 0]
FrameLoad(s) ==
    [f \in Frames |-> IF f.sid = s /\ f.type = "DATA" THEN f.len ELSE 0]

\* An event or a frame carries a natural number of bytes of a stream.
LEMMA LoadTypes ==
    ASSUME NEW s
    PROVE  EventLoad(s) \in [Events -> Nat] /\ FrameLoad(s) \in [Frames -> Nat]
  BY Zenon DEF EventLoad, FrameLoad, Events, Frames

\* An element added to a queue adds its bytes.
LEMMA BytesAppend ==
    ASSUME NEW E, NEW L \in [E -> Nat], NEW q \in Seq(E), NEW e \in E,
           NEW b \in Int, Bytes(q, L, b)
    PROVE  Bytes(Append(q, e), L, b + L[e])
  <1> DEFINE w == [i \in 1 .. Len(q) |-> L[q[i]]]
             w1 == [i \in 1 .. Len(Append(q, e)) |-> L[Append(q, e)[i]]]
             n == L[e]
  <1>1. n \in Nat /\ \A i \in 1 .. Len(q) : L[q[i]] \in Nat
    OBVIOUS
  <1>2. Len(q) \in Nat /\ w \in Seq(Nat) /\ Len(w) = Len(q)
    BY <1>1
  <1>3. w1 = Append(w, n)
    <2> HIDE DEF n
    <2>1. Len(Append(w, n)) = Len(Append(q, e)) /\ Len(Append(q, e)) = Len(q) + 1
      BY <1>1, <1>2, AppendIndex
    <2>2. ASSUME NEW i \in 1 .. Len(q) PROVE w1[i] = Append(w, n)[i]
      <3>1. i \in 1 .. Len(Append(q, e)) /\ Append(q, e)[i] = q[i]
        BY <1>2, <2>1, AppendIndex
      <3>2. Append(w, n)[i] = w[i]
        BY <1>1, <1>2, AppendIndex
      <3> QED BY Zenon, <3>1, <3>2
    <2>3. w1[Len(q) + 1] = n /\ Append(w, n)[Len(q) + 1] = n
      <3>1. Append(q, e)[Len(q) + 1] = e /\ Len(q) + 1 \in 1 .. Len(Append(q, e))
        BY <1>2, <2>1, AppendIndex
      <3>2. w1[Len(q) + 1] = n
        BY Zenon, <3>1 DEF n
      <3>3. Append(w, n)[Len(q) + 1] = n
        BY <1>1, <1>2, AppendIndex
      <3> QED BY Zenon, <3>2, <3>3
    <2>4. \A i \in 1 .. Len(q) + 1 : w1[i] = Append(w, n)[i]
      <3> HIDE DEF w, w1
      <3> QED BY <1>2, <2>2, <2>3
    <2>5. DOMAIN w1 = 1 .. Len(q) + 1 /\ DOMAIN Append(w, n) = 1 .. Len(q) + 1
      BY <1>1, <1>2, <2>1
    <2> QED BY <1>1, <1>2, <2>1, <2>4, <2>5
  <1>4. Sum(w, b)
    BY Zenon DEF Bytes
  <1>5. Sum(Append(w, n), b + n)
    <2> HIDE DEF w, n
    <2> QED BY Zenon, <1>1, <1>2, <1>4, SumAppend
  <1>6. Bytes(Append(q, e), L, b + n) <=> Sum(w1, b + n)
    BY Zenon DEF Bytes
  <1> QED BY Zenon, <1>3, <1>5, <1>6

\* An element taken off takes its bytes with it.
LEMMA BytesTail ==
    ASSUME NEW E, NEW L \in [E -> Nat], NEW q \in Seq(E), q # <<>>, NEW b \in Int, Bytes(q, L, b)
    PROVE  Bytes(Tail(q), L, b - L[Head(q)])
  <1> DEFINE w == [i \in 1 .. Len(q) |-> L[q[i]]]
             w1 == [i \in 1 .. Len(Tail(q)) |-> L[Tail(q)[i]]]
  <1>1. \A i \in 1 .. Len(q) : L[q[i]] \in Nat
    OBVIOUS
  <1>2. Len(q) \in Nat \ {0} /\ w \in Seq(Nat) /\ Len(w) = Len(q) /\ w # <<>>
    BY <1>1
  <1>3. w1 = Tail(w)
    <2>1. Len(Tail(w)) = Len(Tail(q)) /\ Len(Tail(q)) \in Nat /\ Tail(w) \in Seq(Nat)
      BY <1>2, TailIndex
    <2>2. ASSUME NEW i \in 1 .. Len(Tail(q)) PROVE w1[i] = Tail(w)[i]
      <3>1. i + 1 \in 1 .. Len(q) /\ Tail(q)[i] = q[i + 1]
        BY Zenon, TailIndex
      <3>2. Tail(w)[i] = w[i + 1]
        BY <1>2, <2>1, TailIndex
      <3> QED BY Zenon, <3>1, <3>2
    <2>3. \A i \in 1 .. Len(Tail(q)) : L[Tail(q)[i]] \in Nat
      BY TailIndex
    <2>4. w1 \in Seq(Nat) /\ Len(w1) = Len(Tail(q))
      BY <2>1, <2>3
    <2> HIDE DEF w, w1
    <2> QED BY Zenon, <2>1, <2>2, <2>4, SameNumbers
  <1>4. Sum(w, b)
    BY Zenon DEF Bytes
  <1>5. Head(w) = L[Head(q)]
    <2>1. Head(w) = w[1] /\ Head(q) = q[1] /\ 1 \in 1 .. Len(q)
      BY Zenon, <1>2, TailIndex
    <2> QED BY Zenon, <2>1
  <1>6. Sum(Tail(w), b - Head(w))
    <2> HIDE DEF w
    <2> QED BY Zenon, <1>2, <1>4, SumTail
  <1>7. Bytes(Tail(q), L, b - Head(w)) <=> Sum(w1, b - Head(w))
    BY Zenon DEF Bytes
  <1> QED BY Zenon, <1>3, <1>5, <1>6, <1>7

\* A queue without an element of a stream holds no bytes of it.
LEMMA BytesNone ==
    ASSUME NEW E, NEW L \in [E -> Nat], NEW q \in Seq(E), \A i \in 1 .. Len(q) : L[q[i]] = 0
    PROVE  Bytes(q, L, 0) /\ \A b : Bytes(q, L, b) => b = 0
  <1> DEFINE w == [i \in 1 .. Len(q) |-> L[q[i]]]
  <1>2. w \in Seq(Nat) /\ \A i \in 1 .. Len(w) : w[i] = 0
    OBVIOUS
  <1>3. Sum(w, 0) /\ \A b : Sum(w, b) => b = 0
    <2> HIDE DEF w
    <2> QED BY Zenon, <1>2, SumOfZeros
  <1> QED BY Zenon, <1>3 DEF Bytes

\* No chunk of s is in the channel, or no frame of s is queued.
LEMMA NoEventBytes ==
    ASSUME NEW q \in Seq(Events), NEW s, ~EventOf(q, s, "BodyChunk")
    PROVE  Bytes(q, EventLoad(s), 0) /\ \A b : Bytes(q, EventLoad(s), b) => b = 0
  <1>1. \A i \in 1 .. Len(q) : EventLoad(s)[q[i]] = 0
    BY DEF EventLoad, EventOf
  <1> QED BY <1>1, BytesNone, LoadTypes

\* No frame of a stream, no bytes of it.
LEMMA NoFrameBytes ==
    ASSUME NEW q \in Seq(Frames), NEW s, ~OfStream(q, s)
    PROVE  Bytes(q, FrameLoad(s), 0) /\ \A b : Bytes(q, FrameLoad(s), b) => b = 0
  <1>1. \A i \in 1 .. Len(q) : FrameLoad(s)[q[i]] = 0
    BY DEF FrameLoad, OfStream
  <1> QED BY <1>1, BytesNone, LoadTypes

-----------------------------------------------------------------------------
(* The inductive invariant.                                                *)

HeadersEvent(s) == [sid |-> s, ev |-> "Headers", len |-> 0]
ChunkEvent(s, n) == [sid |-> s, ev |-> "BodyChunk", len |-> n]
EndEvent(s) == [sid |-> s, ev |-> "BodyEnd", len |-> 0]

\* What the task of a dropped encoder has left to send, and what process_frame
\* itself has.
DropQueue(s) ==
    /\ dropq[s] \in {<<>>, <<HeadersEvent(s), EndEvent(s)>>, <<EndEvent(s)>>}
    /\ dropq[s] # <<>> => enc[s] = "ResponseDone"
SelfQueue(s, n) ==
    /\ selfq \in {<<HeadersEvent(s), ChunkEvent(s, n), EndEvent(s)>>,
                  <<ChunkEvent(s, n), EndEvent(s)>>, <<EndEvent(s)>>}
    /\ enc[s] = "None"
    /\ s <= lastSid
Producers ==
    /\ \A s \in StreamIds : DropQueue(s)
    /\ IF pc = "respond" THEN \E s \in StreamIds, n \in Nat : SelfQueue(s, n) ELSE selfq = <<>>

\* Whoever answers on s has the response headers, or the end of the body,
\* still to send.
Answers(s) == selfq # <<>> /\ Head(selfq).sid = s
OwesHeaders(s) ==
    \/ enc[s] = "ExpectResponseHeaders"
    \/ dropq[s] # <<>> /\ Head(dropq[s]).ev = "Headers"
    \/ Answers(s) /\ Head(selfq).ev = "Headers"
OwesEnd(s) ==
    \/ enc[s] \in {"ExpectResponseHeaders", "ExpectResponseBody"}
    \/ dropq[s] # <<>>
    \/ Answers(s)

\* What is still to be sent, what is in the channel and what the loop has
\* seen of a response are three parts of Headers, BodyChunk*, BodyEnd.
Order(s) ==
    /\ OwesHeaders(s) => /\ ~OfStream(events, s)
                         /\ Outgoing(s) => headers[s] = "WaitingForHeaders"
    /\ OwesEnd(s) => /\ ~EventOf(events, s, "BodyEnd")
                     /\ wire[s] # "ended"
                     /\ Outgoing(s) => body[s] = "StillReceiving"
    /\ EventOf(events, s, "Headers") /\ Outgoing(s) => headers[s] = "WaitingForHeaders"
    /\ OfStream(events, s) /\ Outgoing(s) => body[s] = "StillReceiving"

\* Nothing has happened yet on a stream beyond last_stream_id.
Untouched(s) ==
    s > lastSid => /\ streams[s] = "Absent" /\ enc[s] = "None" /\ dropq[s] = <<>>
                   /\ wire[s] = "idle" /\ sent[s] = 0 /\ handed[s] = 0
                   /\ ~OfStream(events, s)

\* The queued frames continue what is on the wire, and the stream's own state
\* says how far they go.
Framing(s) ==
    /\ HeaderOf(frames, s) => wire[s] \in {"idle", "headers"}
    /\ OfStream(frames, s) => Outgoing(s) /\ (wire[s] = "body" \/ HeaderOf(frames, s))
    /\ Outgoing(s) /\ headers[s] # "WroteAll" =>
          wire[s] \in {"idle", "headers"} /\ ~ClosedOf(frames, s)
    /\ Outgoing(s) /\ headers[s] = "WroteAll" => wire[s] = "body" \/ HeaderOf(frames, s)
    /\ StreamEndOf(frames, s) => body[s] = "DoneSending"

\* No byte of a response is lost between the handler and the wire.
Conserved(s) ==
    Outgoing(s) =>
        /\ \E a, b \in Int : /\ Bytes(frames, FrameLoad(s), a)
                             /\ Bytes(events, EventLoad(s), b)
                             /\ handed[s] = sent[s] + a + queued[s] + b
        /\ body[s] = "DoneSending" => queued[s] = 0

Complete(s) == wire[s] = "ended" => sent[s] = handed[s]

StreamInv(s) == Order(s) /\ Untouched(s) /\ Framing(s) /\ Conserved(s) /\ Complete(s)

\* Where a pass is.
PassInv ==
    /\ pc \in {"loop", "respond"} => frames = <<>>
    /\ pc \in {"headers", "body"} => Outgoing(cur)
    /\ pc = "headers" => headers[cur] \in {"WroteNone", "WroteSome"}
    /\ pc = "body" => headers[cur] = "WroteAll"
    /\ Framed(frames)
    /\ Contiguous(frames, IF pc = "headers" THEN cur ELSE NoStream)

\* A header block that is half written is at the front of the frames vector.
OpenBlock(s) ==
    wire[s] = "headers" => /\ pc = "write" /\ frames # <<>>
                           /\ Head(frames).sid = s /\ Head(frames).type # "DATA"

OInv ==
    /\ InOrder(events)
    /\ Producers
    /\ PassInv
    /\ \A s \in StreamIds : OpenBlock(s)
    /\ \A s \in StreamIds : StreamInv(s)
    /\ EventsInOrder

-----------------------------------------------------------------------------
(* What a step leaves alone.                                               *)

\* Stream r keeps its state, its events and its frames.
SameState(r) ==
    /\ Outgoing(r)' <=> Outgoing(r)
    /\ streams[r] = "Absent" => streams'[r] = "Absent"
    /\ headers'[r] = headers[r] /\ body'[r] = body[r] /\ queued'[r] = queued[r]
    /\ handed'[r] = handed[r] /\ wire'[r] = wire[r] /\ sent'[r] = sent[r]
SameDebts(r) ==
    /\ enc'[r] = enc[r] /\ dropq'[r] = dropq[r]
    /\ OwesHeaders(r)' <=> OwesHeaders(r)
    /\ OwesEnd(r)' <=> OwesEnd(r)
SameEvents(r) ==
    /\ OfStream(events', r) <=> OfStream(events, r)
    /\ EventOf(events', r, "Headers") <=> EventOf(events, r, "Headers")
    /\ EventOf(events', r, "BodyEnd") <=> EventOf(events, r, "BodyEnd")
    /\ \A b \in Int : Bytes(events, EventLoad(r), b) => Bytes(events', EventLoad(r), b)
SameFrames(r) ==
    /\ OfStream(frames', r) <=> OfStream(frames, r)
    /\ HeaderOf(frames', r) <=> HeaderOf(frames, r)
    /\ ClosedOf(frames', r) <=> ClosedOf(frames, r)
    /\ StreamEndOf(frames', r) <=> StreamEndOf(frames, r)
    /\ \A b \in Int : Bytes(frames, FrameLoad(r), b) => Bytes(frames', FrameLoad(r), b)

\* Then it keeps its part of the invariant.
LEMMA OtherStream ==
    ASSUME NEW r \in StreamIds, StreamInv(r), SameState(r), SameDebts(r), SameEvents(r),
           SameFrames(r), lastSid \in Nat, lastSid' \in Nat, lastSid' >= lastSid
    PROVE  StreamInv(r)'
  <1>1. Order(r)'
    BY Zenon DEF StreamInv, Order, SameState, SameDebts, SameEvents
  <1>2. Untouched(r)'
    <2>1. r > lastSid' => r > lastSid
      BY ConnAssumption
    <2> QED BY Zenon, <2>1 DEF StreamInv, Untouched, SameState, SameDebts, SameEvents
  <1>3. Framing(r)'
    BY Zenon DEF StreamInv, Framing, SameState, SameFrames
  <1>4. Conserved(r)'
    <2> SUFFICES ASSUME Outgoing(r) PROVE Conserved(r)'
      BY Zenon DEF Conserved, SameState
    <2> PICK a \in Int, b \in Int : /\ Bytes(frames, FrameLoad(r), a)
                                    /\ Bytes(events, EventLoad(r), b)
                                    /\ handed[r] = sent[r] + a + queued[r] + b
      BY Zenon DEF StreamInv, Conserved
    <2>1. Bytes(frames', FrameLoad(r), a) /\ Bytes(events', EventLoad(r), b)
      BY Zenon DEF SameEvents, SameFrames
    <2>2. handed'[r] = sent'[r] + a + queued'[r] + b
      BY Zenon DEF SameState
    <2>3. body'[r] = "DoneSending" => queued'[r] = 0
      BY Zenon DEF StreamInv, Conserved, SameState
    <2>4. Bytes(frames, FrameLoad(r), a)' /\ Bytes(events, EventLoad(r), b)'
      BY Zenon, <2>1
    <2> QED BY Zenon, <2>2, <2>3, <2>4 DEF Conserved
  <1>5. Complete(r)'
    BY Zenon DEF StreamInv, Complete, SameState
  <1> QED BY Zenon, <1>1, <1>2, <1>3, <1>4, <1>5 DEF StreamInv

\* The channel, or the frames vector, stays as it is for r.
LEMMA EventsKept ==
    ASSUME events' = events, NEW r
    PROVE  SameEvents(r)
  BY Zenon DEF SameEvents

\* The frames vector is untouched.
LEMMA FramesKept ==
    ASSUME frames' = frames, NEW r
    PROVE  SameFrames(r)
  BY Zenon DEF SameFrames

\* An event of another stream is sent.
LEMMA EventOfOther ==
    ASSUME NEW e \in Events, events \in Seq(Events), events' = Append(events, e),
           NEW r, e.sid # r
    PROVE  SameEvents(r)
  <1>1. EventLoad(r)[e] = 0
    BY Zenon DEF EventLoad
  <1>2. ASSUME NEW b \in Int, Bytes(events, EventLoad(r), b)
        PROVE  Bytes(events', EventLoad(r), b)
    <2>1. Bytes(Append(events, e), EventLoad(r), b + EventLoad(r)[e])
      BY Zenon, <1>2, BytesAppend, LoadTypes
    <2> QED BY <1>1, <2>1
  <1> QED BY Zenon, <1>2, OfAppend, EventAppend DEF SameEvents

\* An event of another stream is received.
LEMMA TakenFromOther ==
    ASSUME events \in Seq(Events), events # <<>>, events' = Tail(events),
           NEW r, Head(events).sid # r
    PROVE  SameEvents(r)
  <1>1. Head(events) \in Events
    OBVIOUS
  <1>2. EventLoad(r)[Head(events)] = 0
    BY Zenon, <1>1 DEF EventLoad
  <1>3. ASSUME NEW b \in Int, Bytes(events, EventLoad(r), b)
        PROVE  Bytes(events', EventLoad(r), b)
    <2>1. Bytes(Tail(events), EventLoad(r), b - EventLoad(r)[Head(events)])
      BY Zenon, <1>3, BytesTail, LoadTypes
    <2> QED BY <1>2, <2>1
  <1> QED BY Zenon, <1>3, OfTail, EventTail DEF SameEvents

\* A frame of another stream is queued.
LEMMA FrameOfOther ==
    ASSUME NEW f \in Frames, frames \in Seq(Frames), frames' = Append(frames, f),
           NEW r, f.sid # r
    PROVE  SameFrames(r)
  <1>1. FrameLoad(r)[f] = 0
    BY Zenon DEF FrameLoad
  <1>2. ASSUME NEW b \in Int, Bytes(frames, FrameLoad(r), b)
        PROVE  Bytes(frames', FrameLoad(r), b)
    <2>1. Bytes(Append(frames, f), FrameLoad(r), b + FrameLoad(r)[f])
      BY Zenon, <1>2, BytesAppend, LoadTypes
    <2> QED BY <1>1, <2>1
  <1> QED BY Zenon, <1>2, OfAppend, FrameAppend DEF SameFrames

\* A frame of another stream is written.
LEMMA WrittenOfOther ==
    ASSUME frames \in Seq(Frames), frames # <<>>, frames' = Tail(frames),
           NEW r, Head(frames).sid # r
    PROVE  SameFrames(r)
  <1>1. Head(frames) \in Frames
    OBVIOUS
  <1>2. FrameLoad(r)[Head(frames)] = 0
    BY Zenon, <1>1 DEF FrameLoad
  <1>3. ASSUME NEW b \in Int, Bytes(frames, FrameLoad(r), b)
        PROVE  Bytes(frames', FrameLoad(r), b)
    <2>1. Bytes(Tail(frames), FrameLoad(r), b - FrameLoad(r)[Head(frames)])
      BY Zenon, <1>3, BytesTail, LoadTypes
    <2> QED BY <1>2, <2>1
  <1> QED BY Zenon, <1>3, OfTail, FrameTail DEF SameFrames

-----------------------------------------------------------------------------
(* The frames of the client.                                               *)

\* A step that only moves windows, or closes the client's half of a stream.
LEMMA QuietStep ==
    ASSUME OInv, IInv,
           UNCHANGED <<headers, body, queued, lastSid, pc, cur, frames, selfq, events,
                       enc, dropq, handed, wire, sent>>,
           \A r \in StreamIds : /\ Outgoing(r)' <=> Outgoing(r)
                                /\ streams[r] = "Absent" => streams'[r] = "Absent",
           EventsInOrder'
    PROVE  OInv'
  <1>1. lastSid \in Nat /\ (pc \in {"headers", "body"} => cur \in StreamIds)
    BY Zenon DEF IInv, TypeOK, ConnType, LoopType
  <1>2. InOrder(events)' /\ Producers'
    BY Zenon DEF OInv, Producers, DropQueue, SelfQueue
  <1>3. PassInv'
    BY Zenon, <1>1 DEF OInv, PassInv
  <1>4. ASSUME NEW r \in StreamIds PROVE OpenBlock(r)' /\ StreamInv(r)'
    <2>1. OpenBlock(r)'
      BY Zenon DEF OInv, OpenBlock
    <2>2. SameState(r) /\ SameDebts(r)
      BY Zenon DEF SameState, SameDebts, OwesHeaders, OwesEnd, Answers
    <2>3. lastSid' \in Nat /\ lastSid' >= lastSid
      BY Zenon, <1>1, NotLess
    <2>4. StreamInv(r)
      BY Zenon DEF OInv
    <2>5. StreamInv(r)'
      BY Zenon, <1>1, <2>2, <2>3, <2>4, OtherStream, EventsKept, FramesKept
    <2> QED BY Zenon, <2>1, <2>5
  <1> QED BY Zenon, <1>2, <1>3, <1>4 DEF OInv

\* The loop ends, but not in one of the panics that are to be excluded.
LEMMA EndsO ==
    ASSUME OInv, IInv, NEW why, Ends(why),
           why \notin {"panic: headers too late", "panic: piece after done",
                       "panic: body end twice", "panic: DATA without outgoing"}
    PROVE  OInv'
  <1>1. /\ UNCHANGED <<streams, headers, body, queued, lastSid, pc, cur, frames, selfq,
                       events, enc, dropq, handed, wire, sent>>
        /\ exit' = why
    BY Zenon DEF Ends, outVars, connVars, passVars, taskVars, wireVars
  <1>2. EventsInOrder'
    BY Zenon, <1>1 DEF EventsInOrder
  <1>3. \A r \in StreamIds : /\ Outgoing(r)' <=> Outgoing(r)
                             /\ streams[r] = "Absent" => streams'[r] = "Absent"
    BY Zenon, <1>1 DEF Outgoing
  <1> QED BY Zenon, <1>1, <1>2, <1>3, QuietStep

\* Nothing is queued while the loop is at its select!.
LEMMA NothingQueued ==
    ASSUME frames = <<>>, NEW s
    PROVE  ~OfStream(frames, s) /\ ~HeaderOf(frames, s) /\ ~ClosedOf(frames, s)
           /\ ~StreamEndOf(frames, s)
  BY DEF OfStream, HeaderOf, ClosedOf, StreamEndOf

\* A stream is removed, by either side, between two passes.
LEMMA RemovedO ==
    ASSUME OInv, IInv, pc = "loop", NEW s \in StreamIds, RemoveStream(s), WireReset(s),
           UNCHANGED <<pc, cur, frames, selfq, events, enc, dropq, handed, sent, exit>>,
           lastSid' \in Nat, lastSid' >= lastSid
    PROVE  OInv'
  <1>1. lastSid \in Nat /\ streams \in [StreamIds -> StreamStates] /\ frames = <<>>
        /\ selfq = <<>> /\ wire \in [StreamIds -> {"idle", "headers", "body", "ended", "reset"}]
    BY Zenon DEF IInv, TypeOK, ConnType, StreamsType, WireType, OInv, PassInv, Producers
  <1>2. /\ streams' = [streams EXCEPT ![s] = "Absent"]
        /\ headers' = [headers EXCEPT ![s] = "WaitingForHeaders"]
        /\ body' = [body EXCEPT ![s] = "StillReceiving"]
        /\ queued' = [queued EXCEPT ![s] = 0]
        /\ wire' = [wire EXCEPT ![s] = IF streams[s] = "Absent" THEN @ ELSE "reset"]
    BY Zenon DEF RemoveStream, DropOutgoing, SetOutgoing, WireReset
  <1>3. InOrder(events)' /\ EventsInOrder'
    BY Zenon DEF OInv, EventsInOrder
  <1>4. Producers'
    BY Zenon, <1>1 DEF OInv, Producers, DropQueue
  <1>5. PassInv'
    BY Zenon, <1>1 DEF OInv, PassInv
  <1>6. ASSUME NEW r \in StreamIds, r # s PROVE StreamInv(r)' /\ OpenBlock(r)'
    <2>1. SameState(r)
      BY Zenon, <1>1, <1>2, <1>6 DEF SameState, Outgoing, IInv, TypeOK, StreamsType
    <2>2. SameDebts(r)
      BY Zenon DEF SameDebts, OwesHeaders, OwesEnd, Answers
    <2>3. StreamInv(r) /\ OpenBlock(r) /\ wire'[r] = wire[r]
      BY Zenon, <1>1, <1>2, <1>6 DEF OInv
    <2>4. StreamInv(r)'
      BY Zenon, <1>1, <2>1, <2>2, <2>3, OtherStream, EventsKept, FramesKept
    <2>5. OpenBlock(r)'
      BY Zenon, <2>3 DEF OpenBlock
    <2> QED BY Zenon, <2>4, <2>5
  <1>7. StreamInv(s)' /\ OpenBlock(s)'
    <2>1. StreamInv(s) /\ OpenBlock(s)
      BY Zenon DEF OInv
    <2>2. /\ streams'[s] = "Absent" /\ ~Outgoing(s)'
          /\ wire'[s] \in {wire[s], "reset"}
          /\ streams[s] = "Absent" => wire'[s] = wire[s]
          /\ wire[s] # "headers"
      BY Zenon, <1>1, <1>2, <2>1 DEF Outgoing, OpenBlock
    <2>3. OwesHeaders(s)' = OwesHeaders(s) /\ OwesEnd(s)' = OwesEnd(s)
      BY Zenon DEF OwesHeaders, OwesEnd, Answers
    <2>4. Order(s)'
      BY Zenon, <2>1, <2>2, <2>3 DEF StreamInv, Order
    <2>5. Untouched(s)'
      <3>1. s > lastSid' => s > lastSid
        BY <1>1, ConnAssumption
      <3> QED BY Zenon, <2>1, <2>2, <3>1 DEF StreamInv, Untouched
    <2>6. Framing(s)'
      <3>1. frames' = <<>>
        BY Zenon, <1>1
      <3>2. ~OfStream(frames, s)' /\ ~HeaderOf(frames, s)' /\ ~StreamEndOf(frames, s)'
        BY <3>1 DEF OfStream, HeaderOf, StreamEndOf
      <3> QED BY Zenon, <2>2, <3>2 DEF Framing
    <2>7. Conserved(s)' /\ Complete(s)' /\ OpenBlock(s)'
      BY Zenon, <2>1, <2>2 DEF StreamInv, Conserved, Complete, OpenBlock
    <2> QED BY Zenon, <2>4, <2>5, <2>6, <2>7 DEF StreamInv
  <1>8. \A r \in StreamIds : OpenBlock(r)' /\ StreamInv(r)'
    BY Zenon, <1>6, <1>7
  <1> QED BY Zenon, <1>3, <1>4, <1>5, <1>8 DEF OInv

\* The server resets a stream.
LEMMA ResetByServerO ==
    ASSUME OInv, IInv, pc = "loop", NEW s \in StreamIds, ResetByServer(s)
    PROVE  OInv'
  <1>1. /\ RemoveStream(s) /\ WireReset(s) /\ lastSid' = lastSid
        /\ UNCHANGED <<pc, cur, frames, selfq, events, enc, dropq, handed, sent, exit>>
    BY Zenon DEF ResetByServer, rst, connVars, passVars, taskVars
  <1>2. lastSid \in Nat
    BY Zenon DEF IInv, TypeOK, ConnType
  <1> QED BY <1>1, <1>2, RemovedO

\* A request is accepted on a new stream, by a handler or by process_frame.
LEMMA OpenedO ==
    ASSUME OInv, IInv, pc = "loop", NEW s \in StreamIds, s > lastSid,
           streams'[s] \in {"Open", "HalfClosedRemote"},
           \A r \in StreamIds : r # s => streams'[r] = streams[r],
           mk_stream_outgoing(s), RecordSid(s),
           UNCHANGED <<cur, frames, exit, events, dropq, handed, wire, sent>>,
           \/ /\ enc' = [enc EXCEPT ![s] = "ExpectResponseHeaders"]
              /\ UNCHANGED <<selfq, pc>>
           \/ /\ \E n \in Nat : selfq' = <<HeadersEvent(s), ChunkEvent(s, n), EndEvent(s)>>
              /\ pc' = "respond" /\ UNCHANGED enc
    PROVE  OInv'
  <1>1. lastSid \in Nat /\ streams \in [StreamIds -> StreamStates] /\ frames = <<>>
        /\ selfq = <<>> /\ enc \in [StreamIds -> EncoderStates] /\ s \in Nat
        /\ lastSid' = s /\ Len(frames) = 0
    BY Zenon, ConnAssumption
    DEF IInv, TypeOK, ConnType, StreamsType, TaskType, OInv, PassInv, Producers, RecordSid
  <1>2. /\ headers' = [headers EXCEPT ![s] = "WaitingForHeaders"]
        /\ body' = [body EXCEPT ![s] = "StillReceiving"]
        /\ queued' = [queued EXCEPT ![s] = 0]
    BY Zenon DEF mk_stream_outgoing, SetOutgoing
  <1>3. StreamInv(s) /\ OpenBlock(s) /\ DropQueue(s)
    BY Zenon DEF OInv, Producers
  <1>4. /\ enc[s] = "None" /\ dropq[s] = <<>> /\ wire[s] = "idle" /\ sent[s] = 0
        /\ handed[s] = 0 /\ ~OfStream(events, s)
    BY Zenon, <1>3 DEF StreamInv, Untouched
  <1>5. InOrder(events)' /\ EventsInOrder'
    BY Zenon DEF OInv, EventsInOrder
  <1>6. Producers'
    <2>1. ASSUME NEW r \in StreamIds PROVE DropQueue(r)'
      <3>1. DropQueue(r) /\ (r # s => enc'[r] = enc[r]) /\ dropq' = dropq
        BY Zenon, <1>1 DEF OInv, Producers
      <3> QED BY Zenon, <1>4, <3>1 DEF DropQueue
    <2>2. CASE UNCHANGED <<selfq, pc>>
      BY Zenon, <1>1, <2>1, <2>2 DEF Producers
    <2>3. CASE /\ \E n \in Nat : selfq' = <<HeadersEvent(s), ChunkEvent(s, n), EndEvent(s)>>
               /\ pc' = "respond" /\ UNCHANGED enc
      BY <1>1, <1>4, <2>1, <2>3 DEF Producers, SelfQueue
    <2> QED BY Zenon, <2>2, <2>3
  <1>7. PassInv'
    BY Zenon, <1>1 DEF OInv, PassInv
  <1>8. ASSUME NEW r \in StreamIds, r # s PROVE StreamInv(r)' /\ OpenBlock(r)'
    <2>1. SameState(r)
      BY ZenonT(30), <1>1, <1>2, <1>8 DEF SameState, Outgoing, IInv, TypeOK, StreamsType
    <2>2. SameDebts(r)
      BY <1>1, <1>8 DEF SameDebts, OwesHeaders, OwesEnd, Answers, HeadersEvent
    <2>3. StreamInv(r) /\ OpenBlock(r) /\ lastSid' \in Nat /\ lastSid' >= lastSid
      BY <1>1 DEF OInv
    <2>4. StreamInv(r)'
      BY Zenon, <1>1, <2>1, <2>2, <2>3, OtherStream, EventsKept, FramesKept
    <2>5. OpenBlock(r)'
      BY Zenon, <2>3 DEF OpenBlock
    <2> QED BY Zenon, <2>4, <2>5
  <1>9. StreamInv(s)' /\ OpenBlock(s)'
    <2>1. /\ headers'[s] = "WaitingForHeaders" /\ body'[s] = "StillReceiving" /\ queued'[s] = 0
          /\ wire'[s] = "idle" /\ sent'[s] = 0 /\ handed'[s] = 0 /\ Outgoing(s)'
      BY Zenon, <1>2, <1>4 DEF Outgoing, IInv, TypeOK, StreamsType
    <2>2. ~OfStream(events, s)'
      BY Zenon, <1>4
    <2>3. ~EventOf(events, s, "Headers") /\ ~EventOf(events, s, "BodyEnd")
          /\ ~EventOf(events, s, "BodyChunk")
      BY Zenon, <1>4 DEF OfStream, EventOf
    <2>4. Order(s)'
      BY Zenon, <2>1, <2>2, <2>3 DEF Order
    <2>5. Untouched(s)'
      BY <1>1 DEF Untouched
    <2>6. Framing(s)'
      <3>1. frames' = <<>>
        BY Zenon, <1>1
      <3>2. ~OfStream(frames, s)' /\ ~HeaderOf(frames, s)' /\ ~StreamEndOf(frames, s)'
            /\ ~ClosedOf(frames, s)'
        BY SMTT(30), <3>1 DEF OfStream, HeaderOf, StreamEndOf, ClosedOf
      <3> QED BY Zenon, <2>1, <3>2 DEF Framing
    <2>7. Conserved(s)'
      <3>1. events \in Seq(Events) /\ frames \in Seq(Frames) /\ ~OfStream(frames, s)
        BY Zenon, <1>1, NothingQueued DEF IInv, TypeOK, TaskType, LoopType
      <3>2. Bytes(events, EventLoad(s), 0) /\ Bytes(frames, FrameLoad(s), 0)
        BY Zenon, <2>3, <3>1, NoEventBytes, NoFrameBytes
      <3>3. Bytes(events, EventLoad(s), 0)' /\ Bytes(frames, FrameLoad(s), 0)'
        BY Zenon, <3>2
      <3> QED BY <2>1, <3>3 DEF Conserved
    <2>8. Complete(s)' /\ OpenBlock(s)'
      BY Zenon, <2>1 DEF Complete, OpenBlock
    <2> QED BY Zenon, <2>4, <2>5, <2>6, <2>7, <2>8 DEF StreamInv
  <1>10. \A r \in StreamIds : OpenBlock(r)' /\ StreamInv(r)'
    BY Zenon, <1>8, <1>9
  <1> QED BY Zenon, <1>5, <1>6, <1>7, <1>10 DEF OInv

\* HEADERS of a new stream, whatever comes of it.
LEMMA ReceiveHeadersO ==
    ASSUME OInv, IInv, NEW s \in StreamIds, NEW es \in BOOLEAN, NEW block \in Blocks,
           ReceiveHeaders(s, es, block)
    PROVE  OInv'
  <1>1. pc = "loop" /\ lastSid \in Nat /\ s \in Nat
        /\ streams \in [StreamIds -> StreamStates]
    BY Zenon, ConnAssumption DEF ReceiveHeaders, Receives, IInv, TypeOK, ConnType, StreamsType
  <1>2. \/ Ends("ClientSidShouldBeOdd")
        \/ Ends("ClientSidShouldBeNumericallyIncreasing")
        \/ Ends("StreamClosed")
        \/ Ends("HpackDecodingError")
        \/ ResetByServer(s)
        \/ s > lastSid /\ AcceptRequest(s, es)
        \/ /\ s > lastSid
           /\ rst(s) /\ RecordSid(s)
           /\ UNCHANGED <<pc, cur, frames, selfq, events, enc, dropq, handed, exit>>
        \/ s > lastSid /\ \E n \in ChunkLens : RespondWithStatus(s, n)
    <2>1. ~(s < lastSid) /\ s # lastSid => s > lastSid
      BY <1>1
    <2> QED BY Zenon, <2>1 DEF ReceiveHeaders, passVars, taskVars
  <1>3. CASE \/ Ends("ClientSidShouldBeOdd")
             \/ Ends("ClientSidShouldBeNumericallyIncreasing")
             \/ Ends("StreamClosed")
             \/ Ends("HpackDecodingError")
    BY Zenon, <1>3, EndsO
  <1>4. CASE ResetByServer(s)
    BY Zenon, <1>1, <1>4, ResetByServerO
  <1>5. CASE s > lastSid /\ AcceptRequest(s, es)
    <2>1. /\ streams' = [streams EXCEPT ![s] = IF es THEN "HalfClosedRemote" ELSE "Open"]
          /\ mk_stream_outgoing(s) /\ RecordSid(s)
          /\ enc' = [enc EXCEPT ![s] = "ExpectResponseHeaders"]
          /\ UNCHANGED <<cur, frames, exit, events, dropq, handed, wire, sent, selfq, pc>>
      BY Zenon, <1>5 DEF AcceptRequest, passVars, wireVars
    <2>2. /\ streams'[s] \in {"Open", "HalfClosedRemote"}
          /\ \A r \in StreamIds : r # s => streams'[r] = streams[r]
      BY Zenon, <1>1, <2>1
    <2> QED BY Zenon, <1>1, <1>5, <2>1, <2>2, OpenedO
  <1>6. CASE /\ s > lastSid
             /\ rst(s) /\ RecordSid(s)
             /\ UNCHANGED <<pc, cur, frames, selfq, events, enc, dropq, handed, exit>>
    <2>1. RemoveStream(s) /\ WireReset(s) /\ sent' = sent
      BY Zenon, <1>6 DEF rst
    <2>2. lastSid' \in Nat /\ lastSid' >= lastSid
      BY <1>1, <1>6 DEF RecordSid
    <2> QED BY Zenon, <1>1, <1>6, <2>1, <2>2, RemovedO
  <1>7. ASSUME s > lastSid, NEW n \in ChunkLens, RespondWithStatus(s, n) PROVE OInv'
    <2>1. /\ streams' = [streams EXCEPT ![s] = "HalfClosedRemote"]
          /\ mk_stream_outgoing(s) /\ RecordSid(s)
          /\ selfq' = <<HeadersEvent(s), ChunkEvent(s, n), EndEvent(s)>>
          /\ pc' = "respond"
          /\ UNCHANGED <<cur, frames, exit, events, dropq, handed, wire, sent, enc>>
      BY Zenon, <1>7
         DEF RespondWithStatus, passVars, wireVars, taskVars, HeadersEvent, ChunkEvent, EndEvent
    <2>2. /\ streams'[s] \in {"Open", "HalfClosedRemote"}
          /\ \A r \in StreamIds : r # s => streams'[r] = streams[r]
      BY Zenon, <1>1, <2>1
    <2>3. n \in Nat
      BY Zenon, ConnAssumption
    <2> QED BY Zenon, <1>1, <1>7, <2>1, <2>2, <2>3, OpenedO
  <1> QED BY Zenon, <1>2, <1>3, <1>4, <1>5, <1>6, <1>7

\* The client closes its half of a stream: ours stays as it is.
LEMMA HalfClosedO ==
    ASSUME OInv, IInv, NEW s \in StreamIds,
           \/ streams[s] = "Open" /\ streams' = [streams EXCEPT ![s] = "HalfClosedRemote"]
           \/ streams[s] = "HalfClosedLocal" /\ streams' = [streams EXCEPT ![s] = "Absent"],
           UNCHANGED <<outVars, connVars, pc, passVars, selfq, exit, events, taskVars, wireVars>>
    PROVE  OInv'
  <1>1. UNCHANGED <<headers, body, queued, lastSid, pc, cur, frames, selfq, events,
                    enc, dropq, handed, wire, sent, exit>>
    BY Zenon DEF outVars, connVars, passVars, taskVars, wireVars
  <1>2. \A r \in StreamIds : /\ Outgoing(r)' <=> Outgoing(r)
                             /\ streams[r] = "Absent" => streams'[r] = "Absent"
    BY Zenon DEF Outgoing, IInv, TypeOK, StreamsType
  <1>3. EventsInOrder'
    BY Zenon, <1>1 DEF OInv, EventsInOrder
  <1> QED BY Zenon, <1>1, <1>2, <1>3, QuietStep

\* Trailers.
LEMMA ReceiveTrailersO ==
    ASSUME OInv, IInv, NEW s \in StreamIds, NEW es \in BOOLEAN, NEW block \in Blocks,
           ReceiveTrailers(s, es, block)
    PROVE  OInv'
  <1>1. pc = "loop"
    BY Zenon DEF ReceiveTrailers, Receives
  <1>2. \/ Ends("StreamClosed") \/ Ends("HpackDecodingError") \/ Ends("panic: trailers not open")
        \/ ResetByServer(s)
        \/ /\ streams[s] = "Open" /\ streams' = [streams EXCEPT ![s] = "HalfClosedRemote"]
           /\ UNCHANGED <<outVars, connVars, pc, passVars, selfq, exit, events, taskVars, wireVars>>
    BY Zenon DEF ReceiveTrailers
  <1>3. CASE Ends("StreamClosed") \/ Ends("HpackDecodingError") \/ Ends("panic: trailers not open")
    BY Zenon, <1>3, EndsO
  <1> QED BY Zenon, <1>1, <1>2, <1>3, ResetByServerO, HalfClosedO

\* DATA.
LEMMA ReceiveDataO ==
    ASSUME OInv, IInv, NEW s \in StreamIds, NEW es \in BOOLEAN,
           NEW chunk \in {"handed", "refused", "underflow"}, ReceiveData(s, es, chunk)
    PROVE  OInv'
  <1>1. pc = "loop" /\ streams \in [StreamIds -> StreamStates]
    BY Zenon DEF ReceiveData, Receives, IInv, TypeOK, StreamsType
  <1>2. \/ Ends("StreamClosed") \/ Ends("WindowUnderflow")
        \/ ResetByServer(s)
        \/ /\ streams[s] \in {"Open", "HalfClosedLocal"}
           /\ streams' = [streams EXCEPT ![s] = IF @ = "Open" THEN "HalfClosedRemote" ELSE "Absent"]
           /\ UNCHANGED <<outVars, connVars, pc, passVars, selfq, exit, events, taskVars, wireVars>>
    BY Zenon DEF ReceiveData
  <1>3. CASE Ends("StreamClosed") \/ Ends("WindowUnderflow")
    BY Zenon, <1>3, EndsO
  <1>4. CASE /\ streams[s] \in {"Open", "HalfClosedLocal"}
             /\ streams' = [streams EXCEPT ![s] = IF @ = "Open" THEN "HalfClosedRemote" ELSE "Absent"]
             /\ UNCHANGED <<outVars, connVars, pc, passVars, selfq, exit, events, taskVars, wireVars>>
    BY Zenon, <1>1, <1>4, HalfClosedO
  <1> QED BY Zenon, <1>1, <1>2, <1>3, <1>4, ResetByServerO

\* RST_STREAM: the stream goes, with what was queued for it.
LEMMA ReceiveRstStreamO ==
    ASSUME OInv, IInv, NEW s \in StreamIds, ReceiveRstStream(s)
    PROVE  OInv'
  <1>1. pc = "loop" /\ lastSid \in Nat
    BY Zenon DEF ReceiveRstStream, Receives, IInv, TypeOK, ConnType
  <1>2. CASE Ends("RstStreamForUnknownStream")
    BY Zenon, <1>2, EndsO
  <1>3. CASE ~Ends("RstStreamForUnknownStream")
    <2>1. /\ RemoveStream(s) /\ WireReset(s) /\ lastSid' = lastSid
          /\ UNCHANGED <<pc, cur, frames, selfq, events, enc, dropq, handed, sent, exit>>
      BY Zenon, <1>3 DEF ReceiveRstStream, connVars, passVars, taskVars
    <2> QED BY <1>1, <2>1, RemovedO
  <1> QED BY Zenon, <1>2, <1>3

\* SETTINGS and WINDOW_UPDATE move windows, and may end the loop or a stream.
LEMMA WindowsO ==
    ASSUME OInv, IInv,
           \/ \E w \in Windows, f \in FrameSizes : ReceiveSettings(w, f)
           \/ \E n \in Increments : ReceiveConnWindowUpdate(n)
           \/ \E s \in StreamIds, n \in Increments : ReceiveStreamWindowUpdate(s, n)
    PROVE  OInv'
  <1> DEFINE Quiet == UNCHANGED <<streams, headers, body, queued, lastSid, pc, cur, frames, selfq,
                                  events, enc, dropq, handed, wire, sent, exit>>
  <1>1. \/ Ends("StreamWindowSizeOverflowDueToSettings") \/ Ends("WindowUpdateZeroIncrement")
        \/ Ends("WindowUpdateOverflow") \/ Ends("WindowUpdateForUnknownOrClosedStream")
        \/ pc = "loop" /\ \E s \in StreamIds : ResetByServer(s)
        \/ Quiet
    <2>1. ASSUME NEW w \in Windows, NEW f \in FrameSizes, ReceiveSettings(w, f)
          PROVE  Ends("StreamWindowSizeOverflowDueToSettings") \/ Quiet
      BY Zenon, <2>1 DEF ReceiveSettings, passVars, taskVars, wireVars
    <2>2. ASSUME NEW n \in Increments, ReceiveConnWindowUpdate(n)
          PROVE  Ends("WindowUpdateZeroIncrement") \/ Ends("WindowUpdateOverflow") \/ Quiet
      BY Zenon, <2>2
         DEF ReceiveConnWindowUpdate, outVars, connVars, passVars, taskVars, wireVars
    <2>3. ASSUME NEW s \in StreamIds, NEW n \in Increments, ReceiveStreamWindowUpdate(s, n)
          PROVE  \/ Ends("WindowUpdateZeroIncrement") \/ Ends("WindowUpdateForUnknownOrClosedStream")
                 \/ pc = "loop" /\ ResetByServer(s)
                 \/ Quiet
      BY Zenon, <2>3
         DEF ReceiveStreamWindowUpdate, Receives, connVars, passVars, taskVars, wireVars
    <2> QED BY Zenon, <2>1, <2>2, <2>3
  <1>2. CASE \/ Ends("StreamWindowSizeOverflowDueToSettings") \/ Ends("WindowUpdateZeroIncrement")
             \/ Ends("WindowUpdateOverflow") \/ Ends("WindowUpdateForUnknownOrClosedStream")
    BY Zenon, <1>2, EndsO
  <1>3. CASE pc = "loop" /\ \E s \in StreamIds : ResetByServer(s)
    BY Zenon, <1>3, ResetByServerO
  <1>4. CASE Quiet
    <2>1. \A r \in StreamIds : /\ Outgoing(r)' <=> Outgoing(r)
                               /\ streams[r] = "Absent" => streams'[r] = "Absent"
      BY Zenon, <1>4 DEF Outgoing
    <2>2. EventsInOrder'
      BY Zenon, <1>4 DEF OInv, EventsInOrder
    <2> QED BY Zenon, <1>4, <2>1, <2>2, QuietStep
  <1> QED BY Zenon, <1>1, <1>2, <1>3, <1>4

\* Every frame of the client, and its going away.
LEMMA ClientO ==
    ASSUME OInv, IInv, Client
    PROVE  OInv'
  <1>1. ASSUME NEW s \in StreamIds, ReceiveInvalidSize(s) PROVE OInv'
    BY Zenon, <1>1, ResetByServerO DEF ReceiveInvalidSize, Receives
  <1>2. CASE ReceiveErroneous("FrameTooLarge") \/ TransportCloses
    BY Zenon, <1>2, EndsO DEF ReceiveErroneous, TransportCloses
  <1> QED
      BY Zenon, <1>1, <1>2, ReceiveHeadersO, ReceiveTrailersO, ReceiveDataO, ReceiveRstStreamO,
          WindowsO DEF Client

-----------------------------------------------------------------------------
(* Those who answer.                                                       *)

\* Whoever answers on a stream sends the next event of the response.
LEMMA ProduceO ==
    ASSUME OInv, IInv, NEW e \in Events, events' = Append(events, e),
           OwesEnd(e.sid), OwesHeaders(e.sid) <=> e.ev = "Headers",
           ~OwesHeaders(e.sid)', OwesEnd(e.sid)' => e.ev # "BodyEnd",
           e.sid <= lastSid,
           \A r \in StreamIds : handed'[r] = handed[r] + EventLoad(r)[e],
           \A r \in StreamIds : r # e.sid => SameDebts(r),
           Producers',
           UNCHANGED <<streams, headers, body, queued, lastSid, cur, frames, wire, sent, exit>>,
           pc' = pc \/ (pc = "respond" /\ pc' = "loop")
    PROVE  OInv'
  <1> DEFINE s == e.sid
  <1>1. /\ lastSid \in Nat /\ events \in Seq(Events) /\ s \in StreamIds
        /\ handed \in [StreamIds -> Nat] /\ s \in Nat
    BY Zenon, ConnAssumption DEF IInv, TypeOK, ConnType, TaskType, Events
  <1>2. StreamInv(s) /\ Order(s)
    BY Zenon, <1>1 DEF OInv, StreamInv
  <1>3. InOrder(events')
    BY Zenon, <1>1, <1>2, OrderAppend DEF OInv, Order
  <1>4. PassInv' /\ EventsInOrder'
    BY Zenon DEF OInv, PassInv, EventsInOrder, Outgoing
  <1>5. ASSUME NEW r \in StreamIds PROVE OpenBlock(r)'
    BY Zenon DEF OInv, OpenBlock
  <1>6. ASSUME NEW r \in StreamIds, r # s PROVE StreamInv(r)'
    <2>1. EventLoad(r)[e] = 0
      BY ZenonT(30), <1>6 DEF EventLoad
    <2>2. handed'[r] = handed[r]
      <3>1. handed[r] \in Nat /\ handed'[r] = handed[r] + EventLoad(r)[e]
        BY Zenon, <1>1
      <3> QED BY Zenon, <2>1, <3>1, AddNothing
    <2>3. SameState(r)
      BY Zenon, <2>2 DEF SameState, Outgoing
    <2>4. SameEvents(r) /\ SameFrames(r)
      BY Zenon, <1>1, <1>6, EventOfOther, FramesKept
    <2>5. SameDebts(r) /\ StreamInv(r) /\ lastSid' \in Nat /\ lastSid' >= lastSid
      <3>1. SameDebts(r) /\ StreamInv(r)
        BY Zenon, <1>6 DEF OInv
      <3>2. lastSid' = lastSid
        BY Zenon
      <3> QED BY Zenon, <1>1, <3>1, <3>2, NotLess
    <2> QED BY Zenon, <1>1, <2>3, <2>4, <2>5, OtherStream
  <1>7. StreamInv(s)'
    <2>1. /\ OfStream(events', s)
          /\ EventOf(events', s, "Headers") <=> EventOf(events, s, "Headers") \/ e.ev = "Headers"
          /\ EventOf(events', s, "BodyEnd") <=> EventOf(events, s, "BodyEnd") \/ e.ev = "BodyEnd"
      BY Zenon, <1>1, OfAppend, EventAppend
    <2>2. Order(s)'
      <3>1. /\ ~EventOf(events, s, "BodyEnd") /\ wire[s] # "ended"
            /\ Outgoing(s) => body[s] = "StillReceiving"
            /\ e.ev = "Headers" /\ Outgoing(s) => headers[s] = "WaitingForHeaders"
            /\ EventOf(events, s, "Headers") /\ Outgoing(s) => headers[s] = "WaitingForHeaders"
        BY Zenon, <1>2 DEF Order
      <3>2. Outgoing(s)' <=> Outgoing(s)
        BY Zenon DEF Outgoing
      <3>3. OwesEnd(s)' => ~EventOf(events, s, "BodyEnd")'
        BY Zenon, <2>1, <3>1
      <3>4. EventOf(events, s, "Headers")' /\ Outgoing(s)' => headers'[s] = "WaitingForHeaders"
        BY Zenon, <2>1, <3>1, <3>2
      <3> QED BY Zenon, <3>1, <3>2, <3>3, <3>4 DEF Order
    <2>3. Untouched(s)'
      <3>1. ~(s > lastSid)
        BY Zenon, <1>1, NotAfter
      <3> QED BY Zenon, <3>1 DEF Untouched
    <2>4. Framing(s)'
      BY Zenon, <1>2 DEF StreamInv, Framing, Outgoing
    <2>5. Complete(s)'
      BY Zenon, <1>2 DEF Order, Complete
    <2>6. Conserved(s)'
      <3> SUFFICES ASSUME Outgoing(s) PROVE Conserved(s)'
        BY Zenon DEF Conserved, Outgoing
      <3> PICK a \in Int, b \in Int : /\ Bytes(frames, FrameLoad(s), a)
                                      /\ Bytes(events, EventLoad(s), b)
                                      /\ handed[s] = sent[s] + a + queued[s] + b
        BY Zenon, <1>2 DEF StreamInv, Conserved
      <3> PICK n \in Nat : n = EventLoad(s)[e]
        BY Zenon, LoadTypes
      <3>1. Bytes(events', EventLoad(s), b + n)
        BY Zenon, <1>1, BytesAppend, LoadTypes
      <3>2. handed'[s] = sent'[s] + a + queued'[s] + (b + n) /\ b + n \in Int
        <4>1. handed'[s] = handed[s] + n /\ handed[s] \in Nat /\ sent[s] \in Nat /\ queued[s] \in Nat
          BY Zenon, <1>1 DEF IInv, TypeOK, StreamsType, WireType
        <4>2. AddsUp(a, b, n)
          BY ZenonT(30), MoreBytes
        <4>3. handed[s] + n = sent[s] + a + queued[s] + (b + n)
          BY ZenonT(30), <4>1, <4>2 DEF AddsUp
        <4> QED BY Zenon, <1>1, <4>1, <4>3, BytesAreNumbers
      <3>3. Bytes(frames, FrameLoad(s), a)' /\ Bytes(events, EventLoad(s), b + n)'
        BY Zenon, <3>1
      <3>4. body'[s] = "DoneSending" => queued'[s] = 0
        BY Zenon, <1>2 DEF StreamInv, Conserved
      <3> QED BY Zenon, <3>2, <3>3, <3>4 DEF Conserved
    <2> QED BY Zenon, <2>2, <2>3, <2>4, <2>5, <2>6 DEF StreamInv
  <1>8. \A r \in StreamIds : OpenBlock(r)' /\ StreamInv(r)'
    BY Zenon, <1>5, <1>6, <1>7
  <1>9. InOrder(events)'
    BY Zenon, <1>3
  <1> QED BY Zenon, <1>4, <1>8, <1>9 DEF OInv

\* Of enc and dropq, the others keep theirs.
LEMMA OtherDebts ==
    ASSUME NEW r \in StreamIds, enc'[r] = enc[r], dropq'[r] = dropq[r], selfq' = selfq
    PROVE  SameDebts(r)
  BY Zenon DEF SameDebts, OwesHeaders, OwesEnd, Answers

\* Only one of them answers on a stream.
LEMMA OneAnswers ==
    ASSUME OInv, IInv, NEW s \in StreamIds
    PROVE  /\ Answers(s) => enc[s] = "None" /\ s <= lastSid
           /\ dropq[s] # <<>> => enc[s] = "ResponseDone"
           /\ enc[s] # "None" => s <= lastSid
           /\ enc[s] # "None" => ~Answers(s)
  <1>1. DropQueue(s) /\ Untouched(s) /\ lastSid \in Nat /\ s \in Nat
    BY Zenon, ConnAssumption DEF OInv, Producers, StreamInv, IInv, TypeOK, ConnType
  <1>2. ASSUME Answers(s) PROVE enc[s] = "None" /\ s <= lastSid
    <2> PICK r \in StreamIds, n \in Nat : SelfQueue(r, n)
      BY Zenon, <1>2 DEF OInv, Producers, Answers
    <2>1. Head(selfq).sid = r
      BY DEF SelfQueue, HeadersEvent, ChunkEvent, EndEvent
    <2> QED BY Zenon, <1>2, <2>1 DEF SelfQueue, Answers
  <1> QED BY <1>1, <1>2 DEF DropQueue, Untouched

\* The encoder of a handler sends an event.
LEMMA HandlerSendsO ==
    ASSUME OInv, IInv, NEW s \in StreamIds,
           write_response(s) \/ (\E n \in ChunkLens : write_body_chunk(s, n)) \/ write_body_end(s)
    PROVE  OInv'
  <1>1. PICK e \in Events :
          /\ e.sid = s /\ events' = Append(events, e)
          /\ UNCHANGED <<streams, headers, body, queued, lastSid, pc, cur, frames, selfq, wire,
                         sent, exit, dropq>>
          /\ \/ /\ enc[s] = "ExpectResponseHeaders" /\ e.ev = "Headers"
                /\ enc' = [enc EXCEPT ![s] = "ExpectResponseBody"] /\ handed' = handed
             \/ /\ enc[s] = "ExpectResponseBody" /\ e.ev = "BodyChunk"
                /\ enc' = enc /\ handed' = [handed EXCEPT ![s] = @ + e.len]
             \/ /\ enc[s] = "ExpectResponseBody" /\ e.ev = "BodyEnd"
                /\ enc' = [enc EXCEPT ![s] = "ResponseDone"] /\ handed' = handed
    <2>1. CASE write_response(s)
      <3>1. HeadersEvent(s) \in Events /\ HeadersEvent(s).sid = s /\ HeadersEvent(s).ev = "Headers"
        BY Zenon DEF HeadersEvent, Events
      <3>2. events' = Append(events, HeadersEvent(s))
        BY Zenon, <2>1 DEF write_response, Sends, HeadersEvent
      <3> QED
          BY Zenon, <2>1, <3>1, <3>2
             DEF write_response, Sends, outVars, connVars, passVars, wireVars
    <2>2. CASE write_body_end(s)
      <3>1. EndEvent(s) \in Events /\ EndEvent(s).sid = s /\ EndEvent(s).ev = "BodyEnd"
        BY Zenon DEF EndEvent, Events
      <3>2. events' = Append(events, EndEvent(s))
        BY Zenon, <2>2 DEF write_body_end, Sends, EndEvent
      <3> QED
          BY Zenon, <2>2, <3>1, <3>2
             DEF write_body_end, Sends, outVars, connVars, passVars, wireVars
    <2>3. ASSUME NEW n \in ChunkLens, write_body_chunk(s, n)
          PROVE  \E e \in Events :
                   /\ e.sid = s /\ events' = Append(events, e)
                   /\ UNCHANGED <<streams, headers, body, queued, lastSid, pc, cur, frames, selfq,
                                  wire, sent, exit, dropq>>
                   /\ enc[s] = "ExpectResponseBody" /\ e.ev = "BodyChunk"
                   /\ enc' = enc /\ handed' = [handed EXCEPT ![s] = @ + e.len]
      <3>1. /\ ChunkEvent(s, n) \in Events /\ ChunkEvent(s, n).sid = s
            /\ ChunkEvent(s, n).ev = "BodyChunk" /\ ChunkEvent(s, n).len = n
        BY Zenon, ConnAssumption DEF ChunkEvent, Events
      <3>2. events' = Append(events, ChunkEvent(s, n))
        BY Zenon, <2>3 DEF write_body_chunk, Sends, ChunkEvent
      <3> QED
          BY Zenon, <2>3, <3>1, <3>2
             DEF write_body_chunk, Sends, outVars, connVars, passVars, wireVars
    <2> QED BY Zenon, <2>1, <2>2, <2>3
  <1>2. enc \in [StreamIds -> EncoderStates] /\ handed \in [StreamIds -> Nat]
    BY Zenon DEF IInv, TypeOK, TaskType
  <1>3. enc[s] # "None" /\ s <= lastSid /\ ~Answers(s) /\ dropq[s] = <<>>
    BY Zenon, <1>1, OneAnswers
  <1>4. /\ OwesEnd(s) /\ (OwesHeaders(s) <=> e.ev = "Headers")
        /\ ~OwesHeaders(s)' /\ (OwesEnd(s)' => e.ev # "BodyEnd")
    <2>1. enc'[s] \in {"ExpectResponseBody", "ResponseDone"}
          /\ (e.ev = "BodyEnd" => enc'[s] = "ResponseDone") /\ ~Answers(s)' /\ dropq'[s] = <<>>
      BY Zenon, <1>1, <1>2, <1>3 DEF Answers
    <2> QED BY Zenon, <1>1, <1>3, <2>1 DEF OwesEnd, OwesHeaders
  <1>5. ASSUME NEW r \in StreamIds PROVE handed'[r] = handed[r] + EventLoad(r)[e]
    BY <1>1, <1>2 DEF EventLoad, Events
  <1>6. ASSUME NEW r \in StreamIds, r # s PROVE SameDebts(r)
    BY Zenon, <1>1, <1>2, <1>6, OtherDebts
  <1>7. Producers'
    <2>1. ASSUME NEW r \in StreamIds PROVE DropQueue(r)'
      <3>1. DropQueue(r) /\ dropq' = dropq /\ (r # s => enc'[r] = enc[r])
        BY Zenon, <1>1, <1>2 DEF OInv, Producers
      <3> QED BY Zenon, <1>3, <3>1 DEF DropQueue
    <2>2. ASSUME NEW r \in StreamIds, NEW n \in Nat, SelfQueue(r, n) PROVE SelfQueue(r, n)'
      BY Zenon, <1>1, <1>2, <1>3, <2>2 DEF SelfQueue
    <2> QED BY Zenon, <1>1, <2>1, <2>2 DEF OInv, Producers
  <1> QED BY Zenon, <1>1, <1>3, <1>4, <1>5, <1>6, <1>7, ProduceO

\* The task that an encoder dropped too early leaves behind sends an event.
LEMMA DropTaskSendsO ==
    ASSUME OInv, IInv, NEW s \in StreamIds, DropTaskSends(s)
    PROVE  OInv'
  <1>1. /\ dropq[s] \in {<<HeadersEvent(s), EndEvent(s)>>, <<EndEvent(s)>>}
        /\ enc[s] = "ResponseDone"
    BY Zenon DEF DropTaskSends, OInv, Producers, DropQueue
  <1>2. /\ events' = Append(events, [sid |-> s, ev |-> Head(dropq[s]).ev, len |-> 0])
        /\ dropq' = [dropq EXCEPT ![s] = Tail(dropq[s])]
        /\ UNCHANGED <<streams, headers, body, queued, lastSid, pc, cur, frames, selfq, wire,
                       sent, exit, enc, handed>>
    BY Zenon DEF DropTaskSends, Sends, outVars, connVars, passVars, wireVars
  <1>3. dropq \in [StreamIds -> Seq(Events)] /\ handed \in [StreamIds -> Nat]
    BY Zenon DEF IInv, TypeOK, TaskType
  <1>4. PICK e \in Events :
          /\ e.sid = s /\ events' = Append(events, e) /\ e.len = 0
          /\ \/ e.ev = "Headers" /\ dropq[s] = <<HeadersEvent(s), EndEvent(s)>>
             \/ e.ev = "BodyEnd" /\ dropq[s] = <<EndEvent(s)>>
    <2>1. CASE dropq[s] = <<HeadersEvent(s), EndEvent(s)>>
      <3>1. Head(dropq[s]).ev = "Headers"
        <4>1. Head(dropq[s]) = HeadersEvent(s)
          BY Zenon, <2>1, TwoEvents DEF Splits
        <4>2. HeadersEvent(s).ev = "Headers"
          BY Zenon DEF HeadersEvent
        <4> QED BY Zenon, <4>1, <4>2
      <3>2. [sid |-> s, ev |-> "Headers", len |-> 0] \in Events
        BY Zenon, AreEvents
      <3> QED BY Zenon, <1>2, <2>1, <3>1, <3>2
    <2>2. CASE dropq[s] = <<EndEvent(s)>>
      <3>1. Head(dropq[s]).ev = "BodyEnd"
        <4>1. Head(dropq[s]) = EndEvent(s)
          BY Zenon, <2>2, OneEvent
        <4>2. EndEvent(s).ev = "BodyEnd"
          BY Zenon DEF EndEvent
        <4> QED BY Zenon, <4>1, <4>2
      <3>2. [sid |-> s, ev |-> "BodyEnd", len |-> 0] \in Events
        BY Zenon, AreEvents
      <3> QED BY Zenon, <1>2, <2>2, <3>1, <3>2
    <2> QED BY Zenon, <1>1, <2>1, <2>2
  <1>5. /\ dropq'[s] = Tail(dropq[s])
        /\ \A r \in StreamIds : r # s => dropq'[r] = dropq[r]
        /\ e.ev = "Headers" => dropq'[s] = <<EndEvent(s)>>
        /\ e.ev = "BodyEnd" => dropq'[s] = <<>>
        /\ e.ev \in {"Headers", "BodyEnd"}
    <2>1. /\ dropq'[s] = Tail(dropq[s])
          /\ \A r \in StreamIds : r # s => dropq'[r] = dropq[r]
      BY Zenon, <1>2, <1>3
    <2>2. CASE e.ev = "Headers"
      <3>1. dropq[s] = <<HeadersEvent(s), EndEvent(s)>>
        BY ZenonT(30), <1>4, <2>2
      <3>2. Tail(dropq[s]) = <<EndEvent(s)>>
        BY <3>1
      <3> QED BY Zenon, <2>1, <2>2, <3>2
    <2>3. CASE e.ev = "BodyEnd"
      <3>1. dropq[s] = <<EndEvent(s)>>
        BY ZenonT(30), <1>4, <2>3
      <3>2. Tail(dropq[s]) = <<>>
        BY <3>1
      <3> QED BY Zenon, <2>1, <2>3, <3>2
    <2> QED BY Zenon, <1>4, <2>2, <2>3
  <1>6. s <= lastSid /\ ~Answers(s)
    BY Zenon, <1>1, OneAnswers
  <1>7. /\ OwesEnd(s) /\ (OwesHeaders(s) <=> e.ev = "Headers")
        /\ ~OwesHeaders(s)' /\ (OwesEnd(s)' => e.ev # "BodyEnd")
    <2>1. dropq[s] # <<>> /\ (Head(dropq[s]).ev = "Headers" <=> e.ev = "Headers")
      <3>1. HeadersEvent(s).ev = "Headers" /\ EndEvent(s).ev = "BodyEnd"
        BY Zenon DEF HeadersEvent, EndEvent
      <3>2. CASE e.ev = "Headers" /\ dropq[s] = <<HeadersEvent(s), EndEvent(s)>>
        <4>1. dropq[s] # <<>> /\ Head(dropq[s]) = HeadersEvent(s)
          BY Zenon, <3>2, TwoEvents DEF Splits
        <4> QED BY Zenon, <3>1, <3>2, <4>1
      <3>3. CASE e.ev = "BodyEnd" /\ dropq[s] = <<EndEvent(s)>>
        <4>1. dropq[s] # <<>> /\ Head(dropq[s]) = EndEvent(s)
          BY Zenon, <3>3, OneEvent
        <4> QED BY Zenon, <3>1, <3>3, <4>1
      <3> QED BY Zenon, <1>4, <3>2, <3>3
    <2>2. dropq'[s] # <<>> => Head(dropq'[s]).ev # "Headers"
      <3> SUFFICES ASSUME dropq'[s] # <<>> PROVE Head(dropq'[s]).ev # "Headers"
        BY Zenon
      <3>1. dropq'[s] = <<EndEvent(s)>>
        BY Zenon, <1>5
      <3>2. Head(dropq'[s]) = EndEvent(s)
        BY <3>1
      <3> QED BY <3>2 DEF EndEvent
    <2>3. ~Answers(s)' /\ enc'[s] = "ResponseDone"
      BY Zenon, <1>1, <1>2, <1>6 DEF Answers
    <2> QED BY Zenon, <1>1, <1>5, <1>6, <2>1, <2>2, <2>3 DEF OwesEnd, OwesHeaders
  <1>8. ASSUME NEW r \in StreamIds PROVE handed'[r] = handed[r] + EventLoad(r)[e]
    BY <1>2, <1>3, <1>4 DEF EventLoad
  <1>9. ASSUME NEW r \in StreamIds, r # s PROVE SameDebts(r)
    BY Zenon, <1>2, <1>5, <1>9, OtherDebts
  <1>10. Producers'
    <2>1. ASSUME NEW r \in StreamIds PROVE DropQueue(r)'
      BY Zenon, <1>1, <1>2, <1>5 DEF OInv, Producers, DropQueue
    <2> QED BY Zenon, <1>2, <2>1 DEF OInv, Producers, SelfQueue
  <1> QED BY Zenon, <1>2, <1>4, <1>6, <1>7, <1>8, <1>9, <1>10, ProduceO

\* The encoder is dropped: its task owes what it owed.
LEMMA DropEncoderO ==
    ASSUME OInv, IInv, NEW s \in StreamIds, DropEncoder(s)
    PROVE  OInv'
  <1>1. /\ enc[s] \in {"ExpectResponseHeaders", "ExpectResponseBody"}
        /\ enc' = [enc EXCEPT ![s] = "ResponseDone"]
        /\ dropq' = [dropq EXCEPT ![s] = IF enc[s] = "ExpectResponseHeaders"
                                           THEN <<HeadersEvent(s), EndEvent(s)>>
                                           ELSE <<EndEvent(s)>>]
        /\ UNCHANGED <<streams, headers, body, queued, lastSid, pc, cur, frames, selfq, wire,
                       sent, exit, events, handed>>
    BY Zenon DEF DropEncoder, outVars, connVars, passVars, wireVars, HeadersEvent, EndEvent
  <1>2. dropq \in [StreamIds -> Seq(Events)] /\ enc \in [StreamIds -> EncoderStates]
        /\ lastSid \in Nat /\ s \in Nat
    BY Zenon, ConnAssumption DEF IInv, TypeOK, TaskType, ConnType
  <1>3. s <= lastSid /\ ~Answers(s) /\ dropq[s] = <<>>
    BY Zenon, <1>1, OneAnswers
  <1>4. /\ enc'[s] = "ResponseDone" /\ dropq'[s] # <<>>
        /\ dropq'[s] \in {<<HeadersEvent(s), EndEvent(s)>>, <<EndEvent(s)>>}
        /\ Head(dropq'[s]).ev = "Headers" <=> enc[s] = "ExpectResponseHeaders"
        /\ \A r \in StreamIds : r # s => enc'[r] = enc[r] /\ dropq'[r] = dropq[r]
    BY <1>1, <1>2 DEF HeadersEvent, EndEvent
  <1>5. InOrder(events)' /\ PassInv' /\ EventsInOrder'
    BY Zenon, <1>1 DEF OInv, PassInv, EventsInOrder, Outgoing
  <1>6. Producers'
    <2>1. ASSUME NEW r \in StreamIds PROVE DropQueue(r)'
      BY Zenon, <1>4 DEF OInv, Producers, DropQueue
    <2>2. ASSUME NEW r \in StreamIds, NEW n \in Nat, SelfQueue(r, n) PROVE SelfQueue(r, n)'
      <3>1. r # s
        BY Zenon, <1>1, <2>2 DEF SelfQueue
      <3> QED BY Zenon, <1>1, <1>4, <2>2, <3>1 DEF SelfQueue
    <2> QED BY Zenon, <1>1, <2>1, <2>2 DEF OInv, Producers
  <1>7. ASSUME NEW r \in StreamIds PROVE OpenBlock(r)'
    BY Zenon, <1>1 DEF OInv, OpenBlock
  <1>8. ASSUME NEW r \in StreamIds, r # s PROVE StreamInv(r)'
    <2>1. SameState(r)
      BY Zenon, <1>1 DEF SameState, Outgoing
    <2>2. SameDebts(r)
      BY Zenon, <1>1, <1>4, <1>8, OtherDebts
    <2>3. StreamInv(r) /\ lastSid' \in Nat /\ lastSid' >= lastSid
      BY Zenon, <1>1, <1>2, NotLess DEF OInv
    <2> QED BY Zenon, <1>1, <1>2, <2>1, <2>2, <2>3, OtherStream, EventsKept, FramesKept
  <1>9. StreamInv(s)'
    <2>1. StreamInv(s)
      BY Zenon DEF OInv
    <2>2. (OwesHeaders(s)' <=> OwesHeaders(s)) /\ (OwesEnd(s)' <=> OwesEnd(s))
      <3>1. ~Answers(s)'
        BY Zenon, <1>1, <1>3 DEF Answers
      <3> QED BY Zenon, <1>1, <1>3, <1>4, <3>1 DEF OwesHeaders, OwesEnd
    <2>3. Order(s)'
      BY Zenon, <1>1, <2>1, <2>2 DEF StreamInv, Order, Outgoing
    <2>4. Untouched(s)'
      <3>1. ~(s > lastSid)
        BY Zenon, <1>2, <1>3, NotAfter
      <3> QED BY Zenon, <1>1, <3>1 DEF Untouched
    <2>5. Framing(s)' /\ Complete(s)'
      BY Zenon, <1>1, <2>1 DEF StreamInv, Framing, Complete, Outgoing
    <2>6. Conserved(s)'
      BY Zenon, <1>1, <2>1 DEF StreamInv, Conserved, Outgoing
    <2> QED BY Zenon, <2>3, <2>4, <2>5, <2>6 DEF StreamInv
  <1>10. \A r \in StreamIds : OpenBlock(r)' /\ StreamInv(r)'
    BY Zenon, <1>7, <1>8, <1>9
  <1> QED BY Zenon, <1>5, <1>6, <1>10 DEF OInv

\* process_frame sends the next event of its own answer.
LEMMA RespondStepO ==
    ASSUME OInv, IInv, RespondStep
    PROVE  OInv'
  <1>1. PICK s \in StreamIds, n \in Nat : SelfQueue(s, n)
    BY Zenon DEF RespondStep, OInv, Producers
  <1>2. /\ pc = "respond" /\ events' = Append(events, Head(selfq)) /\ selfq' = Tail(selfq)
        /\ handed' = [handed EXCEPT ![Head(selfq).sid] = @ + Head(selfq).len]
        /\ pc' = IF Len(selfq) = 1 THEN "loop" ELSE "respond"
        /\ UNCHANGED <<streams, headers, body, queued, lastSid, cur, frames, wire, sent, exit,
                       enc, dropq>>
    BY Zenon DEF RespondStep, outVars, connVars, passVars, wireVars
  <1>3. selfq \in Seq(Events) /\ handed \in [StreamIds -> Nat]
    BY Zenon DEF IInv, TypeOK, TaskType, LoopType
  <1>4. PICK e \in Events : e = Head(selfq)
    BY <1>1, <1>3 DEF SelfQueue
  <1>5. /\ e.sid = s /\ selfq # <<>> /\ enc[s] = "None" /\ s <= lastSid
        /\ \/ /\ e.ev = "Headers" /\ e.len = 0 /\ pc' = "respond"
              /\ selfq' = <<ChunkEvent(s, n), EndEvent(s)>>
           \/ e.ev = "BodyChunk" /\ pc' = "respond" /\ selfq' = <<EndEvent(s)>>
           \/ e.ev = "BodyEnd" /\ e.len = 0 /\ pc' = "loop" /\ selfq' = <<>>
    <2>1. CASE selfq = <<HeadersEvent(s), ChunkEvent(s, n), EndEvent(s)>>
      <3>1. e = HeadersEvent(s) /\ Tail(selfq) = <<ChunkEvent(s, n), EndEvent(s)>>
            /\ Len(selfq) # 1 /\ selfq # <<>>
        <4>1. PICK x, y, z : x = HeadersEvent(s) /\ y = ChunkEvent(s, n) /\ z = EndEvent(s)
          BY Zenon
        <4>2. selfq = <<x, y, z>>
          BY Zenon, <2>1, <4>1
        <4>3. Splits(<<x, y, z>>, x, <<y, z>>)
          BY ZenonT(30), ThreeEvents
        <4> QED BY ZenonT(30), <1>4, <4>1, <4>2, <4>3 DEF Splits
      <3>2. e.sid = s /\ e.ev = "Headers" /\ e.len = 0
        BY Zenon, <3>1 DEF HeadersEvent
      <3> QED BY Zenon, <1>1, <1>2, <3>1, <3>2 DEF SelfQueue
    <2>2. CASE selfq = <<ChunkEvent(s, n), EndEvent(s)>>
      <3>1. e = ChunkEvent(s, n) /\ Tail(selfq) = <<EndEvent(s)>>
            /\ Len(selfq) # 1 /\ selfq # <<>>
        <4>1. Splits(<<ChunkEvent(s, n), EndEvent(s)>>, ChunkEvent(s, n), <<EndEvent(s)>>)
          BY ZenonT(30), TwoEvents
        <4> QED BY Zenon, <1>4, <2>2, <4>1 DEF Splits
      <3>2. e.sid = s /\ e.ev = "BodyChunk"
        BY Zenon, <3>1 DEF ChunkEvent
      <3> QED BY Zenon, <1>1, <1>2, <3>1, <3>2 DEF SelfQueue
    <2>3. CASE selfq = <<EndEvent(s)>>
      <3>1. e = EndEvent(s) /\ Tail(selfq) = <<>> /\ Len(selfq) = 1
        BY <1>4, <2>3
      <3> QED BY Zenon, <1>1, <1>2, <2>3, <3>1 DEF SelfQueue, EndEvent
    <2> QED BY ZenonT(30), <1>1, <2>1, <2>2, <2>3 DEF SelfQueue
  <1>6. dropq[s] = <<>> /\ dropq'[s] = <<>> /\ enc'[s] = "None"
    BY Zenon, <1>2, <1>5, OneAnswers
  <1>7. selfq' # <<>> => Head(selfq').sid = s /\ Head(selfq').ev # "Headers"
    BY <1>5 DEF ChunkEvent, EndEvent
  <1>8. /\ OwesEnd(s) /\ (OwesHeaders(s) <=> e.ev = "Headers")
        /\ ~OwesHeaders(s)' /\ (OwesEnd(s)' => e.ev # "BodyEnd")
    <2>1. Answers(s) /\ (Answers(s)' => e.ev # "BodyEnd")
      BY Zenon, <1>4, <1>5 DEF Answers
    <2> QED BY Zenon, <1>4, <1>5, <1>6, <1>7, <2>1 DEF OwesEnd, OwesHeaders, Answers
  <1>9. ASSUME NEW r \in StreamIds PROVE handed'[r] = handed[r] + EventLoad(r)[e]
    <2>1. EventLoad(r)[e] = IF r = s THEN e.len ELSE 0
      BY Zenon, <1>5 DEF EventLoad
    <2>2. e.len \in Nat /\ handed' = [handed EXCEPT ![s] = @ + e.len]
      BY Zenon, <1>2, <1>4, <1>5 DEF Events
    <2> QED BY <1>3, <2>1, <2>2
  <1>10. ASSUME NEW r \in StreamIds, r # s PROVE SameDebts(r)
    <2>1. ~Answers(r) /\ ~Answers(r)'
      BY Zenon, <1>4, <1>5, <1>7, <1>10 DEF Answers
    <2> QED BY Zenon, <1>2, <2>1 DEF SameDebts, OwesHeaders, OwesEnd
  <1>11. Producers'
    <2>1. ASSUME NEW r \in StreamIds PROVE DropQueue(r)'
      BY Zenon, <1>2 DEF OInv, Producers, DropQueue
    <2>2. pc' = "respond" => SelfQueue(s, n)'
      BY Zenon, <1>2, <1>5 DEF SelfQueue
    <2> QED BY Zenon, <1>5, <2>1, <2>2 DEF Producers
  <1>12. pc' = pc \/ (pc = "respond" /\ pc' = "loop")
    BY Zenon, <1>2
  <1> QED BY Zenon, <1>2, <1>4, <1>5, <1>8, <1>9, <1>10, <1>11, <1>12, ProduceO

-----------------------------------------------------------------------------
(* handle_event                                                            *)

\* The loop takes an event of s off the channel, and only s changes.
LEMMA TakenO ==
    ASSUME OInv, IInv, pc = "loop", events # <<>>, events' = Tail(events),
           NEW s \in StreamIds, s = Head(events).sid,
           UNCHANGED <<streams, lastSid, pc, cur, frames, selfq, enc, dropq, handed, wire, sent,
                       exit>>,
           \A r \in StreamIds : r # s =>
               headers'[r] = headers[r] /\ body'[r] = body[r] /\ queued'[r] = queued[r],
           StreamInv(s)'
    PROVE  OInv'
  <1>1. lastSid \in Nat /\ events \in Seq(Events)
    BY Zenon DEF IInv, TypeOK, ConnType, TaskType
  <1>2. InOrder(events')
    BY Zenon, <1>1, OrderTail DEF OInv
  <1>3. PassInv' /\ EventsInOrder' /\ Producers'
    BY Zenon DEF OInv, PassInv, EventsInOrder, Producers, DropQueue, SelfQueue
  <1>4. ASSUME NEW r \in StreamIds PROVE OpenBlock(r)'
    BY Zenon DEF OInv, OpenBlock
  <1>5. ASSUME NEW r \in StreamIds, r # s PROVE StreamInv(r)'
    <2>1. SameState(r)
      BY Zenon, <1>5 DEF SameState, Outgoing
    <2>2. SameDebts(r)
      BY Zenon, OtherDebts
    <2>3. SameEvents(r) /\ SameFrames(r)
      BY ZenonT(30), <1>1, <1>5, TakenFromOther, FramesKept
    <2>4. StreamInv(r) /\ lastSid' \in Nat /\ lastSid' >= lastSid
      BY Zenon, <1>1, NotLess DEF OInv
    <2> QED BY Zenon, <1>1, <2>1, <2>2, <2>3, <2>4, OtherStream
  <1>6. \A r \in StreamIds : OpenBlock(r)' /\ StreamInv(r)'
    BY Zenon, <1>4, <1>5
  <1>7. InOrder(events)'
    BY Zenon, <1>2
  <1> QED BY Zenon, <1>3, <1>6, <1>7 DEF OInv

\* What the channel held of s, and what is left of it.
LEMMA TakenEvents ==
    ASSUME OInv, IInv, events # <<>>, NEW s \in StreamIds, s = Head(events).sid
    PROVE  /\ Head(events) \in Events /\ events \in Seq(Events)
           /\ OfStream(events, s) /\ EventOf(events, s, Head(events).ev)
           /\ OfStream(Tail(events), s) => OfStream(events, s)
           /\ ~EventOf(Tail(events), s, "Headers")
           /\ EventOf(Tail(events), s, "BodyEnd") => EventOf(events, s, "BodyEnd")
           /\ Head(events).ev = "BodyEnd" => ~OfStream(Tail(events), s)
           /\ ~OwesHeaders(s)
           /\ Head(events).ev = "BodyEnd" => ~OwesEnd(s)
           /\ \A b \in Int : Bytes(events, EventLoad(s), b) =>
                 Bytes(Tail(events), EventLoad(s), b - EventLoad(s)[Head(events)])
  <1>1. events \in Seq(Events) /\ Head(events) \in Events
    BY DEF IInv, TypeOK, TaskType
  <1>2. Order(s) /\ InOrder(events)
    BY Zenon DEF OInv, StreamInv
  <1>3. OfStream(events, s) /\ EventOf(events, s, Head(events).ev)
    BY Zenon, <1>1, OfTail, EventTail
  <1>4. /\ OfStream(Tail(events), s) => OfStream(events, s)
        /\ EventOf(Tail(events), s, "BodyEnd") => EventOf(events, s, "BodyEnd")
    BY Zenon, <1>1, OfTail, EventTail
  <1>5. /\ ~EventOf(Tail(events), s, "Headers")
        /\ Head(events).ev = "BodyEnd" => ~OfStream(Tail(events), s)
    BY Zenon, <1>1, <1>2, OrderTail
  <1>6. ~OwesHeaders(s) /\ (Head(events).ev = "BodyEnd" => ~OwesEnd(s))
    BY Zenon, <1>2, <1>3 DEF Order
  <1>7. ASSUME NEW b \in Int, Bytes(events, EventLoad(s), b)
        PROVE  Bytes(Tail(events), EventLoad(s), b - EventLoad(s)[Head(events)])
    BY Zenon, <1>1, <1>7, BytesTail, LoadTypes
  <1> QED BY Zenon, <1>1, <1>3, <1>4, <1>5, <1>6, <1>7

\* handle_event drops an event of a stream that is gone.
LEMMA IgnoreEventO ==
    ASSUME OInv, IInv, IgnoreEvent
    PROVE  OInv'
  <1>1. /\ pc = "loop" /\ events # <<>> /\ events' = Tail(events)
        /\ ~Outgoing(Head(events).sid)
        /\ UNCHANGED <<streams, headers, body, queued, lastSid, pc, cur, frames, selfq, enc, dropq,
                       handed, wire, sent, exit>>
    BY Zenon DEF IgnoreEvent, outVars, connVars, passVars, taskVars, wireVars
  <1>2. PICK s \in StreamIds : s = Head(events).sid
    <2>1. Head(events) \in Events
      BY <1>1 DEF IInv, TypeOK, TaskType
    <2> QED BY Zenon, <2>1 DEF Events
  <1>3. StreamInv(s) /\ ~Outgoing(s)' /\ ~Outgoing(s)
    BY Zenon, <1>1, <1>2 DEF OInv, Outgoing
  <1>4. SameDebts(s)
    BY Zenon, <1>1, OtherDebts
  <1>5. Order(s)'
    <2>1. OwesEnd(s) => ~EventOf(events', s, "BodyEnd") /\ wire[s] # "ended"
      BY Zenon, <1>1, <1>2, <1>3, TakenEvents DEF StreamInv, Order
    <2>2. ~OwesHeaders(s)'
      BY Zenon, <1>1, <1>2, <1>4, TakenEvents DEF SameDebts
    <2>3. OwesEnd(s)' => ~EventOf(events, s, "BodyEnd")' /\ wire'[s] # "ended"
      BY Zenon, <1>1, <1>4, <2>1 DEF SameDebts
    <2> QED BY Zenon, <1>3, <2>2, <2>3 DEF Order
  <1>6. Untouched(s)'
    <2>1. OfStream(events', s) => OfStream(events, s)
      BY Zenon, <1>1, <1>2, TakenEvents
    <2> QED BY Zenon, <1>1, <1>3, <2>1 DEF StreamInv, Untouched
  <1>7. Framing(s)' /\ Conserved(s)' /\ Complete(s)'
    BY Zenon, <1>1, <1>3 DEF StreamInv, Framing, Conserved, Complete
  <1>8. StreamInv(s)'
    BY Zenon, <1>5, <1>6, <1>7 DEF StreamInv
  <1> QED BY Zenon, <1>1, <1>2, <1>8, TakenO

\* An event of a stream with an outgoing half: the state it changes goes on
\* in the order of the response, and the bytes it carries are queued.
LEMMA HandledO ==
    ASSUME OInv, IInv, pc = "loop", events # <<>>, events' = Tail(events),
           NEW s \in StreamIds, s = Head(events).sid, Outgoing(s),
           UNCHANGED <<streams, lastSid, pc, cur, frames, selfq, enc, dropq, handed, wire, sent,
                       exit>>,
           \A r \in StreamIds : r # s =>
               headers'[r] = headers[r] /\ body'[r] = body[r] /\ queued'[r] = queued[r],
           headers'[s] = IF Head(events).ev = "Headers" THEN "WroteNone" ELSE headers[s],
           body'[s] = IF Head(events).ev = "BodyEnd" THEN "DoneReceiving" ELSE body[s],
           queued'[s] = queued[s] + EventLoad(s)[Head(events)]
    PROVE  OInv'
  <1>1. StreamInv(s) /\ frames = <<>>
    BY Zenon DEF OInv, PassInv
  <1>2. Outgoing(s)'
    BY Zenon DEF Outgoing
  <1>3. SameDebts(s)
    BY Zenon, OtherDebts
  <1>4. body[s] = "StillReceiving"
    BY Zenon, <1>1, TakenEvents DEF StreamInv, Order
  <1>5. Head(events).ev = "Headers" => headers[s] = "WaitingForHeaders"
    BY Zenon, <1>1, TakenEvents DEF StreamInv, Order
  <1>6. Order(s)'
    <2>1. ~OwesHeaders(s)' /\ ~EventOf(events, s, "Headers")'
      BY Zenon, <1>3, TakenEvents DEF SameDebts
    <2>2. OwesEnd(s) => ~EventOf(events', s, "BodyEnd") /\ wire[s] # "ended"
                        /\ Head(events).ev # "BodyEnd"
      BY Zenon, <1>1, TakenEvents DEF StreamInv, Order
    <2>3. OwesEnd(s)' => ~EventOf(events, s, "BodyEnd")' /\ wire'[s] # "ended"
                         /\ body'[s] = "StillReceiving"
      BY Zenon, <1>3, <1>4, <2>2 DEF SameDebts
    <2>4. OfStream(events, s)' => body'[s] = "StillReceiving"
      BY Zenon, <1>4, TakenEvents
    <2> QED BY Zenon, <2>1, <2>3, <2>4 DEF Order
  <1>7. Untouched(s)'
    <2>1. OfStream(events, s)
      BY Zenon, TakenEvents
    <2> QED BY Zenon, <1>1, <2>1 DEF StreamInv, Untouched
  <1>8. Framing(s)'
    <2>1. ~OfStream(frames, s) /\ ~HeaderOf(frames, s) /\ ~ClosedOf(frames, s)
          /\ ~StreamEndOf(frames, s)
      BY Zenon, <1>1, NothingQueued
    <2>2. ~OfStream(frames, s)' /\ ~HeaderOf(frames, s)' /\ ~ClosedOf(frames, s)'
          /\ ~StreamEndOf(frames, s)'
      BY Zenon, <2>1
    <2>3. wire[s] \in {"idle", "headers"} \/ headers[s] = "WroteAll"
      BY Zenon, <1>1 DEF StreamInv, Framing
    <2>4. headers'[s] = "WroteAll" => headers[s] = "WroteAll" /\ wire[s] = "body"
      BY Zenon, <1>1, <2>1 DEF StreamInv, Framing
    <2>5. headers'[s] # "WroteAll" => headers[s] # "WroteAll"
      BY Zenon, <1>5
    <2> QED BY Zenon, <2>2, <2>3, <2>4, <2>5 DEF Framing
  <1>9. Conserved(s)'
    <2> PICK a \in Int, b \in Int : /\ Bytes(frames, FrameLoad(s), a)
                                    /\ Bytes(events, EventLoad(s), b)
                                    /\ handed[s] = sent[s] + a + queued[s] + b
      BY Zenon, <1>1 DEF StreamInv, Conserved
    <2> PICK n \in Nat : n = EventLoad(s)[Head(events)]
      BY Zenon, LoadTypes, TakenEvents
    <2>1. Bytes(events', EventLoad(s), b - n)
      BY Zenon, TakenEvents
    <2>2. handed'[s] = sent'[s] + a + queued'[s] + (b - n) /\ b - n \in Int
      <3>1. queued'[s] = queued[s] + n /\ sent[s] \in Nat /\ queued[s] \in Nat
            /\ handed'[s] = handed[s] /\ sent'[s] = sent[s]
        BY ZenonT(30) DEF IInv, TypeOK, StreamsType, WireType
      <3>2. SameSum(a, b, n)
        BY ZenonT(30), MovedBytes
      <3>3. handed[s] = sent[s] + a + (queued[s] + n) + (b - n)
        BY ZenonT(30), <3>1, <3>2 DEF SameSum
      <3> QED BY Zenon, <3>1, <3>3, BytesAreNumbers
    <2>3. Bytes(frames, FrameLoad(s), a)' /\ Bytes(events, EventLoad(s), b - n)'
      BY Zenon, <2>1
    <2>4. body'[s] # "DoneSending"
      BY Zenon, <1>4
    <2> QED BY Zenon, <2>2, <2>3, <2>4 DEF Conserved
  <1>10. Complete(s)'
    BY Zenon, <1>1 DEF StreamInv, Complete
  <1>11. StreamInv(s)'
    BY Zenon, <1>6, <1>7, <1>8, <1>9, <1>10 DEF StreamInv
  <1> QED BY Zenon, <1>11, TakenO

\* Every event handle_event takes.
LEMMA HandleEventO ==
    ASSUME OInv, IInv, HandleEvent
    PROVE  OInv'
  <1>1. CASE IgnoreEvent
    BY Zenon, <1>1, IgnoreEventO
  <1>2. CASE HandleHeaders \/ HandleBodyChunk \/ HandleBodyEnd
    <2>1. pc = "loop" /\ events # <<>> /\ Outgoing(Head(events).sid)
      BY Zenon, <1>2 DEF HandleHeaders, HandleBodyChunk, HandleBodyEnd, Takes
    <2>2. PICK s \in StreamIds : s = Head(events).sid
      <3>1. Head(events) \in Events
        BY <2>1 DEF IInv, TypeOK, TaskType
      <3> QED BY Zenon, <3>1 DEF Events
    <2>3. body[s] = "StillReceiving"
      BY Zenon, <2>1, <2>2, TakenEvents DEF OInv, StreamInv, Order
    <2>4. /\ headers \in [StreamIds -> {"WaitingForHeaders", "WroteNone", "WroteSome", "WroteAll"}]
          /\ body \in [StreamIds -> {"StillReceiving", "DoneReceiving", "DoneSending"}]
          /\ queued \in [StreamIds -> Nat] /\ Head(events) \in Events
      BY ZenonT(30), <2>1, <2>2, TakenEvents DEF IInv, TypeOK, StreamsType
    <2>5. CASE HandleHeaders
      <3>1. /\ headers' = [headers EXCEPT ![s] = "WroteNone"] /\ events' = Tail(events)
            /\ Head(events).ev = "Headers"
            /\ UNCHANGED <<body, queued, streams, lastSid, pc, cur, frames, selfq, enc, dropq,
                           handed, wire, sent, exit>>
        BY Zenon, <2>2, <2>3, <2>5
           DEF HandleHeaders, Takes, connVars, passVars, taskVars, wireVars
      <3>2. EventLoad(s)[Head(events)] = 0
        BY Zenon, <2>4, <3>1 DEF EventLoad
      <3>3. /\ headers'[s] = "WroteNone" /\ queued[s] + EventLoad(s)[Head(events)] = queued[s]
            /\ \A r \in StreamIds : r # s => headers'[r] = headers[r]
        BY Zenon, <2>4, <3>1, <3>2, AddNothing
      <3> QED BY Zenon, <2>1, <2>2, <3>1, <3>3, HandledO
    <2>6. CASE HandleBodyChunk
      <3>1. /\ queued' = [queued EXCEPT ![s] = @ + Head(events).len] /\ events' = Tail(events)
            /\ Head(events).ev = "BodyChunk"
            /\ UNCHANGED <<body, headers, streams, lastSid, pc, cur, frames, selfq, enc, dropq,
                           handed, wire, sent, exit>>
        BY Zenon, <2>2, <2>3, <2>6
           DEF HandleBodyChunk, Takes, connVars, passVars, taskVars, wireVars
      <3>2. EventLoad(s)[Head(events)] = Head(events).len
        BY ZenonT(30), <2>2, <2>4, <3>1 DEF EventLoad
      <3> QED BY Zenon, <2>1, <2>2, <2>4, <3>1, <3>2, HandledO
    <2>7. CASE HandleBodyEnd
      <3>1. /\ body' = [body EXCEPT ![s] = "DoneReceiving"] /\ events' = Tail(events)
            /\ Head(events).ev = "BodyEnd"
            /\ UNCHANGED <<headers, queued, streams, lastSid, pc, cur, frames, selfq, enc, dropq,
                           handed, wire, sent, exit>>
        BY Zenon, <2>2, <2>3, <2>7
           DEF HandleBodyEnd, Takes, connVars, passVars, taskVars, wireVars
      <3>2. EventLoad(s)[Head(events)] = 0
        BY Zenon, <2>4, <3>1 DEF EventLoad
      <3>3. /\ body'[s] = "DoneReceiving" /\ queued[s] + EventLoad(s)[Head(events)] = queued[s]
            /\ \A r \in StreamIds : r # s => body'[r] = body[r]
        BY Zenon, <2>4, <3>1, <3>2, AddNothing
      <3> QED BY Zenon, <2>1, <2>2, <3>1, <3>3, HandledO
    <2> QED BY Zenon, <1>2, <2>5, <2>6, <2>7
  <1> QED BY Zenon, <1>1, <1>2 DEF HandleEvent

-----------------------------------------------------------------------------
(* send_data_maybe and write_frame                                         *)

\* The pass moves on without touching a stream.
LEMMA PassMoveO ==
    ASSUME OInv, IInv,
           UNCHANGED <<streams, headers, body, queued, lastSid, frames, selfq, events, enc, dropq,
                       handed, wire, sent, exit>>,
           pc # "respond", pc' # "respond", pc = "write" /\ frames # <<>> => pc' = "write",
           PassInv'
    PROVE  OInv'
  <1>1. lastSid \in Nat /\ selfq = <<>>
    BY Zenon DEF IInv, TypeOK, ConnType, OInv, Producers
  <1>2. InOrder(events)' /\ EventsInOrder'
    BY Zenon DEF OInv, EventsInOrder
  <1>3. Producers'
    BY Zenon, <1>1 DEF OInv, Producers, DropQueue
  <1>4. ASSUME NEW r \in StreamIds PROVE OpenBlock(r)' /\ StreamInv(r)'
    <2>1. OpenBlock(r)'
      BY Zenon DEF OInv, OpenBlock
    <2>2. SameState(r)
      BY Zenon DEF SameState, Outgoing
    <2>3. SameDebts(r) /\ StreamInv(r) /\ lastSid' \in Nat /\ lastSid' >= lastSid
      BY Zenon, <1>1, OtherDebts, NotLess DEF OInv
    <2>4. StreamInv(r)'
      BY Zenon, <1>1, <2>2, <2>3, OtherStream, EventsKept, FramesKept
    <2> QED BY Zenon, <2>1, <2>4
  <1> QED BY Zenon, <1>2, <1>3, <1>4 DEF OInv

\* A pass of send_data_maybe begins.
LEMMA BeginPassO ==
    ASSUME OInv, IInv, BeginPass
    PROVE  OInv'
  <1>1. /\ pc = "loop" /\ pc' = "each"
        /\ UNCHANGED <<streams, headers, body, queued, lastSid, frames, selfq, events, enc, dropq,
                       handed, wire, sent, exit>>
    BY Zenon DEF BeginPass, outVars, connVars, taskVars, wireVars
  <1>2. PassInv'
    BY Zenon, <1>1 DEF OInv, PassInv
  <1> QED BY Zenon, <1>1, <1>2, PassMoveO

\* It comes to the next stream.
LEMMA VisitStreamO ==
    ASSUME OInv, IInv, NEW s \in StreamIds, VisitStream(s)
    PROVE  OInv'
  <1>1. CASE Ends("panic: pending stream is not outgoing")
    BY Zenon, <1>1, EndsO
  <1>2. CASE ~Ends("panic: pending stream is not outgoing")
    <2>1. /\ pc = "each" /\ Outgoing(s)
          /\ \/ pc' = pc /\ cur' = cur
             \/ /\ headers[s] # "WaitingForHeaders" /\ cur' = s
                /\ pc' = IF headers[s] = "WroteAll" THEN "body" ELSE "headers"
          /\ UNCHANGED <<streams, headers, body, queued, lastSid, frames, selfq, events, enc, dropq,
                         handed, wire, sent, exit>>
      BY Zenon, <1>2 DEF VisitStream, outVars, connVars, taskVars, wireVars
    <2>2. Framed(frames) /\ Contiguous(frames, NoStream)
      BY Zenon, <2>1 DEF OInv, PassInv
    <2>3. Contiguous(frames, s)
      BY Zenon, <2>2, NoBlockAppend DEF IInv, TypeOK, LoopType
    <2>4. CASE pc' = pc /\ cur' = cur
      <3>1. PassInv'
        BY Zenon, <2>1, <2>2, <2>4 DEF PassInv
      <3> QED BY Zenon, <2>1, <2>4, <3>1, PassMoveO
    <2>5. CASE /\ headers[s] # "WaitingForHeaders" /\ cur' = s
               /\ pc' = IF headers[s] = "WroteAll" THEN "body" ELSE "headers"
      <3>1. headers[s] \in {"WroteNone", "WroteSome", "WroteAll"}
        BY Zenon, <2>5 DEF IInv, TypeOK, StreamsType
      <3>2. Framed(frames)' /\ Contiguous(frames, NoStream)' /\ Contiguous(frames, s)'
            /\ Outgoing(s)'
        BY Zenon, <2>1, <2>2, <2>3 DEF Outgoing
      <3>3. PassInv'
        BY Zenon, <2>1, <2>5, <3>1, <3>2 DEF PassInv
      <3>4. pc' # "respond"
        BY Zenon, <2>5
      <3> QED BY Zenon, <2>1, <3>3, <3>4, PassMoveO
    <2> QED BY Zenon, <2>1, <2>4, <2>5
  <1> QED BY Zenon, <1>1, <1>2

\* It leaves a stream, begins to write, and ends.
LEMMA PassEndsO ==
    ASSUME OInv, IInv, LeaveStream \/ BeginWriting \/ EndPass
    PROVE  OInv'
  <1>1. /\ \/ pc = "body" /\ pc' = "each"
           \/ pc = "each" /\ pc' = "write"
           \/ pc = "write" /\ pc' = "loop" /\ frames = <<>>
        /\ UNCHANGED <<streams, headers, body, queued, lastSid, frames, selfq, events, enc, dropq,
                       handed, wire, sent, exit>>
    BY Zenon
       DEF LeaveStream, BeginWriting, EndPass, outVars, connVars, passVars, taskVars, wireVars
  <1>2. PassInv'
    BY Zenon, <1>1 DEF OInv, PassInv
  <1> QED BY Zenon, <1>1, <1>2, PassMoveO

\* A frame of s is queued, or written: only s changes.
LEMMA FrameStepO ==
    ASSUME OInv, IInv, NEW s \in StreamIds,
           UNCHANGED <<lastSid, selfq, events, enc, dropq, handed, exit>>,
           pc # "respond", pc' # "respond",
           \A r \in StreamIds : r # s => SameState(r) /\ SameFrames(r),
           StreamInv(s)', PassInv', \A r \in StreamIds : OpenBlock(r)'
    PROVE  OInv'
  <1>1. lastSid \in Nat /\ selfq = <<>>
    BY Zenon DEF IInv, TypeOK, ConnType, OInv, Producers
  <1>2. InOrder(events)' /\ EventsInOrder'
    BY Zenon DEF OInv, EventsInOrder
  <1>3. Producers'
    BY Zenon, <1>1 DEF OInv, Producers, DropQueue
  <1>4. ASSUME NEW r \in StreamIds, r # s PROVE StreamInv(r)'
    <2>1. SameDebts(r) /\ StreamInv(r) /\ lastSid' \in Nat /\ lastSid' >= lastSid
      BY Zenon, <1>1, OtherDebts, NotLess DEF OInv
    <2> QED BY ZenonT(30), <1>1, <1>4, <2>1, OtherStream, EventsKept
  <1>5. \A r \in StreamIds : StreamInv(r)'
    BY Zenon, <1>4
  <1> QED BY Zenon, <1>2, <1>3, <1>5 DEF OInv

\* HEADERS or CONTINUATION is queued.
LEMMA QueueHeaderFrameO ==
    ASSUME OInv, IInv, QueueHeaderFrame
    PROVE  OInv'
  <1>1. pc = "headers"
    BY Zenon DEF QueueHeaderFrame
  <1>2. PICK s \in StreamIds : s = cur
    BY Zenon, <1>1 DEF IInv, TypeOK, LoopType
  <1>3. /\ headers \in [StreamIds -> {"WaitingForHeaders", "WroteNone", "WroteSome", "WroteAll"}]
        /\ frames \in Seq(Frames) /\ headerLen[s] \in Nat /\ maxFrame \in Nat
        /\ body \in [StreamIds -> {"StillReceiving", "DoneReceiving", "DoneSending"}]
    BY Zenon DEF IInv, TypeOK, StreamsType, LoopType, ConnType
  <1>4. PICK f \in Frames :
          /\ f.sid = s /\ f.type # "DATA" /\ frames' = Append(frames, f)
          /\ headers' = [headers EXCEPT ![s] = IF f.end THEN "WroteAll" ELSE "WroteSome"]
          /\ pc' = IF f.end THEN "body" ELSE "headers"
          /\ UNCHANGED <<streams, body, queued, lastSid, cur, selfq, events, enc, dropq, handed,
                         wire, sent, exit>>
    <2> DEFINE last == headerLen[s] <= maxFrame
               type == IF headers[s] = "WroteSome" THEN "CONTINUATION" ELSE "HEADERS"
               g == [sid |-> s, type |-> type, len |-> Min(headerLen[s], maxFrame), end |-> last]
    <2>1. g \in Frames /\ g.sid = s /\ g.type # "DATA" /\ g.end = last
      <3>1. Min(headerLen[s], maxFrame) \in Nat
        BY Zenon, <1>3 DEF Min
      <3>2. last \in BOOLEAN /\ type \in {"HEADERS", "CONTINUATION"}
        OBVIOUS
      <3> HIDE DEF last, type
      <3> QED BY Zenon, <3>1, <3>2 DEF Frames
    <2>2. /\ frames' = Append(frames, g)
          /\ headers' = [headers EXCEPT ![s] = IF last THEN "WroteAll" ELSE "WroteSome"]
          /\ pc' = IF last THEN "body" ELSE "headers"
          /\ UNCHANGED <<streams, body, queued, lastSid, cur, selfq, events, enc, dropq, handed,
                         wire, sent, exit>>
      BY Zenon, <1>2 DEF QueueHeaderFrame, connVars, taskVars, wireVars
    <2> HIDE DEF g, last
    <2> QED BY Zenon, <2>1, <2>2
  <1>5. StreamInv(s) /\ PassInv /\ Outgoing(s) /\ Outgoing(s)'
    BY Zenon, <1>1, <1>2, <1>4 DEF OInv, PassInv, Outgoing
  <1>6. headers[s] \in {"WroteNone", "WroteSome"} /\ Contiguous(frames, s) /\ Framed(frames)
    BY Zenon, <1>1, <1>2, <1>5 DEF PassInv
  <1>7. wire[s] \in {"idle", "headers"} /\ ~ClosedOf(frames, s) /\ ~StreamEndOf(frames, s)
    <2>1. wire[s] \in {"idle", "headers"} /\ ~ClosedOf(frames, s)
      BY Zenon, <1>5, <1>6 DEF StreamInv, Framing
    <2> QED BY Zenon, <2>1 DEF ClosedOf, StreamEndOf
  <1>8. /\ OfStream(frames', s) /\ HeaderOf(frames', s) /\ ~StreamEndOf(frames', s)
        /\ ClosedOf(frames', s) => f.end
    BY Zenon, <1>3, <1>4, <1>7, OfAppend, FrameAppend
  <1>9. headers'[s] = IF f.end THEN "WroteAll" ELSE "WroteSome"
    BY Zenon, <1>3, <1>4
  <1>10. PassInv'
    <2>1. Framed(frames')
      BY Zenon, <1>3, <1>4, <1>6, <1>7, FramedAppend
    <2>2. Contiguous(frames', IF f.end THEN NoStream ELSE s)
      BY Zenon, <1>3, <1>4, <1>6, BlockAppend
    <2>3. Contiguous(frames', IF pc' = "headers" THEN cur' ELSE NoStream)
      BY Zenon, <1>2, <1>4, <2>2
    <2>4. cur' = s /\ pc' \in {"body", "headers"}
      BY Zenon, <1>2, <1>4
    <2> QED BY Zenon, <1>4, <1>5, <1>9, <2>1, <2>3, <2>4 DEF PassInv
  <1>11. StreamInv(s)'
    <2>1. SameDebts(s)
      BY Zenon, <1>4, OtherDebts
    <2>2. Order(s)'
      <3>1. ~OwesHeaders(s) /\ ~EventOf(events, s, "Headers")
        BY Zenon, <1>5, <1>6 DEF StreamInv, Order
      <3>2. ~OwesHeaders(s)' /\ ~EventOf(events, s, "Headers")' /\ (OwesEnd(s)' => OwesEnd(s))
        BY Zenon, <1>4, <2>1, <3>1 DEF SameDebts
      <3> QED BY Zenon, <1>4, <1>5, <3>2 DEF StreamInv, Order
    <2>3. Untouched(s)' /\ Complete(s)'
      BY Zenon, <1>4, <1>5 DEF StreamInv, Untouched, Complete
    <2>4. Framing(s)'
      BY Zenon, <1>4, <1>5, <1>7, <1>8, <1>9 DEF Framing
    <2>5. Conserved(s)'
      <3> PICK a \in Int, b \in Int : /\ Bytes(frames, FrameLoad(s), a)
                                      /\ Bytes(events, EventLoad(s), b)
                                      /\ handed[s] = sent[s] + a + queued[s] + b
        BY Zenon, <1>5 DEF StreamInv, Conserved
      <3>1. FrameLoad(s)[f] = 0
        BY Zenon, <1>4 DEF FrameLoad
      <3>2. Bytes(frames', FrameLoad(s), a + FrameLoad(s)[f])
        BY ZenonT(30), <1>3, <1>4, BytesAppend, LoadTypes
      <3>3. Bytes(frames', FrameLoad(s), a)
        BY <3>1, <3>2
      <3>4. Bytes(frames, FrameLoad(s), a)' /\ Bytes(events, EventLoad(s), b)'
        BY Zenon, <1>4, <3>3
      <3>5. handed'[s] = sent'[s] + a + queued'[s] + b
            /\ (body'[s] = "DoneSending" => queued'[s] = 0)
        BY Zenon, <1>4, <1>5 DEF StreamInv, Conserved
      <3> QED BY Zenon, <3>4, <3>5 DEF Conserved
    <2> QED BY Zenon, <2>2, <2>3, <2>4, <2>5 DEF StreamInv
  <1>12. ASSUME NEW r \in StreamIds PROVE OpenBlock(r)'
    BY Zenon, <1>1, <1>4 DEF OInv, OpenBlock
  <1>13. ASSUME NEW r \in StreamIds, r # s PROVE SameState(r) /\ SameFrames(r)
    <2>1. SameState(r)
      BY Zenon, <1>3, <1>4, <1>13 DEF SameState, Outgoing
    <2> QED BY Zenon, <1>3, <1>4, <1>13, <2>1, FrameOfOther
  <1>14. pc # "respond" /\ pc' # "respond"
    BY Zenon, <1>1, <1>4
  <1> QED BY Zenon, <1>4, <1>10, <1>11, <1>12, <1>13, <1>14, FrameStepO

\* What 'queue_body_frames does to the stream and the frames vector.
LEMMA DataFrameQueued ==
    ASSUME IInv, QueueDataFrame
    PROVE  \E n \in Nat, done \in BOOLEAN :
             /\ n <= queued[cur] /\ body[cur] # "DoneSending"
             /\ done => body[cur] = "DoneReceiving" /\ n = queued[cur]
             /\ queued' = [queued EXCEPT ![cur] = queued[cur] - n]
             /\ body' = [body EXCEPT ![cur] = IF done THEN "DoneSending" ELSE body[cur]]
             /\ \/ frames' = frames /\ n = 0 /\ ~done
                \/ frames' = Append(frames, [sid |-> cur, type |-> "DATA", len |-> n, end |-> done])
             /\ pc = "body" /\ pc' \in {"body", "each"}
             /\ UNCHANGED <<streams, headers, lastSid, cur, selfq, events, enc, dropq, handed,
                            wire, sent, exit>>
  <1> DEFINE n == Min(queued[cur], Min(maxFrame, left))
             done == Finishes(n)
  <1>1. cur \in StreamIds
    BY Zenon DEF IInv, TypeOK, LoopType, QueueDataFrame
  <1>2. queued[cur] \in Nat /\ maxFrame \in Nat /\ left \in Nat
    BY Zenon, <1>1 DEF IInv, TypeOK, StreamsType, ConnType, LoopType
  <1>3. n \in Nat /\ n <= queued[cur]
    BY <1>2 DEF Min
  <1>4. done \in BOOLEAN /\ (done => body[cur] = "DoneReceiving" /\ n = queued[cur])
    BY Zenon DEF Finishes
  <1>5. /\ body[cur] # "DoneSending" /\ pc = "body"
        /\ queued' = [queued EXCEPT ![cur] = queued[cur] - n]
        /\ body' = [body EXCEPT ![cur] = IF done THEN "DoneSending" ELSE body[cur]]
        /\ frames' = IF done \/ n > 0
                       THEN Append(frames, [sid |-> cur, type |-> "DATA", len |-> n, end |-> done])
                       ELSE frames
        /\ pc' = IF (done \/ n > 0) /\ ~done THEN "body" ELSE "each"
        /\ UNCHANGED <<streams, headers, lastSid, cur, selfq, events, enc, dropq, handed,
                       wire, sent, exit>>
    BY Zenon DEF QueueDataFrame, connVars, taskVars, wireVars
  <1> HIDE DEF n, done
  <1>6. ~(done \/ n > 0) => n = 0 /\ ~done
    BY <1>3
  <1> QED BY Zenon, <1>3, <1>4, <1>5, <1>6

\* DATA is queued, or there is nothing to send.
LEMMA QueueDataFrameO ==
    ASSUME OInv, IInv, QueueDataFrame
    PROVE  OInv'
  <1>1. PICK n \in Nat, done \in BOOLEAN :
             /\ n <= queued[cur] /\ body[cur] # "DoneSending"
             /\ done => body[cur] = "DoneReceiving" /\ n = queued[cur]
             /\ queued' = [queued EXCEPT ![cur] = queued[cur] - n]
             /\ body' = [body EXCEPT ![cur] = IF done THEN "DoneSending" ELSE body[cur]]
             /\ \/ frames' = frames /\ n = 0 /\ ~done
                \/ frames' = Append(frames, [sid |-> cur, type |-> "DATA", len |-> n, end |-> done])
             /\ pc = "body" /\ pc' \in {"body", "each"}
             /\ UNCHANGED <<streams, headers, lastSid, cur, selfq, events, enc, dropq, handed,
                            wire, sent, exit>>
    BY Zenon, DataFrameQueued
  <1>2. PICK s \in StreamIds : s = cur
    BY Zenon, <1>1 DEF IInv, TypeOK, LoopType
  <1>3. /\ frames \in Seq(Frames) /\ queued \in [StreamIds -> Nat] /\ sent[s] \in Nat
        /\ body \in [StreamIds -> {"StillReceiving", "DoneReceiving", "DoneSending"}]
    BY Zenon DEF IInv, TypeOK, StreamsType, LoopType, WireType
  <1>4. StreamInv(s) /\ PassInv /\ Outgoing(s) /\ Outgoing(s)' /\ headers[s] = "WroteAll"
    BY Zenon, <1>1, <1>2 DEF OInv, PassInv, Outgoing
  <1>5. /\ queued'[s] = queued[s] - n /\ (done => queued'[s] = 0)
        /\ body'[s] = IF done THEN "DoneSending" ELSE body[s]
        /\ body[s] # "DoneSending"
        /\ done => body[s] = "DoneReceiving"
        /\ \A r \in StreamIds : r # s => queued'[r] = queued[r] /\ body'[r] = body[r]
    <2>1. /\ queued'[s] = queued[s] - n
          /\ body'[s] = IF done THEN "DoneSending" ELSE body[s]
          /\ body[s] # "DoneSending"
          /\ done => body[s] = "DoneReceiving" /\ n = queued[s]
          /\ \A r \in StreamIds : r # s => queued'[r] = queued[r] /\ body'[r] = body[r]
      BY Zenon, <1>1, <1>2, <1>3
    <2>2. queued[s] \in Nat
      BY Zenon, <1>3
    <2> QED BY <2>1, <2>2
  <1>6. /\ Contiguous(frames, NoStream) /\ Framed(frames) /\ ~StreamEndOf(frames, s)
        /\ wire[s] = "body" \/ HeaderOf(frames, s)
    BY Zenon, <1>1, <1>4, <1>5 DEF PassInv, StreamInv, Framing
  <1>7. /\ Framed(frames') /\ Contiguous(frames', NoStream)
        /\ HeaderOf(frames', s) <=> HeaderOf(frames, s)
        /\ StreamEndOf(frames', s) => done
        /\ \A r \in StreamIds : r # s => SameFrames(r)
        /\ \A a \in Int : Bytes(frames, FrameLoad(s), a) => Bytes(frames', FrameLoad(s), a + n)
    <2>1. CASE frames' = frames /\ n = 0
      <3>1. \A a \in Int : a + n = a
        BY <2>1
      <3> QED BY Zenon, <1>6, <2>1, <3>1, FramesKept
    <2>2. CASE frames' = Append(frames, [sid |-> cur, type |-> "DATA", len |-> n, end |-> done])
      <3>1. PICK f \in Frames : /\ f.sid = s /\ f.type = "DATA" /\ f.len = n /\ f.end = done
                                /\ frames' = Append(frames, f)
        BY Zenon, <1>2, <2>2 DEF Frames
      <3>2. Framed(frames')
        BY Zenon, <1>3, <1>6, <3>1, FramedAppend
      <3>3. Contiguous(frames', NoStream)
        BY Zenon, <1>3, <1>6, <3>1, NoBlockAppend
      <3>4. /\ HeaderOf(frames', s) <=> HeaderOf(frames, s)
            /\ StreamEndOf(frames', s) => done
        BY Zenon, <1>3, <1>6, <3>1, FrameAppend
      <3>5. FrameLoad(s)[f] = n
        BY Zenon, <3>1 DEF FrameLoad
      <3>6. ASSUME NEW a \in Int, Bytes(frames, FrameLoad(s), a)
            PROVE  Bytes(frames', FrameLoad(s), a + n)
        BY Zenon, <1>3, <3>1, <3>5, <3>6, BytesAppend, LoadTypes
      <3>7. ASSUME NEW r \in StreamIds, r # s PROVE SameFrames(r)
        BY Zenon, <1>3, <3>1, <3>7, FrameOfOther
      <3> QED BY Zenon, <3>2, <3>3, <3>4, <3>6, <3>7
    <2> QED BY Zenon, <1>1, <2>1, <2>2
  <1>8. PassInv'
    <2>1. cur' = s /\ headers'[s] = "WroteAll" /\ pc' \in {"body", "each"}
      BY Zenon, <1>1, <1>2, <1>4
    <2>2. Contiguous(frames', IF pc' = "headers" THEN cur' ELSE NoStream)
      BY Zenon, <1>7, <2>1
    <2> QED BY Zenon, <1>4, <1>7, <2>1, <2>2 DEF PassInv
  <1>9. StreamInv(s)'
    <2>1. SameDebts(s)
      BY Zenon, <1>1, OtherDebts
    <2>2. Order(s)'
      <3>1. /\ ~OwesHeaders(s) /\ ~EventOf(events, s, "Headers")
            /\ OwesEnd(s) => ~EventOf(events, s, "BodyEnd") /\ wire[s] # "ended" /\ ~done
                             /\ body[s] = "StillReceiving"
            /\ OfStream(events, s) => body[s] = "StillReceiving" /\ ~done
        BY Zenon, <1>4, <1>5 DEF StreamInv, Order
      <3>2. /\ ~OwesHeaders(s)' /\ ~EventOf(events, s, "Headers")'
            /\ OwesEnd(s)' => ~EventOf(events, s, "BodyEnd")' /\ wire'[s] # "ended"
                              /\ body'[s] = "StillReceiving"
            /\ OfStream(events, s)' => body'[s] = "StillReceiving"
        BY Zenon, <1>1, <1>5, <2>1, <3>1 DEF SameDebts
      <3> QED BY Zenon, <3>2 DEF Order
    <2>3. Untouched(s)' /\ Complete(s)'
      BY Zenon, <1>1, <1>4 DEF StreamInv, Untouched, Complete
    <2>4. Framing(s)'
      <3>1. HeaderOf(frames, s) => wire[s] \in {"idle", "headers"}
        BY Zenon, <1>4 DEF StreamInv, Framing
      <3>2. /\ HeaderOf(frames, s)' => wire'[s] \in {"idle", "headers"}
            /\ wire'[s] = "body" \/ HeaderOf(frames, s)'
            /\ StreamEndOf(frames, s)' => body'[s] = "DoneSending"
            /\ headers'[s] = "WroteAll"
        BY Zenon, <1>1, <1>4, <1>5, <1>6, <1>7, <3>1
      <3> QED BY Zenon, <1>4, <3>2 DEF Framing
    <2>5. Conserved(s)'
      <3> PICK a \in Int, b \in Int : /\ Bytes(frames, FrameLoad(s), a)
                                      /\ Bytes(events, EventLoad(s), b)
                                      /\ handed[s] = sent[s] + a + queued[s] + b
        BY Zenon, <1>4 DEF StreamInv, Conserved
      <3>1. Bytes(frames', FrameLoad(s), a + n)
        BY Zenon, <1>7
      <3>2. Bytes(frames, FrameLoad(s), a + n)' /\ Bytes(events, EventLoad(s), b)'
        BY ZenonT(30), <1>1, <3>1
      <3>3. \A x, y \in Nat : x + a + y + b = x + (a + n) + (y - n) + b
        BY SMTT(30)
      <3>4. handed[s] = sent[s] + (a + n) + (queued[s] - n) + b
        BY Zenon, <1>3, <3>3
      <3>5. handed'[s] = sent'[s] + (a + n) + queued'[s] + b /\ a + n \in Int
        BY Zenon, <1>1, <1>5, <3>4, BytesAreNumbers
      <3>6. body'[s] = "DoneSending" => queued'[s] = 0
        BY Zenon, <1>5
      <3> QED BY Zenon, <3>2, <3>5, <3>6 DEF Conserved
    <2> QED BY Zenon, <2>2, <2>3, <2>4, <2>5 DEF StreamInv
  <1>10. ASSUME NEW r \in StreamIds PROVE OpenBlock(r)'
    BY Zenon, <1>1 DEF OInv, OpenBlock
  <1>11. ASSUME NEW r \in StreamIds, r # s PROVE SameState(r) /\ SameFrames(r)
    BY Zenon, <1>1, <1>5, <1>7, <1>11 DEF SameState, Outgoing
  <1>12. pc # "respond" /\ pc' # "respond"
    BY Zenon, <1>1
  <1> QED BY Zenon, <1>1, <1>8, <1>9, <1>10, <1>11, <1>12, FrameStepO

\* The frame at the front of the vector, and what is left of its stream's.
LEMMA FrontFrame ==
    ASSUME OInv, IInv, pc = "write", frames # <<>>
    PROVE  \E f \in Frames, s \in StreamIds :
             /\ f = Head(frames) /\ f.sid = s /\ frames \in Seq(Frames)
             /\ Outgoing(s) /\ s <= lastSid /\ ~(s > lastSid)
             /\ wire[s] = "body" \/ HeaderOf(frames, s)
             /\ Framed(Tail(frames)) /\ Contiguous(Tail(frames), NoStream)
             /\ OfStream(Tail(frames), s) => OfStream(frames, s)
             /\ f.type # "DATA" => HeaderOf(frames, s)
             /\ f.type = "DATA" \/ f.end => ~HeaderOf(Tail(frames), s) /\ ClosedOf(frames, s)
             /\ f.type = "DATA" /\ f.end => ~OfStream(Tail(frames), s) /\ StreamEndOf(frames, s)
             /\ f.type # "DATA" /\ ~f.end =>
                  /\ Tail(frames) # <<>> /\ Head(Tail(frames)).sid = s
                  /\ Head(Tail(frames)).type # "DATA" /\ HeaderOf(Tail(frames), s)
             /\ f.type = "DATA" => ~HeaderOf(frames, s) /\ wire[s] = "body"
             /\ ClosedOf(Tail(frames), s) => ClosedOf(frames, s)
             /\ StreamEndOf(Tail(frames), s) => StreamEndOf(frames, s)
             /\ \A a \in Int : Bytes(frames, FrameLoad(s), a) =>
                   Bytes(Tail(frames), FrameLoad(s), a - FrameLoad(s)[f])
  <1>1. frames \in Seq(Frames) /\ Head(frames) \in Frames /\ Tail(frames) \in Seq(Frames)
    BY DEF IInv, TypeOK, LoopType
  <1>2. PICK f \in Frames : f = Head(frames)
    BY Zenon, <1>1
  <1>3. PICK s \in StreamIds : f.sid = s
    BY Zenon DEF Frames
  <1>4. Framed(frames) /\ Contiguous(frames, NoStream) /\ StreamInv(s)
    BY Zenon DEF OInv, PassInv
  <1>5. OfStream(frames, s) /\ (OfStream(Tail(frames), s) => OfStream(frames, s))
    BY Zenon, <1>1, <1>2, <1>3, OfTail
  <1>6. Outgoing(s) /\ (wire[s] = "body" \/ HeaderOf(frames, s))
    BY Zenon, <1>4, <1>5 DEF StreamInv, Framing
  <1>7. s <= lastSid /\ ~(s > lastSid)
    <2>1. ~(s > lastSid)
      BY Zenon, <1>4, <1>6 DEF StreamInv, Untouched, Outgoing
    <2>2. s \in Nat /\ lastSid \in Nat
      BY Zenon, ConnAssumption DEF IInv, TypeOK, ConnType
    <2> QED BY <2>1, <2>2
  <1>8. /\ Framed(Tail(frames))
        /\ f.type = "DATA" \/ f.end => ~HeaderOf(Tail(frames), s)
        /\ f.type = "DATA" /\ f.end => ~OfStream(Tail(frames), s)
    BY Zenon, <1>1, <1>2, <1>3, <1>4, FramedTail
  <1>9. /\ HeaderOf(frames, s) <=> HeaderOf(Tail(frames), s) \/ f.type # "DATA"
        /\ ClosedOf(frames, s) <=> ClosedOf(Tail(frames), s) \/ f.type = "DATA" \/ f.end
        /\ StreamEndOf(frames, s) <=> StreamEndOf(Tail(frames), s) \/ (f.type = "DATA" /\ f.end)
    BY Zenon, <1>1, <1>2, <1>3, FrameTail
  <1>10. /\ Contiguous(Tail(frames), NoStream)
         /\ f.type # "DATA" /\ ~f.end =>
              /\ Tail(frames) # <<>> /\ Head(Tail(frames)).sid = s
              /\ Head(Tail(frames)).type # "DATA"
    BY Zenon, <1>1, <1>2, <1>3, <1>4, BlockTail
  <1>11. f.type # "DATA" /\ ~f.end => HeaderOf(Tail(frames), s)
    <2> SUFFICES ASSUME f.type # "DATA", ~f.end PROVE HeaderOf(Tail(frames), s)
      BY Zenon
    <2> DEFINE q == Tail(frames)
    <2>1. q # <<>> /\ q \in Seq(Frames) /\ Head(q).sid = s /\ Head(q).type # "DATA"
      BY Zenon, <1>1, <1>10
    <2> HIDE DEF q
    <2>2. HeaderOf(q, s)
      BY Zenon, <2>1, FrameTail
    <2> QED BY Zenon, <2>2 DEF q
  <1>12. f.type = "DATA" => ~HeaderOf(frames, s) /\ wire[s] = "body"
    BY Zenon, <1>6, <1>8, <1>9
  <1>13. ASSUME NEW a \in Int, Bytes(frames, FrameLoad(s), a)
         PROVE  Bytes(Tail(frames), FrameLoad(s), a - FrameLoad(s)[f])
    BY Zenon, <1>1, <1>2, <1>13, BytesTail, LoadTypes
  <1>14. /\ f.type # "DATA" => HeaderOf(frames, s)
         /\ f.type = "DATA" \/ f.end => ~HeaderOf(Tail(frames), s) /\ ClosedOf(frames, s)
         /\ f.type = "DATA" /\ f.end => ~OfStream(Tail(frames), s) /\ StreamEndOf(frames, s)
         /\ ClosedOf(Tail(frames), s) => ClosedOf(frames, s)
         /\ StreamEndOf(Tail(frames), s) => StreamEndOf(frames, s)
    BY Zenon, <1>8, <1>9
  <1> HIDE <1>9
  <1> QED BY Zenon, <1>1, <1>2, <1>3, <1>5, <1>6, <1>7, <1>8, <1>10, <1>11, <1>12, <1>13, <1>14

\* HEADERS or CONTINUATION is written.
LEMMA WriteHeaderFrameO ==
    ASSUME OInv, IInv, WriteHeaderFrame
    PROVE  OInv'
  <1>1. /\ pc = "write" /\ frames # <<>> /\ Head(frames).type # "DATA"
        /\ wire' = [wire EXCEPT ![Head(frames).sid] = IF Head(frames).end THEN "body" ELSE "headers"]
        /\ frames' = Tail(frames)
        /\ UNCHANGED <<streams, headers, body, queued, lastSid, pc, cur, selfq, events, enc, dropq,
                       handed, sent, exit>>
    BY Zenon DEF WriteHeaderFrame, outVars, connVars, taskVars
  <1>2. PICK f \in Frames, s \in StreamIds :
             /\ f = Head(frames) /\ f.sid = s /\ frames \in Seq(Frames)
             /\ Outgoing(s) /\ s <= lastSid /\ ~(s > lastSid)
             /\ Framed(Tail(frames)) /\ Contiguous(Tail(frames), NoStream)
             /\ f.type # "DATA" => HeaderOf(frames, s)
             /\ f.end => ~HeaderOf(Tail(frames), s) /\ ClosedOf(frames, s)
             /\ f.type # "DATA" /\ ~f.end =>
                  /\ Tail(frames) # <<>> /\ Head(Tail(frames)).sid = s
                  /\ Head(Tail(frames)).type # "DATA" /\ HeaderOf(Tail(frames), s)
             /\ ClosedOf(Tail(frames), s) => ClosedOf(frames, s)
             /\ StreamEndOf(Tail(frames), s) => StreamEndOf(frames, s)
             /\ \A a \in Int : Bytes(frames, FrameLoad(s), a) =>
                   Bytes(Tail(frames), FrameLoad(s), a - FrameLoad(s)[f])
    BY Zenon, <1>1, FrontFrame
  <1>3. StreamInv(s) /\ wire \in [StreamIds -> {"idle", "headers", "body", "ended", "reset"}]
    BY Zenon DEF OInv, IInv, TypeOK, WireType
  <1>4. /\ wire'[s] = IF f.end THEN "body" ELSE "headers"
        /\ \A r \in StreamIds : r # s => wire'[r] = wire[r]
    BY Zenon, <1>1, <1>2, <1>3
  <1>5. Outgoing(s)'
    BY Zenon, <1>1, <1>2 DEF Outgoing
  <1>6. PassInv'
    BY Zenon, <1>1, <1>2 DEF PassInv
  <1>7. StreamInv(s)'
    <2>1. SameDebts(s)
      BY Zenon, <1>1, OtherDebts
    <2>2. Order(s)'
      <3>1. wire'[s] # "ended"
        BY Zenon, <1>4
      <3>2. /\ OwesHeaders(s)' <=> OwesHeaders(s)
            /\ OwesEnd(s)' <=> OwesEnd(s)
        BY Zenon, <2>1 DEF SameDebts
      <3> QED BY Zenon, <1>1, <1>2, <1>3, <3>1, <3>2 DEF StreamInv, Order
    <2>3. Untouched(s)' /\ Complete(s)'
      <3>1. lastSid' = lastSid /\ ~(s > lastSid)
        BY Zenon, <1>1, <1>2
      <3>2. Untouched(s)'
        BY Zenon, <3>1 DEF Untouched
      <3>3. wire'[s] # "ended"
        BY Zenon, <1>4
      <3> QED BY Zenon, <3>2, <3>3 DEF Complete
    <2>4. Framing(s)'
      <3>1. /\ headers[s] # "WroteAll" => ~ClosedOf(frames, s)
            /\ StreamEndOf(frames, s) => body[s] = "DoneSending"
        BY Zenon, <1>2, <1>3 DEF StreamInv, Framing
      <3>2. /\ HeaderOf(Tail(frames), s) => wire'[s] = "headers"
            /\ wire'[s] = "body" \/ HeaderOf(Tail(frames), s)
            /\ headers[s] # "WroteAll" => wire'[s] = "headers" /\ ~ClosedOf(Tail(frames), s)
            /\ StreamEndOf(Tail(frames), s) => body[s] = "DoneSending"
        BY Zenon, <1>1, <1>2, <1>4, <3>1
      <3>3. /\ HeaderOf(frames, s)' => wire'[s] = "headers"
            /\ wire'[s] = "body" \/ HeaderOf(frames, s)'
            /\ headers'[s] # "WroteAll" => wire'[s] = "headers" /\ ~ClosedOf(frames, s)'
            /\ StreamEndOf(frames, s)' => body'[s] = "DoneSending"
        BY Zenon, <1>1, <3>2
      <3> QED BY Zenon, <1>5, <3>3 DEF Framing
    <2>5. Conserved(s)'
      <3> PICK a \in Int, b \in Int : /\ Bytes(frames, FrameLoad(s), a)
                                      /\ Bytes(events, EventLoad(s), b)
                                      /\ handed[s] = sent[s] + a + queued[s] + b
        BY Zenon, <1>2, <1>3 DEF StreamInv, Conserved
      <3>1. FrameLoad(s)[f] = 0
        BY Zenon, <1>1, <1>2 DEF FrameLoad
      <3>2. Bytes(Tail(frames), FrameLoad(s), a - FrameLoad(s)[f])
        BY Zenon, <1>2
      <3>3. Bytes(frames', FrameLoad(s), a)
        <4>1. a - 0 = a
          OBVIOUS
        <4> QED BY ZenonT(30), <1>1, <3>1, <3>2, <4>1
      <3>4. Bytes(frames, FrameLoad(s), a)' /\ Bytes(events, EventLoad(s), b)'
        BY Zenon, <1>1, <3>3
      <3>5. handed'[s] = sent'[s] + a + queued'[s] + b
            /\ (body'[s] = "DoneSending" => queued'[s] = 0)
        BY Zenon, <1>1, <1>2, <1>3 DEF StreamInv, Conserved
      <3> QED BY Zenon, <3>4, <3>5 DEF Conserved
    <2> QED BY Zenon, <2>2, <2>3, <2>4, <2>5 DEF StreamInv
  <1>8. ASSUME NEW r \in StreamIds PROVE OpenBlock(r)'
    <2>1. CASE r = s
      <3>1. wire'[s] = "headers" => ~f.end
        BY Zenon, <1>4
      <3>2. f.type # "DATA" /\ pc' = "write"
        BY Zenon, <1>1, <1>2
      <3> QED BY Zenon, <1>1, <1>2, <2>1, <3>1, <3>2 DEF OpenBlock
    <2>2. CASE r # s
      <3>1. wire[r] # "headers"
        BY Zenon, <1>2, <2>2 DEF OInv, OpenBlock
      <3> QED BY Zenon, <1>4, <2>2, <3>1 DEF OpenBlock
    <2> QED BY Zenon, <2>1, <2>2
  <1>9. ASSUME NEW r \in StreamIds, r # s PROVE SameState(r) /\ SameFrames(r)
    <2>1. SameState(r)
      BY Zenon, <1>1, <1>4, <1>9 DEF SameState, Outgoing
    <2> QED BY Zenon, <1>1, <1>2, <1>9, <2>1, WrittenOfOther
  <1>10. pc # "respond" /\ pc' # "respond"
    BY Zenon, <1>1
  <1> QED BY Zenon, <1>1, <1>6, <1>7, <1>8, <1>9, <1>10, FrameStepO

\* END_STREAM is on the wire: nothing was left behind.
LEMMA LastFrame ==
    ASSUME OInv, IInv, NEW f \in Frames, NEW s \in StreamIds, f.sid = s, f.type = "DATA",
           Outgoing(s), StreamEndOf(frames, s), ~OfStream(Tail(frames), s),
           frames \in Seq(Frames), frames # <<>>,
           \A a \in Int : Bytes(frames, FrameLoad(s), a) =>
                 Bytes(Tail(frames), FrameLoad(s), a - FrameLoad(s)[f])
    PROVE  /\ handed[s] = sent[s] + f.len
           /\ ~OwesHeaders(s) /\ ~OwesEnd(s) /\ ~OfStream(events, s)
  <1>1. StreamInv(s) /\ events \in Seq(Events) /\ sent[s] \in Nat /\ f.len \in Nat
    BY Zenon DEF OInv, IInv, TypeOK, TaskType, WireType, Frames
  <1>2. body[s] = "DoneSending"
    BY Zenon, <1>1 DEF StreamInv, Framing
  <1>3. ~OwesEnd(s) /\ ~OfStream(events, s)
    BY Zenon, <1>1, <1>2 DEF StreamInv, Order
  <1>4. ~OwesHeaders(s)
    BY Zenon, <1>3 DEF OwesHeaders, OwesEnd
  <1> PICK a \in Int, b \in Int : /\ Bytes(frames, FrameLoad(s), a)
                                  /\ Bytes(events, EventLoad(s), b)
                                  /\ handed[s] = sent[s] + a + queued[s] + b
    BY Zenon, <1>1 DEF StreamInv, Conserved
  <1>5. queued[s] = 0
    BY Zenon, <1>1, <1>2 DEF StreamInv, Conserved
  <1>6. b = 0
    <2>1. ~EventOf(events, s, "BodyChunk")
      BY Zenon, <1>3 DEF EventOf, OfStream
    <2> QED BY Zenon, <1>1, <2>1, NoEventBytes
  <1>7. a - f.len = 0
    <2>1. FrameLoad(s)[f] = f.len
      BY Zenon DEF FrameLoad
    <2>2. Bytes(Tail(frames), FrameLoad(s), a - f.len)
      BY Zenon, <2>1
    <2>3. Tail(frames) \in Seq(Frames)
      BY Zenon, TailIndex
    <2> QED BY Zenon, <2>2, <2>3, NoFrameBytes
  <1>8. handed[s] = sent[s] + a + 0 + 0
    BY Zenon, <1>5, <1>6
  <1>9. handed[s] = sent[s] + f.len
    BY Zenon, <1>1, <1>7, <1>8, LastBytes
  <1> QED BY Zenon, <1>3, <1>4, <1>9

\* DATA is written.
LEMMA WriteDataFrameO ==
    ASSUME OInv, IInv, WriteDataFrame
    PROVE  OInv'
  <1>1. pc = "write" /\ frames # <<>> /\ Head(frames).type = "DATA"
    BY Zenon DEF WriteDataFrame
  <1>2. PICK f \in Frames, s \in StreamIds :
             /\ f = Head(frames) /\ f.sid = s /\ frames \in Seq(Frames)
             /\ Outgoing(s) /\ s <= lastSid /\ ~(s > lastSid)
             /\ Framed(Tail(frames)) /\ Contiguous(Tail(frames), NoStream)
             /\ f.type = "DATA" => ~HeaderOf(Tail(frames), s) /\ ClosedOf(frames, s)
             /\ f.type = "DATA" /\ f.end => ~OfStream(Tail(frames), s) /\ StreamEndOf(frames, s)
             /\ f.type = "DATA" => wire[s] = "body"
             /\ StreamEndOf(Tail(frames), s) => StreamEndOf(frames, s)
             /\ \A a \in Int : Bytes(frames, FrameLoad(s), a) =>
                   Bytes(Tail(frames), FrameLoad(s), a - FrameLoad(s)[f])
    BY Zenon, <1>1, FrontFrame
  <1>3. CASE Ends("panic: stream capacity negative") \/ Ends("panic: connection capacity negative")
    BY Zenon, <1>3, EndsO
  <1>4. CASE ~Ends("panic: stream capacity negative") /\ ~Ends("panic: connection capacity negative")
    <2>1. /\ IF f.end
               THEN /\ streams' = [streams EXCEPT ![s] =
                                     IF @ = "Open" THEN "HalfClosedLocal" ELSE "Absent"]
                    /\ headers' = [headers EXCEPT ![s] = "WaitingForHeaders"]
                    /\ body' = [body EXCEPT ![s] = "StillReceiving"]
                    /\ queued' = [queued EXCEPT ![s] = 0]
               ELSE UNCHANGED <<streams, headers, body, queued>>
          /\ wire' = [wire EXCEPT ![s] = IF f.end THEN "ended" ELSE @]
          /\ sent' = [sent EXCEPT ![s] = @ + f.len]
          /\ frames' = Tail(frames)
          /\ UNCHANGED <<lastSid, pc, cur, selfq, events, enc, dropq, handed, exit>>
      BY Zenon, <1>2, <1>4 DEF WriteDataFrame, connVars, taskVars, DropOutgoing, SetOutgoing
    <2>2. /\ StreamInv(s) /\ f.len \in Nat
          /\ streams \in [StreamIds -> StreamStates] /\ sent \in [StreamIds -> Nat]
          /\ wire \in [StreamIds -> {"idle", "headers", "body", "ended", "reset"}]
      BY Zenon DEF OInv, IInv, TypeOK, WireType, StreamsType, Frames
    <2>3. /\ wire'[s] = IF f.end THEN "ended" ELSE wire[s]
          /\ sent'[s] = sent[s] + f.len /\ sent[s] \in Nat
          /\ \A r \in StreamIds : r # s => wire'[r] = wire[r] /\ sent'[r] = sent[r]
      BY Zenon, <2>1, <2>2
    <2>4. PassInv'
      BY Zenon, <1>1, <1>2, <2>1 DEF PassInv
    <2>5. SameDebts(s)
      BY Zenon, <2>1, OtherDebts
    <2>6. FrameLoad(s)[f] = f.len /\ wire[s] = "body" /\ f.type = "DATA"
      BY Zenon, <1>1, <1>2 DEF FrameLoad
    <2>7. ASSUME ~f.end PROVE StreamInv(s)'
      <3>1. Outgoing(s)' /\ UNCHANGED <<streams, headers, body, queued>> /\ wire'[s] = "body"
        BY Zenon, <1>2, <2>1, <2>3, <2>6, <2>7 DEF Outgoing
      <3>2. Order(s)'
        <4>1. /\ OwesHeaders(s)' <=> OwesHeaders(s)
              /\ OwesEnd(s)' <=> OwesEnd(s)
          BY Zenon, <2>5 DEF SameDebts
        <4> QED BY Zenon, <1>2, <2>1, <2>2, <3>1, <4>1 DEF StreamInv, Order
      <3>3. Untouched(s)' /\ Complete(s)'
        BY Zenon, <1>2, <2>1, <3>1 DEF Untouched, Complete
      <3>4. Framing(s)'
        <4>1. /\ headers[s] = "WroteAll"
              /\ StreamEndOf(frames, s) => body[s] = "DoneSending"
          BY Zenon, <1>2, <2>2, <2>6 DEF StreamInv, Framing
        <4>2. /\ ~HeaderOf(frames, s)' /\ headers'[s] = "WroteAll"
              /\ StreamEndOf(frames, s)' => body'[s] = "DoneSending"
          BY Zenon, <1>2, <2>1, <2>6, <3>1, <4>1
        <4> QED BY Zenon, <3>1, <4>2 DEF Framing
      <3>5. Conserved(s)'
        <4> PICK a \in Int, b \in Int : /\ Bytes(frames, FrameLoad(s), a)
                                        /\ Bytes(events, EventLoad(s), b)
                                        /\ handed[s] = sent[s] + a + queued[s] + b
          BY Zenon, <1>2, <2>2 DEF StreamInv, Conserved
        <4> PICK n \in Nat : n = f.len
          BY Zenon, <2>2
        <4>1. Bytes(frames', FrameLoad(s), a - n)
          BY Zenon, <1>2, <2>1, <2>6
        <4>2. Bytes(frames, FrameLoad(s), a - n)' /\ Bytes(events, EventLoad(s), b)'
          BY Zenon, <2>1, <4>1
        <4>3. \A x, y \in Nat : x + a + y + b = (x + n) + (a - n) + y + b
          BY SMTT(30)
        <4>4. queued[s] \in Nat
          BY Zenon DEF IInv, TypeOK, StreamsType
        <4>5. handed[s] = (sent[s] + n) + (a - n) + queued[s] + b
          BY Zenon, <2>3, <4>3, <4>4
        <4>6. handed'[s] = sent'[s] + (a - n) + queued'[s] + b /\ a - n \in Int
          BY Zenon, <2>1, <2>3, <3>1, <4>5, BytesAreNumbers
        <4>7. body'[s] = "DoneSending" => queued'[s] = 0
          BY Zenon, <1>2, <2>2, <3>1 DEF StreamInv, Conserved
        <4> QED BY Zenon, <4>2, <4>6, <4>7 DEF Conserved
      <3> QED BY Zenon, <3>2, <3>3, <3>4, <3>5 DEF StreamInv
    <2>8. ASSUME f.end PROVE StreamInv(s)'
      <3>1. /\ handed[s] = sent[s] + f.len
            /\ ~OwesHeaders(s) /\ ~OwesEnd(s) /\ ~OfStream(events, s)
        BY Zenon, <1>1, <1>2, <2>6, <2>8, LastFrame
      <3>2. ~Outgoing(s)' /\ wire'[s] = "ended"
        BY Zenon, <2>1, <2>2, <2>3, <2>8 DEF Outgoing
      <3>3. Order(s)'
        BY Zenon, <2>5, <3>1, <3>2 DEF Order, SameDebts
      <3>4. Untouched(s)'
        BY Zenon, <1>2, <2>1 DEF Untouched
      <3>5. Complete(s)' /\ Conserved(s)'
        BY Zenon, <2>1, <2>3, <3>1, <3>2 DEF Complete, Conserved
      <3>6. Framing(s)'
        <4>1. ~OfStream(frames, s)'
          BY Zenon, <1>2, <2>1, <2>6, <2>8
        <4>2. ~HeaderOf(frames, s)' /\ ~StreamEndOf(frames, s)'
          BY Zenon, <4>1 DEF OfStream, HeaderOf, StreamEndOf
        <4> QED BY Zenon, <3>2, <4>1, <4>2 DEF Framing
      <3> QED BY Zenon, <3>3, <3>4, <3>5, <3>6 DEF StreamInv
    <2>9. StreamInv(s)'
      BY Zenon, <2>7, <2>8
    <2>10. ASSUME NEW r \in StreamIds PROVE OpenBlock(r)'
      <3>1. wire[r] # "headers"
        BY Zenon, <1>1 DEF OInv, OpenBlock
      <3>2. wire'[r] # "headers"
        BY Zenon, <2>3, <2>6, <3>1
      <3> QED BY Zenon, <3>2 DEF OpenBlock
    <2>11. ASSUME NEW r \in StreamIds, r # s PROVE SameState(r) /\ SameFrames(r)
      <3>1. /\ streams'[r] = streams[r] /\ headers'[r] = headers[r] /\ body'[r] = body[r]
            /\ queued'[r] = queued[r]
        <4>1. CASE f.end
          BY Zenon, <2>1, <2>11, <4>1 DEF IInv, TypeOK, StreamsType
        <4>2. CASE ~f.end
          BY Zenon, <2>1, <4>2
        <4> QED BY Zenon, <4>1, <4>2
      <3>2. SameState(r)
        BY Zenon, <2>1, <2>3, <2>11, <3>1 DEF SameState, Outgoing
      <3> QED BY Zenon, <1>1, <1>2, <2>1, <2>11, <3>2, WrittenOfOther
    <2>12. pc # "respond" /\ pc' # "respond"
      BY Zenon, <1>1, <2>1
    <2> QED BY Zenon, <2>1, <2>4, <2>9, <2>10, <2>11, <2>12, FrameStepO
  <1> QED BY Zenon, <1>3, <1>4

-----------------------------------------------------------------------------
(* The invariant holds.                                                    *)

\* A new connection.
LEMMA InitO == Init => OInv
  <1> SUFFICES ASSUME Init PROVE OInv
    BY Zenon
  <1>1. frames = <<>> /\ events = <<>> /\ Len(events) = 0 /\ Len(frames) = 0 /\ selfq = <<>>
        /\ pc = "loop"
    BY Zenon DEF Init
  <1>2. InOrder(events) /\ Framed(frames) /\ Contiguous(frames, NoStream)
    <2>1. \A i \in 1 .. 0 : FALSE
      OBVIOUS
    <2> QED BY Zenon, <1>1, <2>1 DEF InOrder, Framed, Contiguous
  <1>3. PassInv
    BY Zenon, <1>1, <1>2 DEF PassInv
  <1>4. Producers
    BY Zenon, <1>1 DEF Init, Producers, DropQueue
  <1>5. EventsInOrder
    BY Zenon DEF Init, EventsInOrder
  <1>6. ASSUME NEW s \in StreamIds PROVE OpenBlock(s) /\ StreamInv(s)
    <2>1. /\ streams[s] = "Absent" /\ enc[s] = "None" /\ dropq[s] = <<>> /\ wire[s] = "idle"
          /\ sent[s] = 0 /\ handed[s] = 0 /\ ~Outgoing(s)
      BY Zenon DEF Init, Outgoing
    <2>2. ~OwesHeaders(s) /\ ~OwesEnd(s)
      BY Zenon, <1>1, <2>1 DEF OwesHeaders, OwesEnd, Answers
    <2>3. ~OfStream(events, s)
      BY <1>1 DEF OfStream
    <2>4. ~OfStream(frames, s) /\ ~HeaderOf(frames, s) /\ ~StreamEndOf(frames, s)
      BY Zenon, <1>1, NothingQueued
    <2>5. Order(s)
      BY Zenon, <2>1, <2>2 DEF Order
    <2>6. Untouched(s)
      BY Zenon, <2>1, <2>3 DEF Untouched
    <2>7. Framing(s) /\ Conserved(s) /\ Complete(s) /\ OpenBlock(s)
      BY Zenon, <2>1, <2>4 DEF Framing, Conserved, Complete, OpenBlock
    <2> QED BY Zenon, <2>5, <2>6, <2>7 DEF StreamInv
  <1> QED BY Zenon, <1>2, <1>3, <1>4, <1>5, <1>6 DEF OInv

\* Every step of the connection, its handlers and its client.
LEMMA NextO == OInv /\ IInv /\ [Next]_vars => OInv'
  <1> SUFFICES ASSUME OInv, IInv, [Next]_vars PROVE OInv'
    BY Zenon
  <1>1. CASE Client
    BY Zenon, <1>1, ClientO
  <1>2. CASE RespondStep
    BY Zenon, <1>2, RespondStepO
  <1>3. CASE HandleEvent
    BY Zenon, <1>3, HandleEventO
  <1>4. CASE SendDataMaybe
    BY Zenon, <1>4, BeginPassO, VisitStreamO, QueueHeaderFrameO, QueueDataFrameO, PassEndsO,
       WriteHeaderFrameO, WriteDataFrameO DEF SendDataMaybe
  <1>5. ASSUME NEW s \in StreamIds, Handler(s) PROVE OInv'
    BY Zenon, <1>5, HandlerSendsO, DropEncoderO, DropTaskSendsO DEF Handler
  <1>6. CASE UNCHANGED vars
    <2>1. UNCHANGED <<streams, headers, body, queued, lastSid, pc, cur, frames, selfq, events,
                      enc, dropq, handed, wire, sent, exit>>
      BY Zenon, <1>6 DEF vars, outVars, connVars, passVars, taskVars, wireVars
    <2>2. \A r \in StreamIds : /\ Outgoing(r)' <=> Outgoing(r)
                               /\ streams[r] = "Absent" => streams'[r] = "Absent"
      BY Zenon, <2>1 DEF Outgoing
    <2>3. EventsInOrder'
      BY Zenon, <2>1 DEF OInv, EventsInOrder
    <2> QED BY Zenon, <2>1, <2>2, <2>3, QuietStep
  <1> QED BY Zenon, <1>1, <1>2, <1>3, <1>4, <1>5, <1>6 DEF Next

\* Where the events and frames of every stream are: the channel, the frames
\* vector, the states of encoder and body, and the bytes handed, queued and
\* sent agree at all times, for any streams, windows and bodies.
THEOREM OrderInvariance == Spec => [](OInv /\ IInv)
  <1> HIDE DEF IInv
  <1>1. Init => OInv /\ IInv
    BY Zenon, InitO, InitIInv
  <1>2. OInv /\ IInv /\ [Next]_vars => (OInv /\ IInv)'
    BY Zenon, NextO, NextIInv
  <1> QED BY <1>1, <1>2, PTL DEF Spec

\* However events, resets and passes interleave, handle_event and write_frame
\* never reach the states they declare unreachable.
THEOREM EventsAlwaysInOrder == Spec => []EventsInOrder
  <1>1. OInv => EventsInOrder
    BY Zenon DEF OInv
  <1> HIDE DEF IInv
  <1> QED BY <1>1, OrderInvariance, PTL

\* A response that ended with END_STREAM carried every byte its handler wrote,
\* for any chunk lengths, windows and frame sizes.
THEOREM BodiesAreComplete == Spec => []BodyComplete
  <1>1. OInv => BodyComplete
    BY Zenon DEF OInv, StreamInv, Complete, BodyComplete
  <1> HIDE DEF IInv
  <1> QED BY <1>1, OrderInvariance, PTL

-----------------------------------------------------------------------------
(* Which streams enter the map.                                            *)

\* Every step keeps absent streams absent, or is a HEADERS frame that opens
\* one stream, beyond last_stream_id and within the limit.
OpensNone == \A r \in StreamIds : streams[r] = "Absent" => streams'[r] = "Absent"
OpensOne(s) ==
    /\ s > lastSid
    /\ ~TooManyStreams
    /\ \A r \in StreamIds : r # s => streams'[r] = streams[r]

\* A step opens one stream, above every one opened before and within the
\* limit, or none.
LEMMA StreamsOpened ==
    ASSUME IInv, [Next]_vars
    PROVE  OpensNone \/ \E s \in StreamIds : OpensOne(s)
  <1>0. streams \in [StreamIds -> StreamStates] /\ lastSid \in Nat /\ StreamIds \subseteq Nat
    BY Zenon, ConnAssumption DEF IInv, TypeOK, StreamsType, ConnType
  <1>1. streams' = streams => OpensNone
    BY Zenon DEF OpensNone
  <1>2. ASSUME NEW why, Ends(why) PROVE OpensNone
    BY Zenon, <1>1, <1>2 DEF Ends
  <1>3. ASSUME NEW s \in StreamIds, RemoveStream(s) PROVE OpensNone
    BY Zenon, <1>0, <1>3 DEF RemoveStream, OpensNone
  <1>4. ASSUME NEW s \in StreamIds, ResetByServer(s) PROVE OpensNone
    BY Zenon, <1>3, <1>4 DEF ResetByServer, rst
  <1>5. ASSUME NEW s \in StreamIds, NEW es \in BOOLEAN, NEW block \in Blocks,
               ReceiveHeaders(s, es, block)
        PROVE  OpensNone \/ OpensOne(s)
    <2>1. ~(s < lastSid) /\ s # lastSid => s > lastSid
      BY <1>0
    <2>2. \/ \E why : Ends(why)
          \/ ResetByServer(s)
          \/ RemoveStream(s)
          \/ /\ s > lastSid /\ ~TooManyStreams
             /\ AcceptRequest(s, es) \/ \E n \in ChunkLens : RespondWithStatus(s, n)
      BY Zenon, <1>5, <2>1 DEF ReceiveHeaders, rst
    <2>3. ASSUME AcceptRequest(s, es) \/ \E n \in ChunkLens : RespondWithStatus(s, n)
          PROVE  \A r \in StreamIds : r # s => streams'[r] = streams[r]
      BY Zenon, <1>0, <2>3 DEF AcceptRequest, RespondWithStatus
    <2> QED BY Zenon, <1>2, <1>3, <1>4, <2>2, <2>3 DEF OpensOne
  <1>6. ASSUME NEW s \in StreamIds, streams[s] # "Absent",
               \A r \in StreamIds : r # s => streams'[r] = streams[r]
        PROVE  OpensNone
    BY Zenon, <1>6 DEF OpensNone
  <1>7. ASSUME NEW s \in StreamIds, NEW es \in BOOLEAN, NEW b \in Blocks,
               ReceiveTrailers(s, es, b)
        PROVE  OpensNone
    <2>1. \/ \E why : Ends(why)
          \/ ResetByServer(s)
          \/ streams[s] = "Open" /\ streams' = [streams EXCEPT ![s] = "HalfClosedRemote"]
      BY Zenon, <1>7 DEF ReceiveTrailers
    <2>2. CASE streams[s] = "Open" /\ streams' = [streams EXCEPT ![s] = "HalfClosedRemote"]
      BY Zenon, <1>0, <1>6, <2>2
    <2> QED BY Zenon, <1>2, <1>4, <2>1, <2>2
  <1>8. ASSUME NEW s \in StreamIds, NEW es \in BOOLEAN,
               NEW c \in {"handed", "refused", "underflow"}, ReceiveData(s, es, c)
        PROVE  OpensNone
    <2>1. \/ \E why : Ends(why)
          \/ ResetByServer(s)
          \/ /\ streams[s] \in {"Open", "HalfClosedLocal"}
             /\ streams' = [streams EXCEPT ![s] = IF @ = "Open" THEN "HalfClosedRemote" ELSE "Absent"]
      BY Zenon, <1>8 DEF ReceiveData
    <2>2. CASE /\ streams[s] \in {"Open", "HalfClosedLocal"}
               /\ streams' = [streams EXCEPT ![s] = IF @ = "Open" THEN "HalfClosedRemote" ELSE "Absent"]
      BY Zenon, <1>0, <1>6, <2>2
    <2> QED BY Zenon, <1>2, <1>4, <2>1, <2>2
  <1>9. ASSUME NEW s \in StreamIds, ReceiveInvalidSize(s) \/ ReceiveRstStream(s) PROVE OpensNone
    BY Zenon, <1>2, <1>3, <1>4, <1>9 DEF ReceiveInvalidSize, ReceiveRstStream
  <1>10. ASSUME NEW w \in Windows, NEW f \in FrameSizes, ReceiveSettings(w, f) PROVE OpensNone
    BY Zenon, <1>1, <1>2, <1>10 DEF ReceiveSettings
  <1>11. ASSUME NEW n \in Increments, ReceiveConnWindowUpdate(n) PROVE OpensNone
    BY Zenon, <1>1, <1>2, <1>11 DEF ReceiveConnWindowUpdate
  <1>12. ASSUME NEW s \in StreamIds, NEW n \in Increments, ReceiveStreamWindowUpdate(s, n)
         PROVE  OpensNone
    BY Zenon, <1>1, <1>2, <1>4, <1>12 DEF ReceiveStreamWindowUpdate
  <1>13. CASE Client
    <2>1. CASE ReceiveErroneous("FrameTooLarge") \/ TransportCloses
      BY Zenon, <1>2, <2>1 DEF ReceiveErroneous, TransportCloses
    <2> QED BY Zenon, <1>5, <1>7, <1>8, <1>9, <1>10, <1>11, <1>12, <1>13, <2>1 DEF Client
  <1>14. CASE RespondStep \/ HandleEvent
    BY Zenon, <1>1, <1>2, <1>14
    DEF RespondStep, HandleEvent, IgnoreEvent, HandleHeaders, HandleBodyChunk, HandleBodyEnd
  <1>15. CASE WriteDataFrame
    <2>1. \/ \E why : Ends(why)
          \/ streams' = streams
          \/ /\ frames # <<>> /\ Outgoing(Head(frames).sid)
             /\ streams' = [streams EXCEPT ![Head(frames).sid] =
                              IF @ = "Open" THEN "HalfClosedLocal" ELSE "Absent"]
      BY Zenon, <1>15 DEF WriteDataFrame
    <2>2. ASSUME frames # <<>>, Outgoing(Head(frames).sid),
                 streams' = [streams EXCEPT ![Head(frames).sid] =
                               IF @ = "Open" THEN "HalfClosedLocal" ELSE "Absent"]
          PROVE  OpensNone
      <3>1. PICK s \in StreamIds : s = Head(frames).sid
        BY Zenon, <2>2, FrameTaken DEF IInv, TypeOK
      <3> QED BY Zenon, <1>0, <1>6, <2>2, <3>1 DEF Outgoing
    <2> QED BY Zenon, <1>1, <1>2, <2>1, <2>2
  <1>16. CASE SendDataMaybe /\ ~WriteDataFrame
    BY Zenon, <1>1, <1>2, <1>16
    DEF SendDataMaybe, BeginPass, VisitStream, QueueHeaderFrame, QueueDataFrame, LeaveStream,
        BeginWriting, WriteHeaderFrame, EndPass
  <1>17. CASE \E s \in StreamIds : Handler(s)
    BY Zenon, <1>1, <1>17
    DEF Handler, Sends, write_response, write_body_chunk, write_body_end, DropEncoder, DropTaskSends
  <1>18. CASE UNCHANGED vars
    BY Zenon, <1>1, <1>18 DEF vars
  <1> QED BY Zenon, <1>13, <1>14, <1>15, <1>16, <1>17, <1>18 DEF Next

\* A stream that enters the map never had a handler and nothing was ever sent
\* on it: everything beyond last_stream_id is untouched.
THEOREM StreamsAreNew == Spec => NoStreamReused
  <1> DEFINE New == \A s \in StreamIds : streams[s] = "Absent" /\ streams'[s] # "Absent" =>
                       enc[s] = "None" /\ wire[s] = "idle"
  <1>1. OInv /\ IInv /\ [Next]_vars => [New]_vars
    <2> SUFFICES ASSUME OInv, IInv, [Next]_vars,
                        NEW s \in StreamIds, streams[s] = "Absent", streams'[s] # "Absent"
                 PROVE  enc[s] = "None" /\ wire[s] = "idle"
      BY Zenon
    <2>1. PICK t \in StreamIds : OpensOne(t)
      BY Zenon, StreamsOpened DEF OpensNone
    <2>2. s = t /\ s > lastSid
      BY Zenon, <2>1 DEF OpensOne
    <2> QED BY Zenon, <2>2 DEF OInv, StreamInv, Untouched
  <1> HIDE DEF IInv
  <1> QED BY <1>1, OrderInvariance, PTL DEF Spec, NoStreamReused

-----------------------------------------------------------------------------
(* What the peer sees.                                                     *)

\* A step that writes no header or DATA frame moves the windows, resets a
\* stream, or does nothing the peer sees.
OnlyGrants == UNCHANGED <<wire, sent, connSent>> /\ connGranted' >= connGranted
Resets(s) ==
    /\ pc = "loop"
    /\ wire' = [wire EXCEPT ![s] = "reset"]
    /\ UNCHANGED <<sent, connSent, granted, connGranted>>

\* All the peer sees of a step that writes no HEADERS or DATA is a window it
\* granted, or a reset.
LEMMA SeenByThePeer ==
    ASSUME IInv, [Next]_vars, ~WriteHeaderFrame, ~WriteDataFrame
    PROVE  OnlyGrants \/ \E s \in StreamIds : Resets(s)
  <1>0. /\ connGranted \in Nat /\ Increments \subseteq Nat
        /\ wire \in [StreamIds -> {"idle", "headers", "body", "ended", "reset"}]
    BY Zenon, ConnAssumption DEF IInv, TypeOK, WireType
  <1>1. UNCHANGED <<wire, sent, connSent, connGranted>> => OnlyGrants
    BY <1>0 DEF OnlyGrants
  <1>2. UNCHANGED <<wireVars, connGranted>> => OnlyGrants
    BY Zenon, <1>1 DEF wireVars
  <1>3. ASSUME NEW why, Ends(why) PROVE OnlyGrants
    BY Zenon, <1>2, <1>3 DEF Ends, grantVars
  <1>4. ASSUME NEW s \in StreamIds, WireReset(s), pc = "loop",
               UNCHANGED <<sent, connSent, granted, connGranted>>
        PROVE  OnlyGrants \/ Resets(s)
    <2>1. CASE streams[s] = "Absent"
      <3>1. wire' = wire
        BY Zenon, <1>0, <1>4, <2>1 DEF WireReset
      <3> QED BY Zenon, <1>1, <1>4, <3>1
    <2>2. CASE streams[s] # "Absent"
      BY Zenon, <1>4, <2>2 DEF WireReset, Resets
    <2> QED BY Zenon, <2>1, <2>2
  <1>5. ASSUME NEW s \in StreamIds, ResetByServer(s), pc = "loop" PROVE OnlyGrants \/ Resets(s)
    BY Zenon, <1>4, <1>5 DEF ResetByServer, rst, grantVars
  <1>6. ASSUME NEW s \in StreamIds, NEW es \in BOOLEAN, NEW block \in Blocks,
               ReceiveHeaders(s, es, block)
        PROVE  OnlyGrants \/ Resets(s)
    <2>1. \/ \E why : Ends(why)
          \/ ResetByServer(s) /\ pc = "loop"
          \/ rst(s) /\ UNCHANGED grantVars /\ pc = "loop"
          \/ AcceptRequest(s, es) \/ \E n \in ChunkLens : RespondWithStatus(s, n)
      BY Zenon, <1>6 DEF ReceiveHeaders, Receives
    <2>2. ASSUME rst(s), UNCHANGED grantVars, pc = "loop" PROVE OnlyGrants \/ Resets(s)
      BY Zenon, <1>4, <2>2 DEF rst, grantVars
    <2>3. ASSUME AcceptRequest(s, es) \/ \E n \in ChunkLens : RespondWithStatus(s, n)
          PROVE  OnlyGrants
      BY Zenon, <1>2, <2>3 DEF AcceptRequest, RespondWithStatus
    <2> QED BY Zenon, <1>3, <1>5, <2>1, <2>2, <2>3
  <1>7. ASSUME NEW s \in StreamIds, NEW es \in BOOLEAN, NEW b \in Blocks, ReceiveTrailers(s, es, b)
        PROVE  OnlyGrants \/ Resets(s)
    <2>1. \/ \E why : Ends(why)
          \/ ResetByServer(s) /\ pc = "loop"
          \/ UNCHANGED <<wireVars, grantVars>>
      BY Zenon, <1>7 DEF ReceiveTrailers, Receives
    <2> QED BY Zenon, <1>2, <1>3, <1>5, <2>1 DEF grantVars
  <1>8. ASSUME NEW s \in StreamIds, NEW es \in BOOLEAN,
               NEW c \in {"handed", "refused", "underflow"}, ReceiveData(s, es, c)
        PROVE  OnlyGrants \/ Resets(s)
    <2>1. \/ \E why : Ends(why)
          \/ ResetByServer(s) /\ pc = "loop"
          \/ UNCHANGED <<wireVars, grantVars>>
      BY Zenon, <1>8 DEF ReceiveData, Receives
    <2> QED BY Zenon, <1>2, <1>3, <1>5, <2>1 DEF grantVars
  <1>9. ASSUME NEW s \in StreamIds, ReceiveInvalidSize(s) \/ ReceiveRstStream(s)
        PROVE  OnlyGrants \/ Resets(s)
    BY Zenon, <1>3, <1>4, <1>5, <1>9
       DEF ReceiveInvalidSize, ReceiveRstStream, Receives, grantVars
  <1>10. ASSUME NEW w \in Windows, NEW f \in FrameSizes, ReceiveSettings(w, f) PROVE OnlyGrants
    BY Zenon, <1>2, <1>3, <1>10 DEF ReceiveSettings
  <1>11. ASSUME NEW n \in Increments, ReceiveConnWindowUpdate(n) PROVE OnlyGrants
    <2>1. \/ \E why : Ends(why)
          \/ connGranted' = connGranted + n /\ UNCHANGED wireVars
      BY Zenon, <1>11 DEF ReceiveConnWindowUpdate
    <2>2. CASE connGranted' = connGranted + n /\ UNCHANGED wireVars
      <3>1. n \in Nat /\ connGranted' >= connGranted
        BY <1>0, <2>2
      <3> QED BY Zenon, <2>2, <3>1 DEF OnlyGrants, wireVars
    <2> QED BY Zenon, <1>3, <2>1, <2>2
  <1>12. ASSUME NEW s \in StreamIds, NEW n \in Increments, ReceiveStreamWindowUpdate(s, n)
         PROVE  OnlyGrants \/ Resets(s)
    <2>1. \/ \E why : Ends(why)
          \/ ResetByServer(s) /\ pc = "loop"
          \/ UNCHANGED <<wireVars, connGranted>>
      BY Zenon, <1>12 DEF ReceiveStreamWindowUpdate, Receives
    <2> QED BY Zenon, <1>2, <1>3, <1>5, <2>1
  <1>13. CASE Client
    <2>1. CASE ReceiveErroneous("FrameTooLarge") \/ TransportCloses
      BY Zenon, <1>3, <2>1 DEF ReceiveErroneous, TransportCloses
    <2> QED BY Zenon, <1>6, <1>7, <1>8, <1>9, <1>10, <1>11, <1>12, <1>13, <2>1 DEF Client
  <1>14. CASE RespondStep \/ HandleEvent
    BY Zenon, <1>2, <1>3, <1>14
    DEF RespondStep, HandleEvent, IgnoreEvent, HandleHeaders, HandleBodyChunk, HandleBodyEnd,
        grantVars
  <1>15. CASE SendDataMaybe
    BY Zenon, <1>2, <1>3, <1>15
    DEF SendDataMaybe, BeginPass, VisitStream, QueueHeaderFrame, QueueDataFrame, LeaveStream,
        BeginWriting, EndPass, grantVars
  <1>16. CASE \E s \in StreamIds : Handler(s)
    BY Zenon, <1>2, <1>16
    DEF Handler, Sends, write_response, write_body_chunk, write_body_end, DropEncoder,
        DropTaskSends, grantVars
  <1>17. CASE UNCHANGED vars
    BY Zenon, <1>2, <1>17 DEF vars, grantVars
  <1> QED BY Zenon, <1>13, <1>14, <1>15, <1>16, <1>17 DEF Next

\* A header block that is open is at the front of the frames vector.
LEMMA NoOtherBlockOpen ==
    ASSUME OInv, NEW s \in StreamIds,
           \/ pc = "loop"
           \/ frames # <<>> /\ (Head(frames).sid = s \/ Head(frames).type = "DATA")
    PROVE  Contract!NoOtherBlock(s)
  BY Zenon DEF OInv, OpenBlock, Contract!NoOtherBlock

\* Each step is one the wire contract allows.
LEMMA WireStep ==
    ASSUME OInv, IInv, IInv', [Next]_vars
    PROVE  [Contract!Next]_Contract!vars
  <1>0. wire \in [StreamIds -> {"idle", "headers", "body", "ended", "reset"}]
    BY Zenon DEF IInv, TypeOK, WireType
  <1>1. CASE WriteHeaderFrame
    <2>1. /\ pc = "write" /\ frames # <<>> /\ Head(frames).type # "DATA"
          /\ wire' = [wire EXCEPT ![Head(frames).sid] =
                        IF Head(frames).end THEN "body" ELSE "headers"]
          /\ UNCHANGED <<sent, granted, connSent, connGranted>>
      BY Zenon, <1>1 DEF WriteHeaderFrame, grantVars
    <2>2. PICK f \in Frames, s \in StreamIds :
             /\ f = Head(frames) /\ f.sid = s /\ (f.type # "DATA" => HeaderOf(frames, s))
      BY Zenon, <2>1, FrontFrame
    <2>3. wire[s] \in {"idle", "headers"}
      BY Zenon, <2>1, <2>2 DEF OInv, StreamInv, Framing
    <2>4. Contract!NoOtherBlock(s)
      BY Zenon, <2>1, <2>2, NoOtherBlockOpen
    <2>5. f.end \in BOOLEAN
      BY Zenon DEF Frames
    <2>6. Contract!HeaderFrame(s, f.end)
      BY Zenon, <2>1, <2>2, <2>3, <2>4 DEF Contract!HeaderFrame
    <2> QED BY Zenon, <2>5, <2>6 DEF Contract!Next
  <1>2. CASE WriteDataFrame
    <2>1. pc = "write" /\ frames # <<>> /\ Head(frames).type = "DATA"
      BY Zenon, <1>2 DEF WriteDataFrame
    <2>2. PICK f \in Frames, s \in StreamIds :
             /\ f = Head(frames) /\ f.sid = s
             /\ f.type = "DATA" => wire[s] = "body"
      BY Zenon, <2>1, FrontFrame
    <2>3. CASE \E why : Ends(why)
      BY Zenon, <2>3 DEF Ends, wireVars, grantVars, Contract!vars
    <2>4. CASE ~\E why : Ends(why)
      <3>1. /\ Outgoing(s) /\ ~(capacity[s] - f.len < 0) /\ ~(connCap - f.len < 0)
            /\ sent' = [sent EXCEPT ![s] = @ + f.len] /\ connSent' = connSent + f.len
            /\ UNCHANGED <<granted, connGranted>>
        BY Zenon, <1>2, <2>2, <2>4, DataFrameWritten DEF grantVars
      <3>2. wire' = [wire EXCEPT ![s] = IF f.end THEN "ended" ELSE @]
        BY ZenonT(30), <1>2, <2>2, <2>4 DEF WriteDataFrame
      <3>3. /\ capacity[s] = granted[s] - sent[s] /\ connCap = connGranted - connSent
            /\ capacity[s] \in Int /\ granted[s] \in Int /\ sent[s] \in Nat
            /\ connCap \in Int /\ connGranted \in Int /\ connSent \in Nat /\ f.len \in Nat
            /\ f.end \in BOOLEAN
        <4>1. /\ capacity[s] = granted[s] - sent[s] /\ connCap = connGranted - connSent
              /\ capacity[s] \in Int /\ granted[s] \in Int /\ sent[s] \in Nat
              /\ connCap \in 0 .. MaxWindow /\ connGranted \in Nat /\ connSent \in Nat
              /\ f.len \in Nat /\ f.end \in BOOLEAN
          BY ZenonT(30), <3>1
             DEF IInv, TypeOK, WindowsAccounted, StreamsType, ConnType, WireType, Frames
        <4> QED BY Zenon, <4>1, AreIntegers
      <3>4. sent[s] + f.len <= granted[s] /\ connSent + f.len <= connGranted
        BY ZenonT(30), <3>1, <3>3, WithinWindow
      <3>5. connSent' - connSent = f.len
        BY Zenon, <3>1, <3>3, Difference
      <3>6. wire[s] = "body" /\ wire' = [wire EXCEPT ![s] = IF f.end THEN "ended" ELSE "body"]
        BY Zenon, <1>0, <2>1, <2>2, <3>2
      <3>7. Contract!NoOtherBlock(s)
        BY Zenon, <2>1, NoOtherBlockOpen
      <3>8. Contract!DataFrame(s, connSent' - connSent, f.end)
        BY Zenon, <3>1, <3>4, <3>5, <3>6, <3>7 DEF Contract!DataFrame
      <3> QED BY Zenon, <3>3, <3>8 DEF Contract!Next
    <2> QED BY Zenon, <2>3, <2>4
  <1>3. CASE OnlyGrants
    <2>1. granted' \in [StreamIds -> Int] /\ connGranted' \in Nat
      BY Zenon DEF IInv, TypeOK, WireType
    <2>2. Contract!Grant
      BY Zenon, <1>3, <2>1 DEF OnlyGrants, Contract!Grant
    <2> QED BY Zenon, <2>2 DEF Contract!Next
  <1>4. ASSUME NEW s \in StreamIds, Resets(s) PROVE Contract!Next
    <2>1. wire[s] # "headers"
      BY Zenon, <1>4 DEF Resets, OInv, OpenBlock
    <2>2. Contract!NoOtherBlock(s)
      BY Zenon, <1>4, NoOtherBlockOpen DEF Resets
    <2>3. Contract!Reset(s)
      BY Zenon, <1>4, <2>1, <2>2 DEF Resets, Contract!Reset
    <2> QED BY Zenon, <2>3 DEF Contract!Next
  <1> QED BY Zenon, <1>1, <1>2, <1>3, <1>4, SeenByThePeer

\* What the server writes is what H2WireContract allows: on each stream one
\* contiguous header block, then DATA up to END_STREAM, silence after it or
\* after a reset, and both windows respected, for any number of streams.
THEOREM WireContractHolds == Spec => WireContract
  <1>1. Init => Contract!Init
    BY ConnAssumption DEF Init, Contract!Init
  <1>2. (OInv /\ IInv) /\ (OInv /\ IInv)' /\ [Next]_vars => [Contract!Next]_Contract!vars
    BY Zenon, WireStep
  <1> HIDE DEF IInv
  <1> QED BY <1>1, <1>2, OrderInvariance, PTL DEF Spec, WireContract, Contract!Spec
=============================================================================
