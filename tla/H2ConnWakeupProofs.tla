------------------------- MODULE H2ConnWakeupProofs -------------------------
(***************************************************************************)
(* No lost wakeup: whenever the loop of an HTTP/2 connection is back at    *)
(* its select! and a stream could be sent to, the Notify holds a permit    *)
(* and the stream is in streams_with_pending_data.                         *)
(*                                                                         *)
(* The permit is spent when a pass of send_data_maybe begins, so the proof *)
(* follows a stream through the pass: it waits in the snapshot, or it is   *)
(* being visited with the budget its windows allow, or the frames queued   *)
(* for it use up one of the windows, and then the pass may forget it.      *)
(*                                                                         *)
(* The last section shows that SETTINGS_MAX_CONCURRENT_STREAMS is kept.    *)
(***************************************************************************)
EXTENDS H2ConnProofs

\* The loop is inside send_data_maybe, and visits stream s.
InPass == pc \in {"each", "headers", "body", "write"}
Busy(s) == pc \in {"headers", "body"} /\ cur = s

\* send_data_maybe would make progress on s; an empty piece counts, too.
Ready(s) ==
    /\ Outgoing(s)
    /\ headers[s] # "WaitingForHeaders"
    /\ headers[s] # "WroteAll" \/ pieces[s] \/ body[s] = "DoneReceiving"
    /\ capacity[s] > 0

\* What this pass has queued of s uses up a window.
Spent(s) ==
    \E b \in Int : Bytes(frames, FrameLoad(s), b) /\ (capacity[s] <= b \/ connCap <= b)

\* A stream with response headers stays in streams_with_pending_data, and its
\* pieces say whether bytes are queued.
Pending(s) ==
    /\ Outgoing(s) /\ headers[s] # "WaitingForHeaders" => s \in pending /\ s \notin notPending
    /\ queued[s] > 0 => pieces[s]
    /\ body[s] = "DoneSending" => ~pieces[s]

\* Between two passes the Notify holds a permit for it.
Notified(s) == exit = "running" /\ ~InPass /\ connCap > 0 /\ Ready(s) => permit

\* In a pass it is still to be visited, or being visited, or a window is used up.
Visited(s) ==
    /\ s \in todo => ~OfStream(frames, s) /\ ~Busy(s)
    /\ exit = "running" /\ InPass /\ connCap > 0 /\ Ready(s) =>
          s \in todo \/ Busy(s) \/ Spent(s)
    /\ Busy(s) /\ capacity[s] > 0 /\ connCap > 0 =>
          \E b \in Int : /\ Bytes(frames, FrameLoad(s), b)
                         /\ left = Min(connCap, capacity[s]) - b

Snapshot ==
    /\ ~InPass => todo = {} /\ notPending = {}
    /\ pc = "write" => todo = {}

WInv == Snapshot /\ \A s \in StreamIds : Pending(s) /\ Notified(s) /\ Visited(s)

-----------------------------------------------------------------------------
(* What a step leaves alone.                                               *)

\* A step between two passes: what is left to show of each stream.
LEMMA BetweenPasses ==
    ASSUME WInv, ~InPass, ~InPass', UNCHANGED <<todo, notPending>>,
           \A s \in StreamIds : Pending(s)' /\ Notified(s)'
    PROVE  WInv'
  <1>1. todo' = {} /\ notPending' = {}
    BY Zenon DEF WInv, Snapshot
  <1>2. Snapshot'
    BY Zenon, <1>1 DEF Snapshot
  <1>3. ~(pc' \in {"headers", "body"})
    BY Zenon DEF InPass
  <1>4. ASSUME NEW s \in StreamIds PROVE Visited(s)'
    BY Zenon, <1>1, <1>3 DEF Visited, Busy
  <1> QED BY Zenon, <1>2, <1>4 DEF WInv

\* Stream r keeps what its part of the invariant is about.
SameOutgoing(r) ==
    /\ Outgoing(r)' <=> Outgoing(r)
    /\ headers'[r] = headers[r] /\ body'[r] = body[r] /\ queued'[r] = queued[r]
    /\ pieces'[r] = pieces[r]

\* A step that leaves a stream alone and does not take it off the list.
LEMMA PendingKept ==
    ASSUME NEW r \in StreamIds, Pending(r), SameOutgoing(r),
           r \in pending => r \in pending', r \in notPending' => r \in notPending
    PROVE  Pending(r)'
  BY Zenon DEF Pending, SameOutgoing

\* One that leaves the windows alone, too, and spends no permit.
LEMMA NotifiedKept ==
    ASSUME NEW r \in StreamIds, Notified(r), SameOutgoing(r), capacity'[r] = capacity[r],
           connCap' = connCap, permit => permit', exit' = "running" => exit = "running",
           InPass' <=> InPass
    PROVE  Notified(r)'
  BY Zenon DEF Notified, SameOutgoing, Ready

\* A step of the pass that does not visit r.
LEMMA VisitedKept ==
    ASSUME NEW r \in StreamIds, Visited(r), SameOutgoing(r), capacity'[r] = capacity[r],
           r \in todo' <=> r \in todo, SameFrames(r), exit' = "running" => exit = "running",
           InPass' <=> InPass, Busy(r)' <=> Busy(r), connCap \in Int, connCap' \in Int,
           connCap' <= connCap, Busy(r) => left' = left /\ connCap' = connCap
    PROVE  Visited(r)'
  <1>1. Ready(r)' <=> Ready(r)
    BY Zenon DEF Ready, SameOutgoing
  <1>2. r \in todo' => ~OfStream(frames, r)' /\ ~Busy(r)'
    BY Zenon DEF Visited, SameFrames
  <1>3. ASSUME Spent(r) PROVE Spent(r)'
    <2> PICK b \in Int : Bytes(frames, FrameLoad(r), b) /\ (capacity[r] <= b \/ connCap <= b)
      BY Zenon, <1>3 DEF Spent
    <2>1. Bytes(frames', FrameLoad(r), b)
      BY Zenon DEF SameFrames
    <2>2. capacity'[r] <= b \/ connCap' <= b
      <3>1. connCap <= b => connCap' <= b
        OBVIOUS
      <3> QED BY Zenon, <3>1
    <2>3. Bytes(frames, FrameLoad(r), b)'
      BY Zenon, <2>1
    <2> QED BY Zenon, <2>2, <2>3 DEF Spent
  <1>4. connCap' > 0 => connCap > 0
    OBVIOUS
  <1>5. exit' = "running" /\ InPass' /\ connCap' > 0 /\ Ready(r)' =>
          r \in todo' \/ Busy(r)' \/ Spent(r)'
    BY Zenon, <1>1, <1>3, <1>4 DEF Visited
  <1>6. ASSUME Busy(r)', capacity'[r] > 0, connCap' > 0
        PROVE  \E b \in Int : /\ Bytes(frames', FrameLoad(r), b)
                              /\ left' = Min(connCap', capacity'[r]) - b
    <2>1. Busy(r) /\ left' = left /\ connCap' = connCap
      BY Zenon, <1>6
    <2> PICK b \in Int : /\ Bytes(frames, FrameLoad(r), b)
                         /\ left = Min(connCap, capacity[r]) - b
      BY Zenon, <1>6, <2>1 DEF Visited
    <2>2. Bytes(frames', FrameLoad(r), b)
      BY Zenon DEF SameFrames
    <2> QED BY Zenon, <2>1, <2>2
  <1>7. Busy(r)' /\ capacity'[r] > 0 /\ connCap' > 0 =>
          (\E b \in Int : /\ Bytes(frames, FrameLoad(r), b)
                          /\ left = Min(connCap, capacity[r]) - b)'
    <2>1. ASSUME NEW b \in Int, Bytes(frames', FrameLoad(r), b)
          PROVE  Bytes(frames, FrameLoad(r), b)'
      BY Zenon, <2>1
    <2> QED BY Zenon, <1>6, <2>1 DEF Min
  <1> QED BY Zenon, <1>2, <1>5, <1>7 DEF Visited

\* Between two passes a stream stays ready only if it was, or something woke
\* the loop.
LEMMA NotifiedNow ==
    ASSUME NEW s \in StreamIds, WInv, ~InPass, exit' = "running" => exit = "running",
           permit => permit',
           connCap' > 0 /\ Ready(s)' => permit' \/ (connCap > 0 /\ Ready(s))
    PROVE  Notified(s)'
  BY Zenon DEF WInv, Notified

\* The loop ends, or something happens that changes nothing here.
LEMMA SameW ==
    ASSUME WInv, IInv, exit' = "running" => exit = "running",
           \A s \in StreamIds : SameOutgoing(s),
           UNCHANGED <<capacity, connCap, pending, permit, cur, left, todo, notPending, frames>>,
           pc' = pc \/ (~InPass /\ ~InPass')
    PROVE  WInv'
  <1>0. connCap \in Int /\ connCap' \in Int /\ connCap' <= connCap
    BY DEF IInv, TypeOK, ConnType
  <1>1. (InPass' <=> InPass) /\ Snapshot'
    BY Zenon DEF WInv, InPass, Snapshot
  <1>2. ASSUME NEW s \in StreamIds PROVE Pending(s)' /\ Notified(s)' /\ Visited(s)'
    <2>1. Busy(s)' <=> Busy(s)
      BY Zenon DEF Busy, InPass
    <2>2. Pending(s) /\ Notified(s) /\ Visited(s) /\ SameOutgoing(s)
      BY Zenon DEF WInv
    <2>3. Pending(s)' /\ Notified(s)'
      BY Zenon, <1>1, <2>2, PendingKept, NotifiedKept
    <2>4. Visited(s)'
      BY Zenon, <1>0, <1>1, <2>1, <2>2, VisitedKept, FramesKept
    <2> QED BY Zenon, <2>3, <2>4
  <1> QED BY Zenon, <1>1, <1>2 DEF WInv

\* The connection ends.
LEMMA EndsW ==
    ASSUME WInv, IInv, NEW why, why # "running", Ends(why)
    PROVE  WInv'
  <1>1. /\ UNCHANGED <<streams, headers, body, queued, pieces, capacity, connCap, pending, permit,
                       pc, cur, left, todo, notPending, frames>>
        /\ exit' # "running"
    BY Zenon DEF Ends, outVars, passVars
  <1>2. \A s \in StreamIds : SameOutgoing(s)
    BY Zenon, <1>1 DEF SameOutgoing, Outgoing
  <1> QED BY Zenon, <1>1, <1>2, SameW

-----------------------------------------------------------------------------
(* The frames of the client.                                               *)

\* The outgoing half of a stream starts afresh, or goes: nothing to send on it.
LEMMA ResetOutgoingW ==
    ASSUME WInv, IInv, NEW s \in StreamIds, NEW cap, SetOutgoing(s, cap),
           \A r \in StreamIds : r # s => streams'[r] = streams[r],
           ~InPass, ~InPass',
           UNCHANGED <<connCap, pending, permit, todo, notPending, exit>>
    PROVE  WInv'
  <1>1. /\ headers' = [headers EXCEPT ![s] = "WaitingForHeaders"]
        /\ body' = [body EXCEPT ![s] = "StillReceiving"]
        /\ queued' = [queued EXCEPT ![s] = 0]
        /\ pieces' = [pieces EXCEPT ![s] = FALSE]
        /\ capacity' = [capacity EXCEPT ![s] = cap]
    BY Zenon DEF SetOutgoing
  <1>2. /\ headers'[s] = "WaitingForHeaders" /\ body'[s] = "StillReceiving"
        /\ queued'[s] = 0 /\ pieces'[s] = FALSE
    BY Zenon, <1>1 DEF IInv, TypeOK, StreamsType
  <1>3. Pending(s)' /\ Notified(s)'
    BY <1>2 DEF Pending, Notified, Ready
  <1>4. ASSUME NEW r \in StreamIds, r # s PROVE Pending(r)' /\ Notified(r)'
    <2>1. SameOutgoing(r) /\ capacity'[r] = capacity[r]
      BY Zenon, <1>1, <1>4 DEF SameOutgoing, Outgoing, IInv, TypeOK, StreamsType
    <2>2. Pending(r) /\ Notified(r)
      BY Zenon DEF WInv
    <2> QED BY Zenon, <2>1, <2>2, PendingKept, NotifiedKept
  <1> QED BY Zenon, <1>3, <1>4, BetweenPasses

\* A stream is removed.
LEMMA RemovedW ==
    ASSUME WInv, IInv, NEW s \in StreamIds, RemoveStream(s), pc = "loop",
           UNCHANGED <<connCap, pending, permit, pc, passVars, exit>>
    PROVE  WInv'
  <1>1. SetOutgoing(s, 0) /\ \A r \in StreamIds : r # s => streams'[r] = streams[r]
    BY Zenon DEF RemoveStream, DropOutgoing, IInv, TypeOK, StreamsType
  <1>2. ~InPass /\ ~InPass' /\ UNCHANGED <<todo, notPending>>
    BY Zenon DEF InPass, passVars
  <1> QED BY Zenon, <1>1, <1>2, ResetOutgoingW

\* The server resets a stream.
LEMMA ResetByServerW ==
    ASSUME WInv, IInv, NEW s \in StreamIds, ResetByServer(s), pc = "loop"
    PROVE  WInv'
  BY Zenon, RemovedW DEF ResetByServer, rst

\* HEADERS: a new stream has nothing to send yet.
LEMMA ReceiveHeadersW ==
    ASSUME WInv, IInv, NEW s \in StreamIds, NEW es \in BOOLEAN, NEW block \in Blocks,
           ReceiveHeaders(s, es, block)
    PROVE  WInv'
  <1>1. pc = "loop"
    BY Zenon DEF ReceiveHeaders, Receives
  <1>2. \/ Ends("ClientSidShouldBeOdd") \/ Ends("ClientSidShouldBeNumericallyIncreasing")
        \/ Ends("StreamClosed") \/ Ends("HpackDecodingError")
        \/ ResetByServer(s)
        \/ RemoveStream(s) /\ UNCHANGED <<connCap, pending, permit, pc, passVars, exit>>
        \/ AcceptRequest(s, es)
        \/ \E n \in ChunkLens : RespondWithStatus(s, n)
    BY Zenon DEF ReceiveHeaders, rst
  <1>3. CASE \/ Ends("ClientSidShouldBeOdd") \/ Ends("ClientSidShouldBeNumericallyIncreasing")
             \/ Ends("StreamClosed") \/ Ends("HpackDecodingError")
    BY Zenon, <1>3, EndsW
  <1>4. CASE AcceptRequest(s, es) \/ \E n \in ChunkLens : RespondWithStatus(s, n)
    <2>1. /\ SetOutgoing(s, initWindow)
          /\ \A r \in StreamIds : r # s => streams'[r] = streams[r]
          /\ pc' \in {"loop", "respond"}
          /\ UNCHANGED <<connCap, pending, permit, todo, notPending, exit>>
      BY Zenon, <1>1, <1>4
         DEF AcceptRequest, RespondWithStatus, mk_stream_outgoing, passVars, IInv, TypeOK,
         StreamsType
    <2>2. ~InPass /\ ~InPass'
      BY Zenon, <1>1, <2>1 DEF InPass
    <2> QED BY Zenon, <2>1, <2>2, ResetOutgoingW
  <1> QED BY Zenon, <1>1, <1>2, <1>3, <1>4, ResetByServerW, RemovedW

\* The client closes its half of a stream.
LEMMA HalfClosedW ==
    ASSUME WInv, IInv, NEW s \in StreamIds,
           \/ streams[s] = "Open" /\ streams' = [streams EXCEPT ![s] = "HalfClosedRemote"]
           \/ streams[s] = "HalfClosedLocal" /\ streams' = [streams EXCEPT ![s] = "Absent"],
           UNCHANGED <<outVars, connCap, pending, permit, pc, passVars, exit>>
    PROVE  WInv'
  <1>1. UNCHANGED <<headers, body, queued, pieces, capacity, connCap, pending, permit, pc, cur,
                    left, todo, notPending, frames, exit>>
    BY Zenon DEF outVars, passVars
  <1>2. \A r \in StreamIds : SameOutgoing(r)
    BY Zenon, <1>1 DEF SameOutgoing, Outgoing, IInv, TypeOK, StreamsType
  <1> QED BY Zenon, <1>1, <1>2, SameW

\* The other frames of a request.
LEMMA RequestFramesW ==
    ASSUME WInv, IInv, NEW s \in StreamIds, NEW es \in BOOLEAN,
           \/ \E b \in Blocks : ReceiveTrailers(s, es, b)
           \/ \E c \in {"handed", "refused", "underflow"} : ReceiveData(s, es, c)
           \/ ReceiveInvalidSize(s)
           \/ ReceiveRstStream(s)
    PROVE  WInv'
  <1> DEFINE Closes ==
        /\ \/ streams[s] = "Open" /\ streams' = [streams EXCEPT ![s] = "HalfClosedRemote"]
           \/ streams[s] = "HalfClosedLocal" /\ streams' = [streams EXCEPT ![s] = "Absent"]
        /\ UNCHANGED <<outVars, connCap, pending, permit, pc, passVars, exit>>
  <1>1. pc = "loop" /\ streams \in [StreamIds -> StreamStates]
    BY Zenon
       DEF ReceiveTrailers, ReceiveData, ReceiveInvalidSize, ReceiveRstStream, Receives, IInv,
       TypeOK, StreamsType
  <1>2. \/ Ends("StreamClosed") \/ Ends("HpackDecodingError") \/ Ends("panic: trailers not open")
        \/ Ends("WindowUnderflow") \/ Ends("RstStreamForUnknownStream")
        \/ ResetByServer(s)
        \/ RemoveStream(s) /\ UNCHANGED <<connCap, pending, permit, pc, passVars, exit>>
        \/ Closes
    <2>1. ASSUME NEW b \in Blocks, ReceiveTrailers(s, es, b)
          PROVE  \/ Ends("StreamClosed") \/ Ends("HpackDecodingError")
                 \/ Ends("panic: trailers not open") \/ ResetByServer(s) \/ Closes
      BY Zenon, <2>1 DEF ReceiveTrailers
    <2>2. ASSUME NEW c \in {"handed", "refused", "underflow"}, ReceiveData(s, es, c)
          PROVE  \/ Ends("StreamClosed") \/ Ends("WindowUnderflow") \/ ResetByServer(s) \/ Closes
      <3>1. \/ Ends("StreamClosed") \/ Ends("WindowUnderflow") \/ ResetByServer(s)
            \/ /\ streams[s] \in {"Open", "HalfClosedLocal"}
               /\ streams' = [streams EXCEPT ![s] = IF @ = "Open" THEN "HalfClosedRemote" ELSE "Absent"]
               /\ UNCHANGED <<outVars, connCap, pending, permit, pc, passVars, exit>>
        BY Zenon, <2>2 DEF ReceiveData
      <3> QED BY Zenon, <1>1, <3>1
    <2>3. CASE ReceiveInvalidSize(s) \/ ReceiveRstStream(s)
      BY Zenon, <2>3 DEF ReceiveInvalidSize, ReceiveRstStream
    <2> HIDE DEF Closes
    <2> QED BY Zenon, <2>1, <2>2, <2>3
  <1>3. CASE \/ Ends("StreamClosed") \/ Ends("HpackDecodingError") \/ Ends("panic: trailers not open")
             \/ Ends("WindowUnderflow") \/ Ends("RstStreamForUnknownStream")
    BY Zenon, <1>3, EndsW
  <1> QED BY Zenon, <1>1, <1>2, <1>3, ResetByServerW, RemovedW, HalfClosedW

\* A window grows: if that makes a stream ready, the loop is woken.
LEMMA WindowsW ==
    ASSUME WInv, IInv, pc = "loop",
           UNCHANGED <<streams, headers, body, queued, pieces, pc, passVars, exit>>,
           permit => permit',
           \A s \in StreamIds : s \in pending => s \in pending',
           \A s \in StreamIds : connCap' > 0 /\ Ready(s)' => permit' \/ (connCap > 0 /\ Ready(s))
    PROVE  WInv'
  <1>1. ~InPass /\ ~InPass' /\ UNCHANGED <<todo, notPending>>
    BY Zenon DEF InPass, passVars
  <1>2. ASSUME NEW s \in StreamIds PROVE Pending(s)' /\ Notified(s)'
    <2>1. SameOutgoing(s)
      BY Zenon DEF SameOutgoing, Outgoing
    <2>2. Pending(s)
      BY Zenon DEF WInv
    <2>3. Pending(s)'
      BY Zenon, <1>1, <2>1, <2>2, PendingKept
    <2>4. Notified(s)'
      BY Zenon, <1>1, NotifiedNow
    <2> QED BY Zenon, <2>3, <2>4
  <1> QED BY Zenon, <1>1, <1>2, BetweenPasses

\* SETTINGS: a window that grows from nothing gives a permit.
LEMMA ReceiveSettingsW ==
    ASSUME WInv, IInv, NEW w \in Windows, NEW f \in FrameSizes, ReceiveSettings(w, f)
    PROVE  WInv'
  <1>1. CASE Ends("StreamWindowSizeOverflowDueToSettings")
    BY Zenon, <1>1, EndsW
  <1>2. CASE ~Ends("StreamWindowSizeOverflowDueToSettings")
    <2> DEFINE next(s) == capacity[s] + (w - initWindow)
    <2>1. /\ pc = "loop"
          /\ capacity' = [s \in StreamIds |-> IF Outgoing(s) THEN next(s) ELSE capacity[s]]
          /\ permit' = (permit \/ \E s \in StreamIds : Outgoing(s) /\ next(s) > 0 /\ capacity[s] <= 0)
          /\ UNCHANGED <<streams, headers, body, queued, pieces, connCap, pending, pc, passVars, exit>>
      BY Zenon, <1>2 DEF ReceiveSettings, Receives
    <2>2. ASSUME NEW s \in StreamIds, connCap' > 0, Ready(s)'
          PROVE  permit' \/ (connCap > 0 /\ Ready(s))
      <3>1. Outgoing(s) /\ capacity'[s] = next(s) /\ capacity'[s] > 0 /\ capacity[s] \in Int
        BY Zenon, <2>1, <2>2 DEF Ready, Outgoing, IInv, TypeOK, StreamsType
      <3>2. CASE capacity[s] <= 0
        BY Zenon, <2>1, <3>1, <3>2
      <3>3. CASE capacity[s] > 0
        BY Zenon, <2>1, <2>2, <3>1, <3>3 DEF Ready
      <3> QED BY <3>1, <3>2, <3>3
    <2>3. permit => permit'
      BY Zenon, <2>1
    <2> QED BY Zenon, <2>1, <2>2, <2>3, WindowsW
  <1> QED BY Zenon, <1>1, <1>2

\* WINDOW_UPDATE: as above, for one stream or for the connection.
LEMMA WindowUpdatesW ==
    ASSUME WInv, IInv, NEW n \in Increments,
           ReceiveConnWindowUpdate(n) \/ \E s \in StreamIds : ReceiveStreamWindowUpdate(s, n)
    PROVE  WInv'
  <1>1. CASE ReceiveConnWindowUpdate(n)
    <2>1. CASE Ends("WindowUpdateZeroIncrement") \/ Ends("WindowUpdateOverflow")
      BY Zenon, <2>1, EndsW
    <2>2. CASE ~Ends("WindowUpdateZeroIncrement") /\ ~Ends("WindowUpdateOverflow")
      <3>1. /\ pc = "loop" /\ permit' = TRUE
            /\ UNCHANGED <<streams, headers, body, queued, pieces, pending, pc, passVars, exit>>
        BY Zenon, <1>1, <2>2 DEF ReceiveConnWindowUpdate, Receives, outVars
      <3> QED BY Zenon, <3>1, WindowsW
    <2> QED BY Zenon, <2>1, <2>2
  <1>2. ASSUME NEW s \in StreamIds, ReceiveStreamWindowUpdate(s, n) PROVE WInv'
    <2>1. CASE Ends("WindowUpdateZeroIncrement") \/ Ends("WindowUpdateForUnknownOrClosedStream")
      BY Zenon, <2>1, EndsW
    <2>2. CASE ResetByServer(s)
      BY Zenon, <1>2, <2>2, ResetByServerW DEF ReceiveStreamWindowUpdate, Receives
    <2>3. CASE /\ ~Ends("WindowUpdateZeroIncrement")
               /\ ~Ends("WindowUpdateForUnknownOrClosedStream") /\ ~ResetByServer(s)
      <3>1. /\ pc = "loop"
            /\ capacity' = [capacity EXCEPT ![s] = @ + n]
            /\ pending \subseteq pending'
            /\ permit' = (permit \/ (capacity[s] <= 0 /\ capacity[s] + n > 0 /\ connCap > 0))
            /\ UNCHANGED <<streams, headers, body, queued, pieces, connCap, pc, passVars, exit>>
        BY Zenon, <1>2, <2>3 DEF ReceiveStreamWindowUpdate, Receives
      <3>2. ASSUME NEW r \in StreamIds, connCap' > 0, Ready(r)'
            PROVE  permit' \/ (connCap > 0 /\ Ready(r))
        <4>1. /\ capacity[r] \in Int /\ capacity'[r] > 0
              /\ capacity'[r] = IF r = s THEN capacity[r] + n ELSE capacity[r]
          BY Zenon, <3>1, <3>2 DEF Ready, IInv, TypeOK, StreamsType
        <4>2. CASE capacity[r] > 0
          BY Zenon, <3>1, <3>2, <4>2 DEF Ready, Outgoing
        <4>3. CASE ~(capacity[r] > 0)
          <5>1. r = s /\ capacity[s] <= 0 /\ capacity[s] + n > 0
            BY <4>1, <4>3
          <5>2. connCap > 0
            BY Zenon, <3>1, <3>2
          <5> QED BY Zenon, <3>1, <5>1, <5>2
        <4> QED BY Zenon, <4>2, <4>3
      <3>3. permit => permit'
        BY Zenon, <3>1
      <3> QED BY Zenon, <3>1, <3>2, <3>3, WindowsW
    <2> QED BY Zenon, <2>1, <2>2, <2>3
  <1> QED BY Zenon, <1>1, <1>2

\* Every frame of the client, and its going away.
LEMMA ClientW ==
    ASSUME WInv, IInv, Client
    PROVE  WInv'
  <1>1. CASE ReceiveErroneous("FrameTooLarge") \/ TransportCloses
    BY Zenon, <1>1, EndsW DEF ReceiveErroneous, TransportCloses
  <1>2. ASSUME NEW s \in StreamIds, ReceiveInvalidSize(s) \/ ReceiveRstStream(s) PROVE WInv'
    <2>1. TRUE \in BOOLEAN
      BY Zenon
    <2> QED BY Zenon, <1>2, <2>1, RequestFramesW
  <1> QED
      BY Zenon, <1>1, <1>2, ReceiveHeadersW, RequestFramesW, ReceiveSettingsW, WindowUpdatesW
      DEF Client

-----------------------------------------------------------------------------
(* The channel.                                                            *)

\* What handlers put in the channel, and what process_frame does, touches no
\* outgoing half of a stream; nor does an event that comes too late.
LEMMA ChannelW ==
    ASSUME WInv, IInv,
           RespondStep \/ IgnoreEvent \/ \E s \in StreamIds : Handler(s)
    PROVE  WInv'
  <1>1. /\ UNCHANGED <<streams, headers, body, queued, pieces, capacity, connCap, pending, permit,
                       cur, left, todo, notPending, frames, exit>>
        /\ pc' = pc \/ (pc = "respond" /\ pc' \in {"loop", "respond"})
    <2>1. CASE RespondStep
      BY Zenon, <2>1 DEF RespondStep, outVars, passVars
    <2>2. CASE IgnoreEvent
      BY Zenon, <2>2 DEF IgnoreEvent, outVars, passVars
    <2>3. CASE \E s \in StreamIds : Handler(s)
      BY Zenon, <2>3 DEF Handler, write_response, write_body_chunk, write_body_end, DropEncoder,
         DropTaskSends, Sends, outVars, passVars
    <2> QED BY Zenon, <2>1, <2>2, <2>3
  <1>2. pc' = pc \/ (~InPass /\ ~InPass')
    BY Zenon, <1>1 DEF InPass
  <1>3. \A s \in StreamIds : SameOutgoing(s)
    BY Zenon, <1>1 DEF SameOutgoing, Outgoing
  <1> QED BY Zenon, <1>1, <1>2, <1>3, SameW

\* An event of stream s: the loop is woken if that makes the stream ready.
LEMMA EventTakenW ==
    ASSUME WInv, IInv, NEW s \in StreamIds, pc = "loop",
           \A r \in StreamIds : r # s => SameOutgoing(r),
           \A r \in StreamIds : r \in pending => r \in pending',
           UNCHANGED <<capacity, connCap, pc, todo, notPending, exit>>,
           permit => permit', Pending(s)',
           connCap > 0 /\ Ready(s)' => permit' \/ Ready(s)
    PROVE  WInv'
  <1>1. ~InPass /\ ~InPass'
    BY Zenon DEF InPass
  <1>2. Notified(s)'
    BY Zenon, <1>1, NotifiedNow
  <1>3. ASSUME NEW r \in StreamIds, r # s PROVE Pending(r)' /\ Notified(r)'
    <2>1. SameOutgoing(r) /\ Pending(r) /\ Notified(r) /\ capacity'[r] = capacity[r]
      BY Zenon, <1>3 DEF WInv
    <2> QED BY Zenon, <1>1, <2>1, PendingKept, NotifiedKept
  <1> QED BY Zenon, <1>1, <1>2, <1>3, BetweenPasses

\* Every event handle_event takes: what becomes ready gives a permit.
LEMMA HandleEventW ==
    ASSUME WInv, IInv, HandleEvent
    PROVE  WInv'
  <1>1. CASE IgnoreEvent
    BY Zenon, <1>1, ChannelW
  <1>2. CASE HandleHeaders \/ HandleBodyChunk \/ HandleBodyEnd
    <2>1. pc = "loop" /\ events # <<>>
      BY Zenon, <1>2 DEF HandleHeaders, HandleBodyChunk, HandleBodyEnd, Takes
    <2>2. PICK s \in StreamIds : s = Head(events).sid
      <3>1. Head(events) \in Events
        BY <2>1 DEF IInv, TypeOK, TaskType
      <3> QED BY Zenon, <3>1 DEF Events
    <2>3. Pending(s) /\ notPending = {}
      BY Zenon, <2>1 DEF WInv, Snapshot, InPass
    <2>4. CASE \/ Ends("panic: headers too late") \/ Ends("panic: piece after done")
               \/ Ends("panic: body end twice")
      BY Zenon, <2>4, EndsW
    <2>5. ASSUME HandleHeaders, ~Ends("panic: headers too late") PROVE WInv'
      <3>1. /\ headers' = [headers EXCEPT ![s] = "WroteNone"] /\ pending' = pending \cup {s}
            /\ permit' = (permit \/ (connCap > 0 /\ capacity[s] > 0))
            /\ UNCHANGED <<streams, body, queued, pieces, capacity, connCap, pc, todo, notPending, exit>>
        BY Zenon, <2>2, <2>5 DEF HandleHeaders, NotifyIfCapacity, passVars
      <3>2. Pending(s)'
        BY Zenon, <2>3, <3>1 DEF Pending
      <3>3. \A r \in StreamIds : r # s => SameOutgoing(r)
        BY Zenon, <3>1 DEF SameOutgoing, Outgoing, IInv, TypeOK, StreamsType
      <3>4. connCap > 0 /\ Ready(s)' => permit'
        BY Zenon, <3>1 DEF Ready
      <3> QED BY Zenon, <2>1, <3>1, <3>2, <3>3, <3>4, EventTakenW
    <2>6. ASSUME HandleBodyChunk, ~Ends("panic: piece after done") PROVE WInv'
      <3>1. /\ queued' = [queued EXCEPT ![s] = @ + Head(events).len]
            /\ pieces' = [pieces EXCEPT ![s] = TRUE] /\ pending' = pending \cup {s}
            /\ permit' = (permit \/ (connCap > 0 /\ capacity[s] > 0)) /\ body[s] # "DoneSending"
            /\ UNCHANGED <<streams, headers, body, capacity, connCap, pc, todo, notPending, exit>>
        BY Zenon, <2>2, <2>6 DEF HandleBodyChunk, NotifyIfCapacity, passVars
      <3>2. pieces'[s]
        BY Zenon, <3>1 DEF IInv, TypeOK, StreamsType
      <3>3. Pending(s)'
        BY Zenon, <2>3, <3>1, <3>2 DEF Pending
      <3>4. \A r \in StreamIds : r # s => SameOutgoing(r)
        BY Zenon, <3>1 DEF SameOutgoing, Outgoing, IInv, TypeOK, StreamsType
      <3>5. connCap > 0 /\ Ready(s)' => permit'
        BY Zenon, <3>1 DEF Ready
      <3> QED BY Zenon, <2>1, <3>1, <3>3, <3>4, <3>5, EventTakenW
    <2>7. ASSUME HandleBodyEnd, ~Ends("panic: body end twice") PROVE WInv'
      <3>1. /\ body' = [body EXCEPT ![s] = "DoneReceiving"] /\ permit' = (permit \/ ~pieces[s])
            /\ UNCHANGED <<streams, headers, queued, pieces, capacity, connCap, pending, pc, todo,
                           notPending, exit>>
        BY Zenon, <2>2, <2>7 DEF HandleBodyEnd, passVars
      <3>2. body'[s] = "DoneReceiving"
        BY Zenon, <3>1 DEF IInv, TypeOK, StreamsType
      <3>3. Pending(s)'
        <4>1. Outgoing(s)' <=> Outgoing(s)
          BY Zenon, <3>1 DEF Outgoing
        <4> QED BY Zenon, <2>3, <3>1, <3>2, <4>1 DEF Pending
      <3>4. \A r \in StreamIds : r # s => SameOutgoing(r)
        BY Zenon, <3>1 DEF SameOutgoing, Outgoing, IInv, TypeOK, StreamsType
      <3>5. connCap > 0 /\ Ready(s)' => permit' \/ Ready(s)
        BY Zenon, <3>1 DEF Ready, Outgoing
      <3> QED BY Zenon, <2>1, <3>1, <3>3, <3>4, <3>5, EventTakenW
    <2> QED BY Zenon, <1>2, <2>4, <2>5, <2>6, <2>7
  <1> QED BY Zenon, <1>1, <1>2 DEF HandleEvent

-----------------------------------------------------------------------------
(* send_data_maybe and write_frame                                         *)

\* A pass begins: the permit is spent, and every pending stream is in todo.
LEMMA BeginPassW ==
    ASSUME WInv, OInv, IInv, BeginPass
    PROVE  WInv'
  <1>1. /\ pc = "loop" /\ todo' = pending /\ pc' = "each" /\ frames = <<>> /\ frames' = <<>>
        /\ UNCHANGED <<streams, headers, body, queued, pieces, capacity, connCap, pending,
                       notPending, exit>>
    BY Zenon DEF BeginPass, outVars, OInv, PassInv
  <1>2. Snapshot' /\ InPass'
    BY Zenon, <1>1 DEF Snapshot, InPass
  <1>3. ASSUME NEW s \in StreamIds PROVE Pending(s)' /\ Notified(s)' /\ Visited(s)'
    <2>1. SameOutgoing(s) /\ Pending(s)
      BY Zenon, <1>1 DEF SameOutgoing, Outgoing, WInv
    <2>2. Pending(s)'
      BY Zenon, <1>1, <2>1, PendingKept
    <2>3. Notified(s)'
      BY Zenon, <1>2 DEF Notified
    <2>4. ~OfStream(frames, s)' /\ ~Busy(s)'
      BY <1>1 DEF OfStream, Busy
    <2>5. Ready(s)' => s \in todo'
      BY Zenon, <1>1, <2>2 DEF Pending, Ready
    <2> QED BY Zenon, <2>2, <2>3, <2>4, <2>5 DEF Visited
  <1> QED BY Zenon, <1>2, <1>3 DEF WInv

\* A step of the pass on stream s.
LEMMA PassStepW ==
    ASSUME WInv, IInv, InPass, InPass', Snapshot', NEW s \in StreamIds, Pending(s)', Visited(s)',
           \A r \in StreamIds : r # s =>
              /\ SameOutgoing(r) /\ SameFrames(r) /\ capacity'[r] = capacity[r]
              /\ r \in todo' <=> r \in todo
              /\ r \in pending => r \in pending'
              /\ r \in notPending' => r \in notPending
              /\ ~Busy(r) /\ ~Busy(r)',
           connCap' \in Int, connCap' <= connCap, exit' = exit
    PROVE  WInv'
  <1>1. Notified(s)'
    BY Zenon DEF Notified
  <1>2. ASSUME NEW r \in StreamIds, r # s PROVE Pending(r)' /\ Notified(r)' /\ Visited(r)'
    <2>1. Pending(r) /\ Visited(r) /\ connCap \in Int
      BY DEF WInv, IInv, TypeOK, ConnType
    <2>2. Pending(r)'
      BY Zenon, <1>2, <2>1, PendingKept
    <2>3. Notified(r)'
      BY Zenon DEF Notified
    <2>4. Visited(r)'
      BY Zenon, <1>2, <2>1, VisitedKept
    <2> QED BY Zenon, <2>2, <2>3, <2>4
  <1> QED BY Zenon, <1>1, <1>2 DEF WInv

\* It comes to a stream, with the smaller of its two windows to spend.
LEMMA VisitStreamW ==
    ASSUME WInv, IInv, NEW s \in StreamIds, VisitStream(s)
    PROVE  WInv'
  <1>1. pc = "each" /\ s \in todo /\ connCap > 0 /\ InPass /\ Snapshot /\ Pending(s) /\ Visited(s)
    BY Zenon DEF VisitStream, InPass, WInv
  <1>2. connCap \in Int /\ capacity[s] \in Int /\ frames \in Seq(Frames)
    BY DEF IInv, TypeOK, ConnType, StreamsType, LoopType
  <1>3. CASE Ends("panic: pending stream is not outgoing")
    BY Zenon, <1>3, EndsW
  <1>4. CASE ~Ends("panic: pending stream is not outgoing")
    <2>1. /\ todo' = todo \ {s} /\ (cur' = s \/ pc' = "each")
          /\ pc' \in {"each", "body", "headers"}
          /\ UNCHANGED <<streams, headers, body, queued, pieces, capacity, connCap, pending, frames,
                         exit>>
      BY Zenon, <1>1, <1>4 DEF VisitStream, outVars
    <2>2. \A r \in StreamIds : r # s => (r \in notPending' => r \in notPending)
      <3>1. notPending' = notPending \cup {s} \/ notPending' = notPending
        BY Zenon, <1>4 DEF VisitStream
      <3> QED BY Zenon, <3>1
    <2>3. InPass' /\ Snapshot'
      BY Zenon, <2>1 DEF InPass, Snapshot
    <2>4. ASSUME NEW r \in StreamIds, r # s
          PROVE  SameOutgoing(r) /\ SameFrames(r) /\ ~Busy(r) /\ ~Busy(r)'
      BY Zenon, <1>1, <2>1, <2>4, FramesKept DEF SameOutgoing, Outgoing, Busy
    <2>5. CASE headers[s] = "WaitingForHeaders"
      <3>1. pc' = "each"
        BY Zenon, <1>1, <1>4, <2>5 DEF VisitStream
      <3>2. Pending(s)'
        BY Zenon, <1>1, <2>1, <2>5 DEF Pending
      <3>3. ~Busy(s)' /\ ~Ready(s)'
        BY Zenon, <2>1, <2>5, <3>1 DEF Busy, Ready
      <3>4. Visited(s)'
        BY <2>1, <3>3 DEF Visited
      <3> QED BY <1>1, <1>2, <2>1, <2>2, <2>3, <2>4, <3>2, <3>4, PassStepW
    <2>6. CASE headers[s] # "WaitingForHeaders"
      <3>1. /\ cur' = s /\ left' = AsUsize(Min(connCap, capacity[s])) /\ notPending' = notPending
            /\ pc' \in {"body", "headers"}
        BY Zenon, <1>4, <2>6 DEF VisitStream
      <3>2. SameOutgoing(s)
        BY Zenon, <2>1 DEF SameOutgoing, Outgoing
      <3>3. Pending(s)'
        BY Zenon, <1>1, <2>1, <3>1, <3>2, PendingKept
      <3>4. Busy(s)' /\ Bytes(frames', FrameLoad(s), 0)
        BY Zenon, <1>1, <1>2, <2>1, <3>1, NoFrameBytes DEF Busy, Visited
      <3>5. capacity'[s] > 0 => left' = Min(connCap', capacity'[s]) - 0
        BY <1>1, <1>2, <2>1, <3>1 DEF Min, AsUsize
      <3>6. Bytes(frames, FrameLoad(s), 0)' /\ 0 \in Int
        BY <3>4
      <3>7. Visited(s)'
        BY Zenon, <2>1, <3>4, <3>5, <3>6 DEF Visited, Min
      <3> QED BY <1>1, <1>2, <2>1, <2>2, <2>3, <2>4, <3>3, <3>7, PassStepW
    <2> QED BY Zenon, <2>5, <2>6
  <1> QED BY Zenon, <1>3, <1>4

\* The pass works on stream s = cur, which is no longer in the snapshot.
LEMMA VisitedNow ==
    ASSUME WInv, OInv, IInv, pc \in {"headers", "body"}
    PROVE  /\ cur \in StreamIds /\ Outgoing(cur) /\ headers[cur] # "WaitingForHeaders"
           /\ pc = "body" => headers[cur] = "WroteAll"
           /\ cur \notin todo /\ Busy(cur) /\ Pending(cur) /\ Visited(cur)
           /\ InPass /\ \A r \in StreamIds : r # cur => ~Busy(r)
           /\ frames \in Seq(Frames) /\ connCap \in Int /\ capacity[cur] \in Int /\ left \in Nat
  <1>1. cur \in StreamIds /\ frames \in Seq(Frames) /\ connCap \in Int /\ left \in Nat
    BY DEF IInv, TypeOK, LoopType, ConnType
  <1>2. capacity[cur] \in Int
    BY Zenon, <1>1 DEF IInv, TypeOK, StreamsType
  <1>3. /\ Outgoing(cur) /\ headers[cur] # "WaitingForHeaders"
        /\ pc = "body" => headers[cur] = "WroteAll"
    BY Zenon DEF OInv, PassInv
  <1>4. Busy(cur) /\ InPass /\ \A r \in StreamIds : r # cur => ~Busy(r)
    BY Zenon DEF Busy, InPass
  <1>5. Pending(cur) /\ Visited(cur)
    BY Zenon, <1>1 DEF WInv
  <1>6. cur \notin todo
    BY Zenon, <1>4, <1>5 DEF Visited
  <1> QED BY Zenon, <1>1, <1>2, <1>3, <1>4, <1>5, <1>6

\* A header frame uses up no window.
LEMMA QueueHeaderFrameW ==
    ASSUME WInv, OInv, IInv, QueueHeaderFrame
    PROVE  WInv'
  <1>0. pc = "headers"
    BY Zenon DEF QueueHeaderFrame
  <1>1. PICK s \in StreamIds :
          /\ s = cur /\ Outgoing(s) /\ headers[s] # "WaitingForHeaders" /\ s \notin todo
          /\ Busy(s) /\ Pending(s) /\ Visited(s) /\ InPass
          /\ \A r \in StreamIds : r # s => ~Busy(r)
          /\ frames \in Seq(Frames) /\ connCap \in Int
    BY Zenon, <1>0, VisitedNow
  <1>2. PICK f \in Frames : f.sid = s /\ f.type # "DATA" /\ frames' = Append(frames, f)
    <2> DEFINE type == IF headers[s] = "WroteSome" THEN "CONTINUATION" ELSE "HEADERS"
               g == [sid |-> s, type |-> type, len |-> Min(headerLen[s], maxFrame),
                     end |-> headerLen[s] <= maxFrame]
    <2>1. headerLen[s] \in Nat /\ maxFrame \in Nat
      BY Zenon DEF IInv, TypeOK, StreamsType, ConnType
    <2>2. g \in Frames /\ g.sid = s /\ g.type # "DATA"
      BY <2>1 DEF Frames, Min
    <2>3. frames' = Append(frames, g)
      BY Zenon, <1>1 DEF QueueHeaderFrame
    <2> HIDE DEF g
    <2> QED BY Zenon, <2>2, <2>3
  <1>3. /\ \/ headers' = [headers EXCEPT ![s] = "WroteAll"]
           \/ headers' = [headers EXCEPT ![s] = "WroteSome"]
        /\ pc' \in {"body", "headers"}
        /\ UNCHANGED <<streams, body, queued, pieces, capacity, connCap, pending, cur, left, todo,
                       notPending, exit>>
    BY Zenon, <1>1 DEF QueueHeaderFrame
  <1>4. InPass' /\ Snapshot' /\ Busy(s)' /\ \A r \in StreamIds : r # s => ~Busy(r)'
    BY Zenon, <1>1, <1>3 DEF InPass, Snapshot, Busy
  <1>5. Pending(s)'
    BY Zenon, <1>1, <1>3 DEF Pending, Outgoing
  <1>6. Visited(s)'
    <2>1. ASSUME capacity[s] > 0, connCap > 0
          PROVE  \E b \in Int : /\ Bytes(frames', FrameLoad(s), b)
                                /\ left = Min(connCap, capacity[s]) - b
      <3> PICK b \in Int : /\ Bytes(frames, FrameLoad(s), b)
                           /\ left = Min(connCap, capacity[s]) - b
        BY Zenon, <1>1, <2>1 DEF Visited
      <3>1. FrameLoad(s)[f] = 0
        BY Zenon, <1>2 DEF FrameLoad
      <3>2. Bytes(Append(frames, f), FrameLoad(s), b + FrameLoad(s)[f])
        BY Zenon, <1>1, BytesAppend, LoadTypes
      <3>3. Bytes(frames', FrameLoad(s), b)
        BY <1>2, <3>1, <3>2
      <3> QED BY Zenon, <3>3
    <2>2. capacity'[s] > 0 /\ connCap' > 0 =>
          (\E b \in Int : /\ Bytes(frames, FrameLoad(s), b)
                          /\ left = Min(connCap, capacity[s]) - b)'
      <3>1. ASSUME NEW b \in Int, Bytes(frames', FrameLoad(s), b)
            PROVE  Bytes(frames, FrameLoad(s), b)'
        BY Zenon, <3>1
      <3> QED BY Zenon, <1>3, <2>1, <3>1 DEF Min
    <2> QED BY Zenon, <1>1, <1>3, <1>4, <2>2 DEF Visited
  <1>7. ASSUME NEW r \in StreamIds, r # s PROVE SameOutgoing(r) /\ SameFrames(r)
    <2>1. SameOutgoing(r)
      BY Zenon, <1>3, <1>7 DEF SameOutgoing, Outgoing, IInv, TypeOK, StreamsType
    <2> QED BY Zenon, <1>1, <1>2, <1>7, <2>1, FrameOfOther
  <1> QED BY <1>1, <1>3, <1>4, <1>5, <1>6, <1>7, PassStepW

\* What 'queue_body_frames takes off the body: all of it, a frame's worth, or
\* what the windows allow.
LEMMA DataFrameTaken ==
    ASSUME IInv, QueueDataFrame
    PROVE  \E n \in Nat, done \in BOOLEAN :
             /\ n <= queued[cur] /\ n <= left /\ body[cur] # "DoneSending"
             /\ done <=> body[cur] = "DoneReceiving" /\ n = queued[cur]
             /\ n = 0 => queued[cur] = 0
             /\ queued' = [queued EXCEPT ![cur] = queued[cur] - n]
             /\ pieces' = [pieces EXCEPT ![cur] = n < queued[cur]]
             /\ body' = [body EXCEPT ![cur] = IF done THEN "DoneSending" ELSE body[cur]]
             /\ \/ frames' = frames /\ n = 0 /\ pc' = "each"
                \/ /\ frames' = Append(frames, [sid |-> cur, type |-> "DATA", len |-> n, end |-> done])
                   /\ pc' = IF done THEN "each" ELSE "body"
             /\ left' = left - n
             /\ UNCHANGED <<streams, headers, capacity, connCap, pending, cur, todo, notPending, exit>>
  <1> DEFINE n == Min(queued[cur], Min(maxFrame, left))
             done == Finishes(n)
  <1>1. cur \in StreamIds
    BY Zenon DEF IInv, TypeOK, LoopType, QueueDataFrame
  <1>2. queued[cur] \in Nat /\ maxFrame \in Nat \ {0} /\ left \in Nat /\ left > 0
    BY Zenon, <1>1 DEF IInv, TypeOK, StreamsType, ConnType, LoopType, QueueDataFrame
  <1>3. n \in Nat /\ n <= queued[cur] /\ n <= left /\ (n = 0 => queued[cur] = 0)
    BY <1>2 DEF Min
  <1>4. done \in BOOLEAN /\ (done <=> body[cur] = "DoneReceiving" /\ n = queued[cur])
    BY Zenon DEF Finishes
  <1>5. /\ body[cur] # "DoneSending"
        /\ queued' = [queued EXCEPT ![cur] = queued[cur] - n]
        /\ pieces' = [pieces EXCEPT ![cur] = n < queued[cur]]
        /\ body' = [body EXCEPT ![cur] = IF done THEN "DoneSending" ELSE body[cur]]
        /\ frames' = IF done \/ n > 0
                       THEN Append(frames, [sid |-> cur, type |-> "DATA", len |-> n, end |-> done])
                       ELSE frames
        /\ pc' = IF (done \/ n > 0) /\ ~done THEN "body" ELSE "each"
        /\ left' = left - n
        /\ UNCHANGED <<streams, headers, capacity, connCap, pending, cur, todo, notPending, exit>>
    BY Zenon DEF QueueDataFrame
  <1> HIDE DEF n, done
  <1>6. ~(done \/ n > 0) => n = 0 /\ ~done
    BY <1>3
  <1>7. \/ frames' = frames /\ n = 0 /\ pc' = "each"
        \/ /\ frames' = Append(frames, [sid |-> cur, type |-> "DATA", len |-> n, end |-> done])
           /\ pc' = IF done THEN "each" ELSE "body"
    BY Zenon, <1>5, <1>6
  <1> QED BY Zenon, <1>3, <1>4, <1>5, <1>7

\* A DATA frame uses up what the visit has left, or all the stream has.
LEMMA QueueDataFrameW ==
    ASSUME WInv, OInv, IInv, QueueDataFrame
    PROVE  WInv'
  <1>0. pc = "body"
    BY Zenon DEF QueueDataFrame
  <1>1. PICK s \in StreamIds :
          /\ s = cur /\ Outgoing(s) /\ headers[s] = "WroteAll" /\ s \notin todo
          /\ Busy(s) /\ Pending(s) /\ Visited(s) /\ InPass
          /\ \A r \in StreamIds : r # s => ~Busy(r)
          /\ frames \in Seq(Frames) /\ connCap \in Int /\ capacity[s] \in Int /\ left \in Nat
    BY Zenon, <1>0, VisitedNow
  <1>2. PICK n \in Nat, done \in BOOLEAN :
             /\ n <= queued[s] /\ n <= left /\ body[s] # "DoneSending"
             /\ done <=> body[s] = "DoneReceiving" /\ n = queued[s]
             /\ n = 0 => queued[s] = 0
             /\ queued' = [queued EXCEPT ![s] = queued[s] - n]
             /\ pieces' = [pieces EXCEPT ![s] = n < queued[s]]
             /\ body' = [body EXCEPT ![s] = IF done THEN "DoneSending" ELSE body[s]]
             /\ \/ frames' = frames /\ n = 0 /\ pc' = "each"
                \/ /\ frames' = Append(frames, [sid |-> s, type |-> "DATA", len |-> n, end |-> done])
                   /\ pc' = IF done THEN "each" ELSE "body"
             /\ left' = left - n
             /\ UNCHANGED <<streams, headers, capacity, connCap, pending, cur, todo, notPending, exit>>
    BY Zenon, <1>1, DataFrameTaken
  <1>3. /\ queued'[s] = queued[s] - n /\ pieces'[s] = (n < queued[s]) /\ queued[s] \in Nat
        /\ body'[s] = IF done THEN "DoneSending" ELSE body[s]
        /\ \A r \in StreamIds : r # s => queued'[r] = queued[r] /\ pieces'[r] = pieces[r]
                                         /\ body'[r] = body[r]
    BY Zenon, <1>2 DEF IInv, TypeOK, StreamsType
  <1>3a. pieces'[s] <=> n < queued[s]
    BY Zenon, <1>3
  <1>4. InPass' /\ Snapshot' /\ \A r \in StreamIds : r # s => ~Busy(r)'
    BY Zenon, <1>1, <1>2 DEF InPass, Snapshot, Busy
  <1>5. Pending(s)'
    <2>1. Outgoing(s)' /\ headers'[s] # "WaitingForHeaders" => s \in pending' /\ s \notin notPending'
      BY Zenon, <1>1, <1>2 DEF Pending, Outgoing
    <2>2. queued'[s] > 0 => n < queued[s]
      BY <1>2, <1>3
    <2>3. body'[s] = "DoneSending" => ~(n < queued[s])
      BY <1>2, <1>3
    <2> QED BY Zenon, <1>3a, <2>1, <2>2, <2>3 DEF Pending
  <1>6. Visited(s)'
    <2>1. CASE pc' = "each"
      <3>1. ~Busy(s)'
        BY Zenon, <2>1 DEF Busy
      <3>2. body'[s] # "DoneReceiving" /\ n = queued[s]
        <4>1. CASE done
          BY Zenon, <1>2, <1>3, <4>1
        <4>2. CASE ~done
          <5>1. n = 0 /\ n = queued[s]
            BY Zenon, <1>2, <2>1, <4>2
          <5> QED BY Zenon, <1>2, <1>3, <4>2, <5>1
        <4> QED BY Zenon, <4>1, <4>2
      <3>3. ~pieces'[s]
        <4>1. ~(n < queued[s])
          BY <1>3, <3>2
        <4> QED BY Zenon, <1>3a, <4>1
      <3>4. ~Ready(s)'
        BY Zenon, <1>1, <1>2, <3>2, <3>3 DEF Ready
      <3> QED BY Zenon, <1>1, <1>2, <3>1, <3>4 DEF Visited
    <2>2. CASE pc' = "body"
      <3> DEFINE f == [sid |-> s, type |-> "DATA", len |-> n, end |-> done]
      <3>1. frames' = Append(frames, f) /\ Busy(s)'
        BY Zenon, <1>1, <1>2, <2>2 DEF Busy
      <3>2. f \in Frames /\ FrameLoad(s)[f] = n
        BY Zenon DEF Frames, FrameLoad
      <3> HIDE DEF f
      <3>3. ASSUME capacity[s] > 0, connCap > 0
            PROVE  \E b \in Int : /\ Bytes(frames', FrameLoad(s), b)
                                  /\ left' = Min(connCap, capacity[s]) - b
        <4> PICK b \in Int : /\ Bytes(frames, FrameLoad(s), b)
                             /\ left = Min(connCap, capacity[s]) - b
          BY Zenon, <1>1, <3>3 DEF Visited
        <4>1. Bytes(Append(frames, f), FrameLoad(s), b + FrameLoad(s)[f])
          BY Zenon, <1>1, <3>2, BytesAppend, LoadTypes
        <4>2. Bytes(frames', FrameLoad(s), b + n)
          BY Zenon, <3>1, <3>2, <4>1
        <4>3. left' = Min(connCap, capacity[s]) - (b + n)
          BY <1>1, <1>2 DEF Min
        <4> QED BY <4>2, <4>3
      <3>4. capacity'[s] > 0 /\ connCap' > 0 =>
            (\E b \in Int : /\ Bytes(frames, FrameLoad(s), b)
                            /\ left = Min(connCap, capacity[s]) - b)'
        <4>1. ASSUME NEW b \in Int, Bytes(frames', FrameLoad(s), b)
              PROVE  Bytes(frames, FrameLoad(s), b)'
          BY Zenon, <4>1
        <4> QED BY Zenon, <1>2, <3>3, <4>1 DEF Min
      <3> QED BY Zenon, <1>1, <1>2, <3>1, <3>4 DEF Visited
    <2> QED BY Zenon, <1>2, <2>1, <2>2
  <1>7. ASSUME NEW r \in StreamIds, r # s PROVE SameOutgoing(r) /\ SameFrames(r)
    <2>1. SameOutgoing(r)
      BY Zenon, <1>2, <1>3, <1>7 DEF SameOutgoing, Outgoing
    <2>2. [sid |-> s, type |-> "DATA", len |-> n, end |-> done] \in Frames
      BY Zenon DEF Frames
    <2> QED BY Zenon, <1>1, <1>2, <1>7, <2>1, <2>2, FrameOfOther, FramesKept
  <1>8. connCap' \in Int /\ connCap' <= connCap
    BY <1>1, <1>2
  <1> QED BY <1>1, <1>2, <1>4, <1>5, <1>6, <1>7, <1>8, PassStepW

\* The pass leaves a stream: nothing is left to send, or a window is used up.
LEMMA LeaveStreamW ==
    ASSUME WInv, OInv, IInv, LeaveStream
    PROVE  WInv'
  <1>0. pc = "body"
    BY Zenon DEF LeaveStream
  <1>1. PICK s \in StreamIds :
          /\ s = cur /\ headers[s] = "WroteAll" /\ s \notin todo
          /\ Busy(s) /\ Pending(s) /\ Visited(s) /\ InPass
          /\ \A r \in StreamIds : r # s => ~Busy(r)
          /\ connCap \in Int /\ capacity[s] \in Int
    BY Zenon, <1>0, VisitedNow
  <1>2. /\ body[s] = "DoneSending" \/ left = 0
        /\ pc' = "each"
        /\ UNCHANGED <<streams, headers, body, queued, pieces, capacity, connCap, pending, todo,
                       notPending, frames, exit>>
    BY Zenon, <1>1 DEF LeaveStream, outVars, passVars
  <1>3. InPass' /\ Snapshot' /\ \A r \in StreamIds : ~Busy(r)'
    BY Zenon, <1>2 DEF InPass, Snapshot, Busy
  <1>4. \A r \in StreamIds : SameOutgoing(r) /\ SameFrames(r)
    BY Zenon, <1>2, FramesKept DEF SameOutgoing, Outgoing
  <1>5. Pending(s)'
    BY Zenon, <1>1, <1>2, <1>4, PendingKept
  <1>6. ASSUME connCap' > 0, Ready(s)' PROVE Spent(s)'
    <2>1. connCap > 0 /\ capacity[s] > 0 /\ (pieces[s] \/ body[s] = "DoneReceiving")
      BY Zenon, <1>1, <1>2, <1>6 DEF Ready
    <2>2. left = 0
      BY Zenon, <1>1, <1>2, <2>1 DEF Pending
    <2> PICK b \in Int : /\ Bytes(frames, FrameLoad(s), b)
                         /\ left = Min(connCap, capacity[s]) - b
      BY Zenon, <1>1, <2>1 DEF Visited
    <2>3. capacity[s] <= b \/ connCap <= b
      BY <1>1, <2>2 DEF Min
    <2>4. Bytes(frames, FrameLoad(s), b)' /\ (capacity'[s] <= b \/ connCap' <= b)
      BY Zenon, <1>2, <2>3
    <2> QED BY Zenon, <2>4 DEF Spent
  <1>7. Visited(s)'
    BY Zenon, <1>1, <1>2, <1>3, <1>6 DEF Visited
  <1>8. connCap' \in Int /\ connCap' <= connCap
    BY <1>1, <1>2
  <1> QED BY Zenon, <1>1, <1>2, <1>3, <1>4, <1>5, <1>7, <1>8, PassStepW

\* Every stream was visited.
LEMMA BeginWritingW ==
    ASSUME WInv, IInv, BeginWriting
    PROVE  WInv'
  <1>1. /\ pc = "each" /\ pc' = "write" /\ todo' = {} /\ (todo = {} \/ connCap <= 0)
        /\ UNCHANGED <<streams, headers, body, queued, pieces, capacity, connCap, pending,
                       notPending, frames, exit>>
    BY Zenon DEF BeginWriting, outVars
  <1>2. InPass /\ InPass' /\ Snapshot' /\ \A s \in StreamIds : ~Busy(s) /\ ~Busy(s)'
    BY Zenon, <1>1 DEF InPass, Snapshot, Busy
  <1>3. connCap \in Int /\ connCap' \in Int /\ connCap' <= connCap
    BY <1>1 DEF IInv, TypeOK, ConnType
  <1>4. ASSUME NEW s \in StreamIds PROVE Pending(s)' /\ Notified(s)' /\ Visited(s)'
    <2>1. Pending(s) /\ Visited(s) /\ SameOutgoing(s) /\ SameFrames(s)
      BY Zenon, <1>1, FramesKept DEF WInv, SameOutgoing, Outgoing
    <2>2. Pending(s)' /\ Notified(s)'
      BY Zenon, <1>1, <1>2, <2>1, PendingKept DEF Notified
    <2>3. CASE todo = {}
      BY Zenon, <1>1, <1>2, <1>3, <2>1, <2>2, <2>3, VisitedKept
    <2>4. CASE connCap <= 0
      <3>1. ~(connCap' > 0)
        BY <1>1, <1>3, <2>4
      <3>2. Visited(s)'
        BY Zenon, <1>1, <1>2, <3>1 DEF Visited
      <3> QED BY Zenon, <2>2, <3>2
    <2> QED BY Zenon, <1>1, <2>3, <2>4
  <1> QED BY Zenon, <1>2, <1>4 DEF WInv

\* A frame of s is written: what is left of the frames uses up what is left of
\* the windows.
LEMMA WriteW ==
    ASSUME WInv, IInv, NEW s \in StreamIds, NEW n \in Nat,
           pc = "write", frames # <<>>, Head(frames).sid = s, FrameLoad(s)[Head(frames)] = n,
           frames' = Tail(frames), connCap' = connCap - n, capacity' = [capacity EXCEPT ![s] = @ - n],
           UNCHANGED <<streams, headers, body, queued, pieces, pending, pc, todo, notPending, exit>>
    PROVE  WInv'
  <1>1. /\ connCap \in Int /\ capacity \in [StreamIds -> Int] /\ frames \in Seq(Frames)
        /\ Head(frames) \in Frames
    BY DEF IInv, TypeOK, ConnType, StreamsType, LoopType
  <1>2. /\ connCap' \in Int /\ connCap' <= connCap
        /\ capacity'[s] = capacity[s] - n /\ capacity[s] \in Int
        /\ \A r \in StreamIds : r # s => capacity'[r] = capacity[r]
    BY <1>1
  <1>3. InPass /\ InPass' /\ Snapshot' /\ todo = {} /\ \A r \in StreamIds : ~Busy(r) /\ ~Busy(r)'
    BY Zenon DEF InPass, Snapshot, Busy, WInv
  <1>4. \A r \in StreamIds : SameOutgoing(r)
    BY Zenon DEF SameOutgoing, Outgoing
  <1>5. ASSUME NEW r \in StreamIds, r # s PROVE SameFrames(r)
    BY Zenon, <1>1, <1>5, WrittenOfOther
  <1>6. Pending(s) /\ Visited(s)
    BY Zenon DEF WInv
  <1>7. Pending(s)'
    BY Zenon, <1>4, <1>6, PendingKept
  <1>8. ASSUME exit' = "running", connCap' > 0, Ready(s)' PROVE Spent(s)'
    <2>1. exit = "running" /\ connCap > 0 /\ capacity[s] > 0
      BY <1>1, <1>2, <1>8 DEF Ready
    <2>2. Ready(s)
      BY Zenon, <1>8, <2>1 DEF Ready, Outgoing
    <2>3. Spent(s)
      BY Zenon, <1>3, <1>6, <2>1, <2>2 DEF Visited
    <2> PICK b \in Int : Bytes(frames, FrameLoad(s), b) /\ (capacity[s] <= b \/ connCap <= b)
      BY Zenon, <2>3 DEF Spent
    <2>4. Bytes(Tail(frames), FrameLoad(s), b - FrameLoad(s)[Head(frames)])
      BY Zenon, <1>1, BytesTail, LoadTypes
    <2>5. Bytes(frames, FrameLoad(s), b - n)'
      BY Zenon, <2>4
    <2>6. b - n \in Int /\ (capacity'[s] <= b - n \/ connCap' <= b - n)
      BY <1>1, <1>2
    <2> QED BY Zenon, <2>5, <2>6 DEF Spent
  <1>9. Visited(s)'
    BY Zenon, <1>3, <1>8 DEF Visited
  <1> QED BY <1>2, <1>3, <1>4, <1>5, <1>7, <1>9, PassStepW

\* HEADERS or CONTINUATION is written.
LEMMA WriteHeaderFrameW ==
    ASSUME WInv, IInv, WriteHeaderFrame
    PROVE  WInv'
  <1>1. /\ pc = "write" /\ frames # <<>> /\ Head(frames).type # "DATA" /\ frames' = Tail(frames)
        /\ UNCHANGED <<streams, headers, body, queued, pieces, capacity, connCap, pending, pc, todo,
                       notPending, exit>>
    BY Zenon DEF WriteHeaderFrame, outVars
  <1>2. PICK s \in StreamIds : Head(frames).sid = s /\ FrameLoad(s)[Head(frames)] = 0
    <2>1. Head(frames) \in Frames
      BY <1>1 DEF IInv, TypeOK, LoopType
    <2> QED BY Zenon, <1>1, <2>1 DEF Frames, FrameLoad
  <1>3. connCap' = connCap - 0 /\ capacity' = [capacity EXCEPT ![s] = @ - 0]
    BY <1>1 DEF IInv, TypeOK, ConnType, StreamsType
  <1>4. 0 \in Nat
    BY Zenon
  <1> QED BY Zenon, <1>1, <1>2, <1>3, <1>4, WriteW

\* DATA is written: the windows shrink by what was queued.
LEMMA WriteDataFrameW ==
    ASSUME WInv, IInv, WriteDataFrame
    PROVE  WInv'
  <1>1. pc = "write" /\ frames # <<>> /\ Head(frames).type = "DATA"
    BY Zenon DEF WriteDataFrame
  <1>2. PICK f \in Frames, s \in StreamIds, n \in Nat :
          f = Head(frames) /\ f.sid = s /\ f.len = n /\ FrameLoad(s)[f] = n /\ f.end \in BOOLEAN
    <2>1. Head(frames) \in Frames
      BY <1>1 DEF IInv, TypeOK, LoopType
    <2> QED BY Zenon, <1>1, <2>1 DEF Frames, FrameLoad
  <1>3. CASE \/ Ends("panic: DATA without outgoing") \/ Ends("panic: stream capacity negative")
             \/ Ends("panic: connection capacity negative")
    BY Zenon, <1>3, EndsW
  <1>4. CASE ~(\/ Ends("panic: DATA without outgoing") \/ Ends("panic: stream capacity negative")
               \/ Ends("panic: connection capacity negative"))
    <2>1. /\ connCap' = connCap - n
          /\ IF f.end
               THEN /\ streams' = [streams EXCEPT ![s] =
                                     IF @ = "Open" THEN "HalfClosedLocal" ELSE "Absent"]
                    /\ pending' = pending \ {s}
                    /\ SetOutgoing(s, 0)
               ELSE /\ capacity' = [capacity EXCEPT ![s] = @ - n]
                    /\ UNCHANGED <<streams, pending, headers, body, queued, pieces>>
          /\ frames' = Tail(frames)
          /\ UNCHANGED <<pc, todo, notPending, exit>>
      BY Zenon, <1>2, <1>4 DEF WriteDataFrame, DropOutgoing
    <2>2. CASE ~f.end
      BY Zenon, <1>1, <1>2, <2>1, <2>2, WriteW
    <2>3. CASE f.end
      <3>1. /\ headers' = [headers EXCEPT ![s] = "WaitingForHeaders"]
            /\ body' = [body EXCEPT ![s] = "StillReceiving"]
            /\ queued' = [queued EXCEPT ![s] = 0]
            /\ pieces' = [pieces EXCEPT ![s] = FALSE]
            /\ capacity' = [capacity EXCEPT ![s] = 0]
        BY Zenon, <2>1, <2>3 DEF SetOutgoing
      <3>2. /\ headers'[s] = "WaitingForHeaders" /\ body'[s] = "StillReceiving"
            /\ queued'[s] = 0 /\ pieces'[s] = FALSE
        BY Zenon, <3>1 DEF IInv, TypeOK, StreamsType
      <3>3. InPass /\ InPass' /\ Snapshot' /\ todo = {} /\ \A r \in StreamIds : ~Busy(r) /\ ~Busy(r)'
        BY Zenon, <1>1, <2>1 DEF InPass, Snapshot, Busy, WInv
      <3>4. Pending(s)'
        BY <3>2 DEF Pending
      <3>5. Visited(s)'
        BY Zenon, <2>1, <3>2, <3>3 DEF Visited, Ready
      <3>6. ASSUME NEW r \in StreamIds, r # s
            PROVE  /\ SameOutgoing(r) /\ SameFrames(r) /\ capacity'[r] = capacity[r]
                   /\ r \in pending => r \in pending'
        <4>1. SameOutgoing(r) /\ capacity'[r] = capacity[r]
          BY <2>1, <2>3, <3>1, <3>6 DEF SameOutgoing, Outgoing, IInv, TypeOK, StreamsType
        <4>2. SameFrames(r)
          <5>1. frames \in Seq(Frames)
            BY Zenon DEF IInv, TypeOK, LoopType
          <5> QED BY Zenon, <1>1, <1>2, <2>1, <3>6, <5>1, WrittenOfOther
        <4>3. r \in pending => r \in pending'
          BY Zenon, <2>1, <2>3, <3>6
        <4> QED BY Zenon, <4>1, <4>2, <4>3
      <3>7. connCap' \in Int /\ connCap' <= connCap
        BY <2>1 DEF IInv, TypeOK, ConnType
      <3> QED BY Zenon, <2>1, <3>3, <3>4, <3>5, <3>6, <3>7, PassStepW
    <2> QED BY Zenon, <2>2, <2>3
  <1> QED BY Zenon, <1>3, <1>4

\* The pass ends: a stream it could have sent more of is out of window.
LEMMA EndPassW ==
    ASSUME WInv, IInv, EndPass
    PROVE  WInv'
  <1>1. /\ pc = "write" /\ pc' = "loop" /\ frames = <<>> /\ pending' = pending \ notPending
        /\ notPending' = {}
        /\ UNCHANGED <<streams, headers, body, queued, pieces, capacity, connCap, todo, exit>>
    BY Zenon DEF EndPass, outVars
  <1>2. InPass /\ ~InPass' /\ todo' = {} /\ Snapshot' /\ \A r \in StreamIds : ~Busy(r) /\ ~Busy(r)'
    BY Zenon, <1>1 DEF InPass, Snapshot, Busy, WInv
  <1>3. connCap \in Int /\ capacity \in [StreamIds -> Int] /\ frames \in Seq(Frames)
    BY DEF IInv, TypeOK, ConnType, StreamsType, LoopType
  <1>4. ASSUME NEW s \in StreamIds PROVE Pending(s)' /\ Notified(s)' /\ Visited(s)'
    <2>1. Pending(s) /\ Visited(s)
      BY Zenon DEF WInv
    <2>2. Pending(s)'
      BY Zenon, <1>1, <2>1 DEF Pending, Outgoing
    <2>3. Visited(s)'
      BY Zenon, <1>2 DEF Visited
    <2>4. ASSUME exit = "running", connCap > 0, Ready(s) PROVE FALSE
      <3>1. Spent(s)
        BY Zenon, <1>1, <1>2, <2>1, <2>4 DEF Visited
      <3> PICK b \in Int : Bytes(frames, FrameLoad(s), b) /\ (capacity[s] <= b \/ connCap <= b)
        BY Zenon, <3>1 DEF Spent
      <3>2. b = 0
        BY Zenon, <1>1, <1>3, NothingQueued, NoFrameBytes
      <3>3. capacity[s] > 0 /\ capacity[s] \in Int
        BY Zenon, <1>3, <2>4 DEF Ready
      <3> QED BY <1>3, <2>4, <3>2, <3>3
    <2>5. Ready(s)' => Ready(s)
      BY Zenon, <1>1 DEF Ready, Outgoing
    <2>6. Notified(s)'
      BY Zenon, <1>1, <2>4, <2>5 DEF Notified
    <2> QED BY Zenon, <2>2, <2>3, <2>6
  <1> QED BY Zenon, <1>2, <1>4 DEF WInv

-----------------------------------------------------------------------------
(* The invariant holds.                                                    *)

\* A new connection.
LEMMA InitW == Init => WInv
  <1> SUFFICES ASSUME Init PROVE WInv
    BY Zenon
  <1>1. Snapshot /\ \A s \in StreamIds : ~Busy(s) /\ s \notin todo
    BY Zenon DEF Init, Snapshot, InPass, Busy
  <1>2. ASSUME NEW s \in StreamIds PROVE Pending(s) /\ Notified(s) /\ Visited(s)
    <2>1. ~Outgoing(s) /\ queued[s] = 0 /\ body[s] = "StillReceiving"
      BY Zenon DEF Init, Outgoing
    <2> QED BY <1>1, <2>1 DEF Pending, Notified, Visited, Ready
  <1> QED BY Zenon, <1>1, <1>2 DEF WInv

\* Every step of the connection, its handlers and its client.
LEMMA NextW == WInv /\ OInv /\ IInv /\ [Next]_vars => WInv'
  <1> SUFFICES ASSUME WInv, OInv, IInv, [Next]_vars PROVE WInv'
    BY Zenon
  <1>1. CASE Client
    BY Zenon, <1>1, ClientW
  <1>2. CASE RespondStep \/ \E s \in StreamIds : Handler(s)
    BY Zenon, <1>2, ChannelW
  <1>3. CASE HandleEvent
    BY Zenon, <1>3, HandleEventW
  <1>4. CASE SendDataMaybe
    BY Zenon, <1>4, BeginPassW, VisitStreamW, QueueHeaderFrameW, QueueDataFrameW, LeaveStreamW,
       BeginWritingW, WriteHeaderFrameW, WriteDataFrameW, EndPassW DEF SendDataMaybe
  <1>5. CASE UNCHANGED vars
    <2>1. UNCHANGED <<streams, headers, body, queued, pieces, capacity, connCap, pending, permit, pc,
                      cur, left, todo, notPending, frames, exit>>
      BY Zenon, <1>5 DEF vars, outVars, passVars
    <2>2. \A s \in StreamIds : SameOutgoing(s)
      BY Zenon, <2>1 DEF SameOutgoing, Outgoing
    <2> QED BY Zenon, <2>1, <2>2, SameW
  <1> QED BY Zenon, <1>1, <1>2, <1>3, <1>4, <1>5 DEF Next

\* No wakeup is lost: whenever the loop of the connection is back at its
\* select! and a stream has something to send and the windows to send it, the
\* stream is in streams_with_pending_data and the Notify holds a permit,
\* whatever windows, settings, bodies and frame sizes met on the way.
THEOREM WakeupsAreNotLost == Spec => []NoLostWakeup
  <1>1. Init => WInv
    BY Zenon, InitW
  <1>2. WInv /\ OInv /\ IInv /\ [Next]_vars => WInv'
    BY Zenon, NextW
  <1>3. WInv /\ IInv => NoLostWakeup
    <2> SUFFICES ASSUME WInv, IInv, exit = "running", pc = "loop", connCap > 0,
                        NEW s \in StreamIds, Sendable(s)
                 PROVE  s \in pending /\ permit
      BY Zenon DEF NoLostWakeup
    <2>1. Pending(s) /\ Notified(s) /\ ~InPass
      BY Zenon DEF WInv, InPass
    <2>2. Ready(s)
      BY Zenon, <2>1 DEF Sendable, Ready, Pending
    <2> QED BY Zenon, <2>1, <2>2 DEF Pending, Notified, Ready
  <1> HIDE DEF IInv, OInv, WInv
  <1> QED BY <1>1, <1>2, <1>3, OrderInvariance, PTL DEF Spec

-----------------------------------------------------------------------------
(* SETTINGS_MAX_CONCURRENT_STREAMS.                                        *)

Fin == INSTANCE FiniteSetTheorems

\* The library speaks of the same finite sets and cardinalities.
LEMMA SameFiniteSets ==
    ASSUME NEW S
    PROVE  (Fin!IsFiniteSet(S) <=> IsFiniteSet(S)) /\ Fin!Cardinality(S) = Cardinality(S)
  <1>1. Fin!IsFiniteSet(S) <=> IsFiniteSet(S)
    BY Zenon DEF IsFiniteSet, Fin!IsFiniteSet
  <1>2. Fin!Cardinality(S) = Cardinality(S)
    BY Zenon DEF Cardinality, Fin!Cardinality
  <1> QED BY Zenon, <1>1, <1>2

\* What the proof below needs of finite sets.
LEMMA FiniteSetFacts ==
    /\ IsFiniteSet({}) /\ Cardinality({}) = 0
    /\ \A S : IsFiniteSet(S) => Cardinality(S) \in Nat
    /\ \A S : IsFiniteSet(S) => \A T \in SUBSET S :
          IsFiniteSet(T) /\ Cardinality(T) <= Cardinality(S)
    /\ \A S, x : IsFiniteSet(S) =>
          /\ IsFiniteSet(S \cup {x})
          /\ Cardinality(S \cup {x}) = IF x \in S THEN Cardinality(S) ELSE Cardinality(S) + 1
  <1>1. IsFiniteSet({}) /\ Cardinality({}) = 0
    BY Zenon, SameFiniteSets, Fin!FS_EmptySet
  <1>2. ASSUME NEW S, IsFiniteSet(S) PROVE Cardinality(S) \in Nat
    BY Zenon, <1>2, SameFiniteSets, Fin!FS_CardinalityType
  <1>3. ASSUME NEW S, IsFiniteSet(S), NEW T \in SUBSET S
        PROVE  IsFiniteSet(T) /\ Cardinality(T) <= Cardinality(S)
    BY <1>3, SameFiniteSets, Fin!FS_Subset
  <1>4. ASSUME NEW S, NEW x, IsFiniteSet(S)
        PROVE  /\ IsFiniteSet(S \cup {x})
               /\ Cardinality(S \cup {x}) = IF x \in S THEN Cardinality(S) ELSE Cardinality(S) + 1
    BY Zenon, <1>4, SameFiniteSets, Fin!FS_AddElement
  <1> QED BY <1>1, <1>2, <1>3, <1>4

\* The map holds finitely many streams, within the limit.
Live == {s \in StreamIds : streams[s] # "Absent"}
WithinLimit == IsFiniteSet(Live) /\ Cardinality(Live) <= MaxConcurrent

\* The server never serves more streams at once than it announced, for any
\* limit and any number of identifiers: a refused stream never enters the map.
THEOREM StreamLimitHolds == Spec => []StreamLimit
  <1>1. Init => WithinLimit
    <2> SUFFICES ASSUME Init PROVE WithinLimit
      BY Zenon
    <2>1. Live = {}
      BY Zenon DEF Init, Live
    <2> QED BY <2>1, FiniteSetFacts, ConnAssumption DEF WithinLimit
  <1>2. WithinLimit /\ IInv /\ [Next]_vars => WithinLimit'
    <2> SUFFICES ASSUME WithinLimit, IInv, [Next]_vars PROVE WithinLimit'
      BY Zenon
    <2>0. IsFiniteSet(Live) /\ Cardinality(Live) \in Nat /\ MaxConcurrent \in Nat
      BY Zenon, FiniteSetFacts, ConnAssumption DEF WithinLimit
    <2>1. CASE OpensNone
      <3>1. Live' \subseteq Live
        BY Zenon, <2>1 DEF OpensNone, Live
      <3>2. IsFiniteSet(Live') /\ Cardinality(Live') <= Cardinality(Live)
            /\ Cardinality(Live') \in Nat
        BY <2>0, <3>1, FiniteSetFacts
      <3>3. Cardinality(Live') <= MaxConcurrent
        BY <2>0, <3>2 DEF WithinLimit
      <3> QED BY Zenon, <3>2, <3>3 DEF WithinLimit
    <2>2. ASSUME NEW s \in StreamIds, OpensOne(s) PROVE WithinLimit'
      <3>1. Live' \subseteq Live \cup {s}
        BY Zenon, <2>2 DEF OpensOne, Live
      <3>2. /\ IsFiniteSet(Live \cup {s})
            /\ Cardinality(Live \cup {s}) = IF s \in Live THEN Cardinality(Live)
                                                          ELSE Cardinality(Live) + 1
        BY Zenon, <2>0, FiniteSetFacts
      <3>3. /\ IsFiniteSet(Live') /\ Cardinality(Live') <= Cardinality(Live \cup {s})
            /\ Cardinality(Live') \in Nat
        BY Zenon, <3>1, <3>2, FiniteSetFacts
      <3>4. ~(Cardinality(Live) + 1 > MaxConcurrent)
        BY Zenon, <2>2 DEF OpensOne, TooManyStreams, Live
      <3>5. Cardinality(Live') <= MaxConcurrent
        BY <2>0, <3>2, <3>3, <3>4
      <3> QED BY Zenon, <3>3, <3>5 DEF WithinLimit
    <2> QED BY Zenon, <2>1, <2>2, StreamsOpened
  <1>3. WithinLimit => StreamLimit
    BY Zenon DEF WithinLimit, StreamLimit, Live
  <1> HIDE DEF IInv, WithinLimit
  <1> QED BY <1>1, <1>2, <1>3, Invariance, PTL DEF Spec
=============================================================================
