----------------------------- MODULE H2Incoming -----------------------------
(***************************************************************************)
(* Request bodies of one HTTP/2 connection (loona/src/h2/body.rs and the   *)
(* DATA, trailers and RST_STREAM arms of server.rs).                       *)
(*                                                                         *)
(* The process loop hands each piece of a body to the handler of its       *)
(* stream through a channel of one message, and awaits room in it while    *)
(* it handles the frame: "pend" is the message it is holding.  Handlers    *)
(* answer through the event channel, which only the process loop empties.  *)
(* A handler owns its H2Body until it returns; the task that               *)
(* H2Encoder::drop spawns to complete an answer owns no body.              *)
(*                                                                         *)
(* Data is abstracted to lengths, and the sending side to the END of the   *)
(* response (H2Conn models it).  A handler follows one of the patterns of  *)
(* httpwg-loona/src/driver.rs: "drain" reads the whole body before it      *)
(* answers, "echo" writes each chunk it reads, "leave" answers and         *)
(* returns without reading, "quit" returns an error at once.               *)
(***************************************************************************)
EXTENDS Integers, Sequences, FiniteSets

CONSTANTS
    StreamIds,     \* the streams the client opens
    Window,        \* self_settings.initial_window_size
    EvCap,         \* capacity of the event channel
    Lengths,       \* content-length values requests announce
    DataLens,      \* payload lengths of DATA frames
    Endings,       \* END_STREAM values of the request's HEADERS
    Handlers,      \* what the handlers of the streams do, in this instance
    Failures       \* how the connection may end early in this instance

\* The request has no content-length.
NoLength == -1

\* Capacity of the channel of pieces.
PieceCap == 1

ASSUME IncomingAssumption ==
    /\ Window \in Nat
    /\ EvCap \in Nat \ {0}
    /\ Lengths \subseteq Nat \cup {NoLength}
    /\ DataLens \subseteq Nat
    /\ Endings \subseteq BOOLEAN
    /\ Handlers \subseteq [StreamIds -> {"drain", "echo", "leave", "quit"}]
    /\ Failures \subseteq {"hangup", "read error", "connection error"}

VARIABLES
    st,          \* StreamState of each stream
    clen,        \* StreamIncoming::content_length
    total,       \* StreamIncoming::total_received
    capacity,    \* StreamIncoming::capacity
    chan,        \* the channel of pieces of each stream
    pend,        \* the message the process loop awaits room for, or Nothing
    exit,        \* "running", or why the connection ended
    events,      \* the event channel
    style,       \* what the handler of a stream does
    task,        \* "none", "run", "finish" (outq, then return) or "returned"
    outq,        \* the events a stream's tasks have yet to send
    eof,         \* H2Body::eof
    \* history
    got,         \* bytes the handler has read
    outcome,     \* how the body ended for the handler
    accepted,    \* an END_STREAM passed the checks and was handed over
    ended,       \* the client ended the stream (END_STREAM)
    reset,       \* the client reset the stream while its body was open
    rsts,        \* the server reset the stream
    answered     \* the loop handled the stream's BodyEnd event

bodyVars == <<st, clen, total, capacity, chan, pend>>
taskVars == <<style, task, outq, eof>>
histVars == <<got, outcome, accepted, ended, reset, rsts, answered>>
vars == <<bodyVars, exit, events, taskVars, histVars>>

\* A message has a kind ("piece", "trailers" or "reset") and a length; one that
\* waits for room also has its stream and whether it is the last.
Nothing == [sid |-> 0, kind |-> "nothing", len |-> 0, last |-> FALSE]

Init ==
    /\ st = [s \in StreamIds |-> "Idle"]
    /\ clen = [s \in StreamIds |-> NoLength]
    /\ total = [s \in StreamIds |-> 0]
    /\ capacity = [s \in StreamIds |-> Window]
    /\ chan = [s \in StreamIds |-> <<>>]
    /\ pend = Nothing
    /\ exit = "running"
    /\ events = <<>>
    /\ style \in Handlers
    /\ task = [s \in StreamIds |-> "none"]
    /\ outq = [s \in StreamIds |-> <<>>]
    /\ eof = [s \in StreamIds |-> FALSE]
    /\ got = [s \in StreamIds |-> 0]
    /\ outcome = [s \in StreamIds |-> "none"]
    /\ accepted = [s \in StreamIds |-> FALSE]
    /\ ended = [s \in StreamIds |-> FALSE]
    /\ reset = [s \in StreamIds |-> FALSE]
    /\ rsts = [s \in StreamIds |-> FALSE]
    /\ answered = [s \in StreamIds |-> FALSE]

-----------------------------------------------------------------------------
\* The loop is at its select: it handles no other frame or event while it
\* awaits room for a message.
AtSelect == exit = "running" /\ pend = Nothing

\* The Sender of s's pieces lives in its StreamIncoming, or in the
\* StreamIncoming an RST_STREAM took out of the map.
LeakedSender(s) ==
    exit = "running"

HasSender(s) ==
    /\ exit = "running"
    /\ \/ st[s] \in {"Open", "HalfClosedLocal"}
       \/ pend # Nothing /\ pend.sid = s

\* The Receiver of s's pieces lives in the handler's H2Body.
LeakedReceiver(s) == task[s] # "none"

HasReceiver(s) == task[s] \in {"run", "finish"}

\* rst: the stream's entry goes, and its StreamIncoming is dropped with it:
\* no error is put in the channel.
Rst(s) ==
    /\ st' = [st EXCEPT ![s] = "Closed"]
    /\ rsts' = [rsts EXCEPT ![s] = TRUE]

\* The ServerContext is dropped: every stream and the event channel with it.
DropContext ==
    /\ exit' = "ended"
    /\ pend' = Nothing
    /\ st' = [s \in StreamIds |-> "Closed"]
    /\ events' = <<>>

\* process_frame returns a connection error: work leaves its select, writes
\* GOAWAY and returns.
Fail == "connection error" \in Failures /\ DropContext

\* read_headers accepts a request and spawns its handler.
AcceptRequest(s) ==
    /\ AtSelect
    /\ st[s] = "Idle"
    /\ \E n \in Lengths, end \in Endings :
          /\ st' = [st EXCEPT ![s] = IF end THEN "HalfClosedRemote" ELSE "Open"]
          /\ clen' = [clen EXCEPT ![s] = n]
          /\ eof' = [eof EXCEPT ![s] = end]
          /\ ended' = [ended EXCEPT ![s] = end]
    /\ task' = [task EXCEPT ![s] = CASE style[s] \in {"drain", "echo"} -> "run"
                                     [] style[s] = "leave" -> "finish"
                                     [] style[s] = "quit" -> "returned"]
    /\ outq' = [outq EXCEPT ![s] = CASE style[s] = "drain" -> <<>>
                                     [] style[s] = "echo" -> <<"Headers">>
                                     [] OTHER -> <<"Headers", "BodyEnd">>]
    /\ UNCHANGED <<total, capacity, chan, pend, exit, events, style, got, outcome,
                   accepted, reset, rsts, answered>>

\* The length checks of StreamIncoming::write_chunk.
FitsSoFar(s, n, last) == clen[s] # NoLength => n <= clen[s]

LengthFits(s, n, last) ==
    clen[s] # NoLength => /\ n <= clen[s]
                          /\ last => n = clen[s]

\* A DATA frame: the checks of process_frame and of write_chunk, up to the
\* send that awaits room in the stream's channel.
ReceiveData(s, len, last) ==
    /\ AtSelect
    /\ \/ /\ st[s] \in {"Idle", "Closed"}
          /\ Fail
          /\ UNCHANGED <<total, capacity, rsts>>
       \/ /\ st[s] = "HalfClosedRemote"
          /\ Rst(s)
          /\ UNCHANGED <<total, capacity, pend, exit, events>>
       \/ /\ st[s] \in {"Open", "HalfClosedLocal"}
          /\ len > capacity[s]
          /\ Fail
          /\ UNCHANGED <<total, capacity, rsts>>
       \/ /\ st[s] \in {"Open", "HalfClosedLocal"}
          /\ len <= capacity[s]
          /\ capacity' = [capacity EXCEPT ![s] = @ - len]
          /\ total' = [total EXCEPT ![s] = @ + len]
          /\ IF LengthFits(s, total[s] + len, last)
             THEN /\ pend' = [sid |-> s, kind |-> "piece", len |-> len, last |-> last]
                  /\ UNCHANGED <<st, rsts>>
             ELSE /\ Rst(s)
                  /\ UNCHANGED pend
          /\ UNCHANGED <<exit, events>>
    /\ ended' = [ended EXCEPT ![s] = @ \/ (last /\ st[s] \in {"Open", "HalfClosedLocal"})]
    /\ UNCHANGED <<clen, chan, taskVars, got, outcome, accepted, reset, answered>>

\* HEADERS on an open stream: trailers.  (On a half-closed one they are an
\* error or a panic of H2Conn, ReceiveTrailers.)
ReceiveTrailers(s, last) ==
    /\ AtSelect
    /\ st[s] = "Open"
    /\ IF last /\ (clen[s] # NoLength => total[s] = clen[s])
       THEN /\ pend' = [sid |-> s, kind |-> "trailers", len |-> 0, last |-> TRUE]
            /\ UNCHANGED <<st, rsts>>
       ELSE /\ Rst(s)
            /\ UNCHANGED pend
    /\ ended' = [ended EXCEPT ![s] = last]
    /\ UNCHANGED <<clen, total, capacity, chan, exit, events, taskVars, got, outcome,
                   accepted, reset, answered>>

DropsWithoutTelling(s) ==
    /\ AtSelect
    /\ st[s] # "Idle"
    /\ st' = [st EXCEPT ![s] = "Closed"]
    /\ reset' = [reset EXCEPT ![s] = TRUE]
    /\ UNCHANGED <<clen, total, capacity, chan, pend, exit, events, taskVars, got,
                   outcome, accepted, ended, rsts, answered>>

\* RST_STREAM: the stream leaves the map, and its StreamIncoming is told.
ReceiveRstStream(s) ==
    /\ AtSelect
    /\ \/ /\ st[s] \in {"Idle", "Closed"}
          /\ Fail
          /\ UNCHANGED reset
       \/ /\ st[s] = "HalfClosedRemote"
          /\ st' = [st EXCEPT ![s] = "Closed"]
          /\ UNCHANGED <<pend, exit, events, reset>>
       \/ /\ st[s] \in {"Open", "HalfClosedLocal"}
          /\ st' = [st EXCEPT ![s] = "Closed"]
          /\ pend' = [sid |-> s, kind |-> "reset", len |-> 0, last |-> FALSE]
          /\ reset' = [reset EXCEPT ![s] = TRUE]
          /\ UNCHANGED <<exit, events>>
    /\ UNCHANGED <<clen, total, capacity, chan, taskVars, got, outcome,
                   accepted, ended, rsts, answered>>

\* The client's half of the stream is over.
CloseRemote(s) ==
    st' = [st EXCEPT ![s] = IF @ = "Open" THEN "HalfClosedRemote" ELSE "Closed"]

\* The channel of pieces has room for another message.
HasRoom(s) == Len(chan[s]) < PieceCap

\* Sender::send finds room, or finds that the handler has dropped its body;
\* then the rest of the frame's arm.
Deliver ==
    /\ exit = "running"
    /\ pend # Nothing
    /\ pend' = Nothing
    /\ LET s == pend.sid IN
       \/ /\ HasReceiver(s)
          /\ HasRoom(s)
          /\ chan' = [chan EXCEPT ![s] = Append(@, [kind |-> pend.kind, len |-> pend.len])]
          /\ accepted' = [accepted EXCEPT ![s] = pend.last]
          /\ IF pend.last THEN CloseRemote(s) ELSE UNCHANGED st
          /\ UNCHANGED rsts
       \/ /\ ~HasReceiver(s)
          /\ CASE pend.kind = "piece" -> Rst(s)
               [] pend.kind = "trailers" -> CloseRemote(s) /\ UNCHANGED rsts
               [] pend.kind = "reset" -> UNCHANGED <<st, rsts>>
          /\ UNCHANGED <<chan, accepted>>
    /\ UNCHANGED <<clen, total, capacity, exit, events, taskVars, got, outcome, ended,
                   reset, answered>>

\* handle_event.
HandleEvent ==
    /\ AtSelect
    /\ events # <<>>
    /\ events' = Tail(events)
    /\ LET e == Head(events) IN
       answered' = [answered EXCEPT ![e.sid] = @ \/ e.ev = "BodyEnd"]
    /\ UNCHANGED <<bodyVars, exit, taskVars, got, outcome, accepted, ended, reset, rsts>>

\* send_data_maybe writes the END_STREAM of a complete response, once the
\* client's windows allow it.
FinishResponse(s) ==
    /\ AtSelect
    /\ answered[s]
    /\ st[s] \in {"Open", "HalfClosedRemote"}
    /\ st' = [st EXCEPT ![s] = IF @ = "Open" THEN "HalfClosedLocal" ELSE "Closed"]
    /\ UNCHANGED <<clen, total, capacity, chan, pend, exit, events, taskVars, histVars>>

\* The connection ends: the client hangs up and the loop gets to see it, or
\* reading fails, which drops the loop's task wherever it awaits.
EndConnection ==
    /\ exit = "running"
    /\ \/ "hangup" \in Failures /\ pend = Nothing
       \/ "read error" \in Failures
    /\ DropContext
    /\ UNCHANGED <<clen, total, capacity, chan, taskVars, histVars>>

-----------------------------------------------------------------------------
\* H2Encoder::drop: the events that complete an answer the handler gave up.
Completion(s) ==
    IF style[s] = "echo" THEN <<"BodyEnd">> ELSE <<"Headers", "BodyEnd">>

\* H2Body::next_chunk returns Done.
BodyDone(s) ==
    /\ eof' = [eof EXCEPT ![s] = TRUE]
    /\ outcome' = [outcome EXCEPT ![s] = "done"]
    /\ task' = [task EXCEPT ![s] = "finish"]
    /\ outq' = [outq EXCEPT ![s] = IF style[s] = "echo" THEN <<"BodyEnd">>
                                   ELSE <<"Headers", "BodyEnd">>]

LosesPiece(s) ==
    /\ task[s] = "run"
    /\ chan[s] # <<>>
    /\ chan' = [chan EXCEPT ![s] = Tail(@)]
    /\ UNCHANGED <<st, clen, total, capacity, pend, exit, events, taskVars, histVars>>

\* H2Body::next_chunk, and what the handler does with its result.
NextChunk(s) ==
    /\ task[s] = "run"
    /\ outq[s] = <<>>
    /\ \/ /\ eof[s] \/ (chan[s] = <<>> /\ ~HasSender(s))
          /\ BodyDone(s)
          /\ UNCHANGED <<chan, got>>
       \/ /\ ~eof[s]
          /\ chan[s] # <<>>
          /\ chan' = [chan EXCEPT ![s] = Tail(@)]
          /\ LET msg == Head(chan[s]) IN
             \/ /\ msg.kind = "piece"
                /\ got' = [got EXCEPT ![s] = @ + msg.len]
                /\ outq' = [outq EXCEPT ![s] = IF style[s] = "echo" THEN <<"BodyChunk">>
                                               ELSE <<>>]
                /\ UNCHANGED <<eof, outcome, task>>
             \/ /\ msg.kind = "trailers"
                /\ BodyDone(s)
                /\ UNCHANGED got
             \/ /\ msg.kind = "reset"
                /\ outcome' = [outcome EXCEPT ![s] = "reset"]
                /\ task' = [task EXCEPT ![s] = "returned"]
                /\ outq' = [outq EXCEPT ![s] = Completion(s)]
                /\ UNCHANGED <<eof, got>>
    /\ UNCHANGED <<st, clen, total, capacity, pend, exit, events, style, accepted,
                   ended, reset, rsts, answered>>

\* A handler, or the task its encoder left behind, sends an event.
SendEvent(s) ==
    /\ exit = "running"
    /\ outq[s] # <<>>
    /\ Len(events) < EvCap
    /\ events' = Append(events, [sid |-> s, ev |-> Head(outq[s])])
    /\ outq' = [outq EXCEPT ![s] = Tail(@)]
    /\ UNCHANGED <<bodyVars, exit, style, task, eof, histVars>>

\* The event channel is closed: the send fails, and the handler gives up.
SendFails(s) ==
    /\ exit # "running"
    /\ outq[s] # <<>>
    /\ outq' = [outq EXCEPT ![s] = <<>>]
    /\ task' = [task EXCEPT ![s] = "returned"]
    /\ chan' = [chan EXCEPT ![s] = <<>>]
    /\ UNCHANGED <<st, clen, total, capacity, pend, exit, events, style, eof, histVars>>

\* The handler returns and its H2Body is dropped, with what is in the channel.
Return(s) ==
    /\ task[s] = "finish"
    /\ outq[s] = <<>>
    /\ task' = [task EXCEPT ![s] = "returned"]
    /\ chan' = [chan EXCEPT ![s] = <<>>]
    /\ UNCHANGED <<st, clen, total, capacity, pend, exit, events, style, outq, eof, histVars>>

Loop == Deliver \/ HandleEvent
Task(s) == NextChunk(s) \/ SendEvent(s) \/ SendFails(s) \/ Return(s)

Client(s) ==
    \/ AcceptRequest(s)
    \/ \E len \in DataLens, last \in BOOLEAN : ReceiveData(s, len, last)
    \/ \E last \in BOOLEAN : ReceiveTrailers(s, last)
    \/ ReceiveRstStream(s)

Next ==
    \/ Loop
    \/ EndConnection
    \/ \E s \in StreamIds : Client(s) \/ FinishResponse(s) \/ Task(s)

Spec == Init /\ [][Next]_vars

\* The process loop and the handlers are tasks that tokio polls whenever what
\* they wait for is ready.
FairSpec == Spec /\ WF_vars(Loop) /\ \A s \in StreamIds : WF_vars(Task(s))

-----------------------------------------------------------------------------
\* Bytes of s in the channel, and in the message the loop awaits room for.
InChannel(s) == IF chan[s] = <<>> THEN 0 ELSE Head(chan[s]).len
InHand(s) == IF pend.sid = s THEN pend.len ELSE 0

\* Every byte of an accepted DATA frame is either in the loop's hands, in the
\* stream's channel or with the handler, as long as the stream was not reset
\* by the server and its handler still has its body: the await in write_chunk
\* neither loses nor repeats a piece.
BytesConserved ==
    \A s \in StreamIds :
        (exit = "running" /\ HasReceiver(s) /\ ~rsts[s])
            => total[s] = got[s] + InChannel(s) + InHand(s)

\* When the END_STREAM of a request passed the checks of write_chunk or
\* write_trailers, and next_chunk tells the handler that the body is done,
\* the handler has read all the bytes of the body, and exactly as many as
\* content-length announced.
AcceptedBodyIsWhole ==
    \A s \in StreamIds :
        accepted[s] /\ outcome[s] = "done"
            => /\ got[s] = total[s]
               /\ clen[s] # NoLength => got[s] = clen[s]

\* While the connection lasts, a handler whose client reset the stream in the
\* middle of the body never sees a clean end of it: RST_STREAM puts
\* StreamReset in the channel before the sender is dropped.  (A read error
\* that ends the connection while send_error awaits room drops both.)
ResetIsReported ==
    exit = "running" => \A s \in StreamIds : reset[s] => outcome[s] # "done"

\* No handler writes before it has read its body.  One that does can await room
\* in the event channel while the loop, which alone empties that channel,
\* awaits room in the handler's channel of pieces: neither goes on.
ReadBeforeWriting == \A s \in StreamIds : style[s] \in {"drain", "quit"}

\* The process loop does not stay in write_chunk, write_trailers or
\* send_error: the handler reads on, or returns and so closes the channel.
LoopComesBack == (pend # Nothing /\ ReadBeforeWriting) ~> (pend = Nothing)

\* A handler that reads its body learns that it is over, whether the client
\* ended or reset the stream, the server reset it or the connection ended.
BodyEnds ==
    \A s \in StreamIds :
        (/\ task[s] = "run" /\ ReadBeforeWriting
         /\ ended[s] \/ reset[s] \/ rsts[s] \/ exit = "ended")
            ~> (task[s] # "run")
=============================================================================
