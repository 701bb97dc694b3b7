-------------------------- MODULE H2IncomingProofs --------------------------
(***************************************************************************)
(* For any number of streams, any window, announced length and sizes of    *)
(* DATA frames: no byte of a body is lost or repeated on its way to the    *)
(* handler, an accepted body is whole, and a reset is reported.            *)
(***************************************************************************)
EXTENDS H2Incoming, TLAPS

Message == [kind : {"piece", "trailers", "reset"}, len : Nat]
Channel == {<<>>} \cup {<<m>> : m \in Message}

Types ==
    /\ st \in [StreamIds -> {"Idle", "Open", "HalfClosedLocal", "HalfClosedRemote", "Closed"}]
    /\ clen \in [StreamIds -> Nat \cup {NoLength}]
    /\ total \in [StreamIds -> Nat]
    /\ capacity \in [StreamIds -> Nat]
    /\ chan \in [StreamIds -> Channel]
    /\ pend \in [sid : StreamIds, kind : {"piece", "trailers", "reset"}, len : Nat, last : BOOLEAN]
                \cup {Nothing}
    /\ exit \in {"running", "ended"}
    /\ task \in [StreamIds -> {"none", "run", "finish", "returned"}]
    /\ style \in [StreamIds -> {"drain", "echo", "leave", "quit"}]
    /\ eof \in [StreamIds -> BOOLEAN]
    /\ got \in [StreamIds -> Nat]
    /\ outcome \in [StreamIds -> {"none", "done", "reset"}]
    /\ accepted \in [StreamIds -> BOOLEAN]
    /\ reset \in [StreamIds -> BOOLEAN]
    /\ rsts \in [StreamIds -> BOOLEAN]

\* The loop awaits room for a message of s.
Awaited(s) == pend # Nothing /\ pend.sid = s

\* The client may still send DATA on s.
Receives(s) == st[s] \in {"Open", "HalfClosedLocal"}

\* Nothing has happened on a stream the client has not opened.
Untouched(s) ==
    st[s] = "Idle" => /\ task[s] = "none" /\ total[s] = 0 /\ got[s] = 0
                      /\ chan[s] = <<>> /\ outcome[s] = "none"

\* A body is over for the server only when no DATA can follow.
Over(s) ==
    \/ rsts[s] \/ reset[s] \/ accepted[s] \/ outcome[s] = "done"
    \/ eof[s] /\ task[s] = "run"
    \/ exit = "ended"
NothingFollows(s) == Over(s) => st[s] \in {"HalfClosedRemote", "Closed"}

\* A message in hand belongs to a body that is not over, or that the client
\* has just reset.
InHandIsLive(s) ==
    Awaited(s) =>
        /\ exit = "running"
        /\ ~rsts[s] /\ ~accepted[s] /\ outcome[s] # "done" /\ ~(eof[s] /\ task[s] = "run")
        /\ IF pend.kind = "reset" THEN reset[s] /\ ~pend.last ELSE Receives(s)
        /\ pend.kind # "piece" => pend.len = 0
        /\ pend.kind = "trailers" => pend.last
        /\ (pend.last /\ clen[s] # NoLength) => total[s] = clen[s]

\* Only pieces have bytes, and trailers are in the channel only of a body that
\* was accepted.
ChannelIsSound(s) ==
    chan[s] # <<>> => /\ chan[s][1].kind # "piece" => chan[s][1].len = 0
                      /\ chan[s][1].kind = "trailers" => accepted[s]

Conserved(s) ==
    (exit = "running" /\ HasReceiver(s) /\ ~rsts[s])
        => total[s] = got[s] + InChannel(s) + InHand(s)

\* An accepted body is in the channel or with the handler, even when the
\* stream or the connection has ended since.
Whole(s) ==
    accepted[s] => /\ clen[s] # NoLength => total[s] = clen[s]
                   /\ HasReceiver(s) => total[s] = got[s] + InChannel(s)
                   /\ outcome[s] = "done" => got[s] = total[s]
                   /\ ~(eof[s] /\ task[s] = "run")

\* A handler that still reads will come upon the reset.
ResetIsAhead(s) ==
    (exit = "running" /\ reset[s]) =>
        /\ ~accepted[s] /\ outcome[s] # "done" /\ ~(eof[s] /\ task[s] = "run")
        /\ task[s] = "run" => \/ Awaited(s) /\ pend.kind = "reset"
                              \/ chan[s] # <<>> /\ chan[s][1].kind = "reset"

BodyInv(s) ==
    /\ Untouched(s)
    /\ NothingFollows(s)
    /\ InHandIsLive(s)
    /\ ChannelIsSound(s)
    /\ Conserved(s)
    /\ Whole(s)
    /\ ResetIsAhead(s)

IInv == Types /\ \A s \in StreamIds : BodyInv(s)
-----------------------------------------------------------------------------
\* The channel of pieces holds one message at most.
LEMMA ChannelOfOne ==
    /\ \A c \in Channel : c # <<>> => /\ Head(c) = c[1] /\ Tail(c) = <<>>
                                      /\ Len(c) = 1 /\ c[1] \in Message
    /\ \A m \in Message : /\ Append(<<>>, m) = <<m>> /\ <<m>>[1] = m /\ Head(<<m>>) = m
                          /\ <<m>> # <<>> /\ <<m>> \in Channel
    /\ <<>> \in Channel /\ Len(<<>>) = 0
<1>1. ASSUME NEW c \in Channel, c # <<>>
      PROVE  Head(c) = c[1] /\ Tail(c) = <<>> /\ Len(c) = 1 /\ c[1] \in Message
  <2> PICK m \in Message : c = <<m>>
      BY Zenon, <1>1 DEF Channel
  <2> QED OBVIOUS
<1> QED BY <1>1 DEF Channel

\* Nothing of stream r is touched.
Same(r) ==
    /\ clen'[r] = clen[r] /\ total'[r] = total[r] /\ chan'[r] = chan[r]
    /\ task'[r] = task[r] /\ eof'[r] = eof[r] /\ got'[r] = got[r]
    /\ outcome'[r] = outcome[r] /\ accepted'[r] = accepted[r]
    /\ reset'[r] = reset[r] /\ rsts'[r] = rsts[r]

\* A stream keeps its invariant while the loop deals with another one.
LEMMA OtherStream ==
    ASSUME NEW r \in StreamIds, BodyInv(r), Same(r), st'[r] = st[r], exit' = exit,
           \/ pend' = pend
           \/ ~Awaited(r) /\ ~Awaited(r)' /\ InHand(r)' = InHand(r)
    PROVE  BodyInv(r)'
<1> USE DEF Same
<1>1. Untouched(r)' /\ NothingFollows(r)' /\ ChannelIsSound(r)'
    BY Zenon DEF BodyInv, Untouched, NothingFollows, Over, ChannelIsSound
<1>2. InHandIsLive(r)'
    BY Zenon DEF BodyInv, InHandIsLive, Awaited, Receives
<1>3. Conserved(r)' /\ Whole(r)'
    BY Zenon DEF BodyInv, Conserved, Whole, HasReceiver, InChannel, InHand
<1>4. ResetIsAhead(r)'
    BY Zenon DEF BodyInv, ResetIsAhead, InHandIsLive, Awaited
<1> QED BY Zenon, <1>1, <1>2, <1>3, <1>4 DEF BodyInv

\* So does every stream when the connection ends.
LEMMA ConnectionEnds ==
    ASSUME NEW r \in StreamIds, BodyInv(r), Same(r), DropContext
    PROVE  BodyInv(r)'
<1> USE DEF Same, DropContext
<1>1. Untouched(r)' /\ NothingFollows(r)' /\ ChannelIsSound(r)' /\ InHandIsLive(r)'
    BY Zenon DEF BodyInv, Untouched, NothingFollows, ChannelIsSound, InHandIsLive, Awaited
<1>2. Conserved(r)' /\ Whole(r)' /\ ResetIsAhead(r)'
    BY Zenon DEF BodyInv, Conserved, Whole, HasReceiver, InChannel, ResetIsAhead
<1> QED BY Zenon, <1>1, <1>2 DEF BodyInv

\* The request's HEADERS: nothing was received yet.
LEMMA AcceptRequestPreserves ==
    ASSUME IInv, NEW s \in StreamIds, AcceptRequest(s)
    PROVE  IInv'
<1> USE DEF IInv
<1>1. PICK n \in Lengths, end \in Endings :
        /\ st' = [st EXCEPT ![s] = IF end THEN "HalfClosedRemote" ELSE "Open"]
        /\ clen' = [clen EXCEPT ![s] = n]
        /\ eof' = [eof EXCEPT ![s] = end]
    BY Zenon DEF AcceptRequest
<1>2. PICK t \in {"run", "finish", "returned"} : task' = [task EXCEPT ![s] = t]
    BY Zenon DEF AcceptRequest, Types
<1>3. /\ total' = total /\ capacity' = capacity /\ chan' = chan /\ pend' = pend /\ exit' = exit
      /\ style' = style /\ got' = got /\ outcome' = outcome /\ accepted' = accepted
      /\ reset' = reset /\ rsts' = rsts
      /\ exit = "running" /\ pend = Nothing /\ st[s] = "Idle"
    BY Zenon DEF AcceptRequest, AtSelect
<1>4. Types'
    BY Zenon, <1>1, <1>2, <1>3, IncomingAssumption DEF Types
<1>5. ASSUME NEW r \in StreamIds, r # s PROVE BodyInv(r)'
    BY Zenon, <1>1, <1>2, <1>3, <1>5, OtherStream DEF Types, Same
<1>6. BodyInv(s)'
  <2>0. /\ total'[s] = 0 /\ got'[s] = 0 /\ chan'[s] = <<>> /\ outcome'[s] = "none"
        /\ ~rsts'[s] /\ ~reset'[s] /\ ~accepted'[s] /\ pend' = Nothing /\ exit' = "running"
        /\ st'[s] \in {"Open", "HalfClosedRemote"}
        /\ eof'[s] => st'[s] = "HalfClosedRemote"
      BY Zenon, <1>1, <1>3 DEF Types, BodyInv, Untouched, NothingFollows, Over
  <2>1. Untouched(s)' /\ NothingFollows(s)' /\ InHandIsLive(s)' /\ ChannelIsSound(s)'
      BY Zenon, <2>0 DEF Untouched, NothingFollows, Over, InHandIsLive, Awaited, ChannelIsSound
  <2>2. Conserved(s)' /\ Whole(s)' /\ ResetIsAhead(s)'
      BY <2>0 DEF Conserved, InChannel, InHand, Nothing, Whole, ResetIsAhead
  <2> QED BY Zenon, <2>1, <2>2 DEF BodyInv
<1> QED BY Zenon, <1>4, <1>5, <1>6

\* A stream that the server resets while nothing of it is in hand.
LEMMA RstPreserves ==
    ASSUME Types, NEW s \in StreamIds, BodyInv(s), Rst(s), st[s] # "Idle",
           pend = Nothing, pend' = Nothing, exit' = exit, total'[s] \in Nat,
           accepted[s] => total'[s] = total[s],
           clen' = clen, chan' = chan, task' = task, eof' = eof, got' = got, outcome' = outcome,
           accepted' = accepted, reset' = reset
    PROVE  BodyInv(s)'
<1> USE DEF Rst
<1>0. st'[s] = "Closed" /\ rsts'[s]
    BY Zenon DEF Types
<1>1. Untouched(s)' /\ NothingFollows(s)' /\ InHandIsLive(s)' /\ ChannelIsSound(s)'
    BY Zenon, <1>0 DEF BodyInv, Untouched, NothingFollows, InHandIsLive, Awaited, ChannelIsSound
<1>2. Conserved(s)' /\ Whole(s)' /\ ResetIsAhead(s)'
    BY Zenon, <1>0 DEF BodyInv, Conserved, InChannel, HasReceiver, Whole, ResetIsAhead, Awaited
<1> QED BY Zenon, <1>1, <1>2 DEF BodyInv

\* A message for s that the loop takes in hand.
LEMMA InHandPreserves ==
    ASSUME Types, NEW s \in StreamIds, BodyInv(s), Receives(s), pend = Nothing, pend'.sid = s,
           pend'.kind \in {"piece", "trailers"}, pend'.len \in Nat, pend'.last \in BOOLEAN,
           exit = "running", exit' = exit, st' = st,
           total'[s] = total[s] + pend'.len,
           pend'.kind # "piece" => pend'.len = 0,
           pend'.kind = "trailers" => pend'.last,
           (pend'.last /\ clen[s] # NoLength) => total'[s] = clen[s],
           clen' = clen, chan' = chan, task' = task, eof' = eof, got' = got, outcome' = outcome,
           accepted' = accepted, reset' = reset, rsts' = rsts
    PROVE  BodyInv(s)'
<1>0. /\ ~rsts[s] /\ ~reset[s] /\ ~accepted[s] /\ outcome[s] # "done"
      /\ ~(eof[s] /\ task[s] = "run") /\ st[s] # "Idle"
    BY Zenon DEF BodyInv, NothingFollows, Over, Receives
<1>1. Untouched(s)' /\ NothingFollows(s)' /\ ChannelIsSound(s)' /\ InHandIsLive(s)'
    BY Zenon, <1>0
       DEF BodyInv, Untouched, NothingFollows, Over, ChannelIsSound, InHandIsLive, Receives,
           Awaited
<1>2. Conserved(s)'
  <2>1. InHand(s) = 0 /\ InHand(s)' = pend'.len /\ InChannel(s)' = InChannel(s)
      BY Zenon DEF InHand, InChannel, Nothing
  <2>2. InChannel(s) \in Nat
      BY ChannelOfOne DEF InChannel, Types, Message
  <2> QED BY <2>1, <2>2 DEF BodyInv, Conserved, HasReceiver, Types
<1>3. Whole(s)' /\ ResetIsAhead(s)'
    BY Zenon, <1>0 DEF Whole, ResetIsAhead
<1> QED BY Zenon, <1>1, <1>2, <1>3 DEF BodyInv

\* A DATA frame: its bytes are in the loop's hands, or the stream or the
\* connection is over.
LEMMA ReceiveDataPreserves ==
    ASSUME IInv, NEW s \in StreamIds, NEW len \in DataLens, NEW last \in BOOLEAN,
           ReceiveData(s, len, last)
    PROVE  IInv'
<1> USE DEF IInv
<1>1. /\ exit = "running" /\ pend = Nothing /\ len \in Nat
      /\ clen' = clen /\ chan' = chan /\ style' = style /\ task' = task /\ eof' = eof
      /\ got' = got /\ outcome' = outcome /\ accepted' = accepted /\ reset' = reset
    BY Zenon, IncomingAssumption DEF ReceiveData, AtSelect, taskVars
<1>2. CASE DropContext /\ UNCHANGED <<total, capacity, rsts>>
  <2>1. Types'
      BY Zenon, <1>1, <1>2 DEF Types, DropContext
  <2>2. ASSUME NEW r \in StreamIds PROVE BodyInv(r)'
      BY Zenon, <1>1, <1>2, <2>2, ConnectionEnds DEF Same
  <2> QED BY Zenon, <2>1, <2>2
<1>3. CASE st[s] = "HalfClosedRemote" /\ Rst(s) /\ UNCHANGED <<total, capacity, pend, exit>>
  <2>1. Types'
      BY Zenon, <1>1, <1>3 DEF Types, Rst
  <2>2. ASSUME NEW r \in StreamIds, r # s PROVE BodyInv(r)'
      BY Zenon, <1>1, <1>3, <2>2, OtherStream DEF Same, Rst, Types
  <2>3. BodyInv(s)'
      BY Zenon, <1>1, <1>3, RstPreserves DEF Types
  <2> QED BY Zenon, <2>1, <2>2, <2>3
<1>4. CASE /\ Receives(s) /\ len <= capacity[s]
           /\ capacity' = [capacity EXCEPT ![s] = @ - len]
           /\ total' = [total EXCEPT ![s] = @ + len]
           /\ ~LengthFits(s, total[s] + len, last) /\ Rst(s) /\ UNCHANGED <<pend, exit>>
  <2>1. Types'
      BY <1>1, <1>4 DEF Types, Rst
  <2>2. ASSUME NEW r \in StreamIds, r # s PROVE BodyInv(r)'
      BY Zenon, <1>1, <1>4, <2>2, OtherStream DEF Same, Rst, Types
  <2>3. BodyInv(s)'
    <3>1. ~accepted[s] /\ st[s] # "Idle"
        BY Zenon, <1>4 DEF BodyInv, NothingFollows, Over, Receives
    <3>2. total'[s] \in Nat
        BY <1>1, <1>4 DEF Types
    <3> QED BY Zenon, <1>1, <1>4, <3>1, <3>2, RstPreserves
  <2> QED BY Zenon, <2>1, <2>2, <2>3
<1>5. CASE /\ Receives(s) /\ len <= capacity[s]
           /\ capacity' = [capacity EXCEPT ![s] = @ - len]
           /\ total' = [total EXCEPT ![s] = @ + len]
           /\ LengthFits(s, total[s] + len, last)
           /\ pend' = [sid |-> s, kind |-> "piece", len |-> len, last |-> last]
           /\ UNCHANGED <<st, rsts, exit>>
  <2>1. Types'
      BY <1>1, <1>5 DEF Types
  <2>2. ASSUME NEW r \in StreamIds, r # s PROVE BodyInv(r)'
      BY Zenon, <1>1, <1>5, <2>2, OtherStream DEF Same, Types, Awaited, InHand, Nothing
  <2>3. BodyInv(s)'
    <3>1. total'[s] = total[s] + len /\ (last /\ clen[s] # NoLength => total'[s] = clen[s])
        BY Zenon, <1>5 DEF Types, LengthFits
    <3> QED BY Zenon, <1>1, <1>5, <3>1, InHandPreserves
  <2> QED BY Zenon, <2>1, <2>2, <2>3
<1> QED
  BY Zenon, <1>1, <1>2, <1>3, <1>4, <1>5 DEF ReceiveData, Fail, Receives

\* Trailers are let through only when the announced length was received.
LEMMA ReceiveTrailersPreserves ==
    ASSUME IInv, NEW s \in StreamIds, NEW last \in BOOLEAN, ReceiveTrailers(s, last)
    PROVE  IInv'
<1> USE DEF IInv
<1>1. /\ exit = "running" /\ pend = Nothing /\ st[s] = "Open" /\ exit' = exit
      /\ clen' = clen /\ total' = total /\ capacity' = capacity /\ chan' = chan
      /\ style' = style /\ task' = task /\ eof' = eof
      /\ got' = got /\ outcome' = outcome /\ accepted' = accepted /\ reset' = reset
    BY Zenon DEF ReceiveTrailers, AtSelect, taskVars
<1>2. CASE /\ last /\ (clen[s] # NoLength => total[s] = clen[s])
           /\ pend' = [sid |-> s, kind |-> "trailers", len |-> 0, last |-> TRUE]
           /\ UNCHANGED <<st, rsts>>
  <2>1. Types'
      BY Zenon, <1>1, <1>2 DEF Types
  <2>2. ASSUME NEW r \in StreamIds, r # s PROVE BodyInv(r)'
      BY Zenon, <1>1, <1>2, <2>2, OtherStream DEF Same, Awaited, InHand, Nothing
  <2>3. BodyInv(s)'
    <3>1. total'[s] = total[s] + 0 /\ Receives(s)
        BY <1>1 DEF Types, Receives
    <3> QED BY Zenon, <1>1, <1>2, <3>1, InHandPreserves
  <2> QED BY Zenon, <2>1, <2>2, <2>3
<1>3. CASE Rst(s) /\ UNCHANGED pend
  <2>1. Types'
      BY Zenon, <1>1, <1>3 DEF Types, Rst
  <2>2. ASSUME NEW r \in StreamIds, r # s PROVE BodyInv(r)'
      BY Zenon, <1>1, <1>3, <2>2, OtherStream DEF Same, Rst, Types
  <2>3. BodyInv(s)'
      BY Zenon, <1>1, <1>3, RstPreserves DEF Types
  <2> QED BY Zenon, <2>1, <2>2, <2>3
<1> QED
  BY Zenon, <1>2, <1>3 DEF ReceiveTrailers

\* RST_STREAM on an open stream: the reset is in the loop's hands.
LEMMA ReceiveRstStreamPreserves ==
    ASSUME IInv, NEW s \in StreamIds, ReceiveRstStream(s)
    PROVE  IInv'
<1> USE DEF IInv
<1>1. /\ exit = "running" /\ pend = Nothing
      /\ clen' = clen /\ total' = total /\ capacity' = capacity /\ chan' = chan
      /\ style' = style /\ task' = task /\ eof' = eof
      /\ got' = got /\ outcome' = outcome /\ accepted' = accepted /\ rsts' = rsts
    BY Zenon DEF ReceiveRstStream, AtSelect, taskVars
<1>2. CASE DropContext /\ UNCHANGED reset
  <2>1. Types'
      BY Zenon, <1>1, <1>2 DEF Types, DropContext
  <2>2. ASSUME NEW r \in StreamIds PROVE BodyInv(r)'
      BY Zenon, <1>1, <1>2, <2>2, ConnectionEnds DEF Same
  <2> QED BY Zenon, <2>1, <2>2
<1>3. CASE /\ st[s] = "HalfClosedRemote"
           /\ st' = [st EXCEPT ![s] = "Closed"]
           /\ UNCHANGED <<pend, exit, reset>>
  <2>1. Types'
      BY Zenon, <1>1, <1>3 DEF Types
  <2>2. ASSUME NEW r \in StreamIds, r # s PROVE BodyInv(r)'
      BY Zenon, <1>1, <1>3, <2>2, OtherStream DEF Same, Types
  <2>3. BodyInv(s)'
    <3>1. st'[s] = "Closed" /\ ~Awaited(s)
        BY Zenon, <1>1, <1>3 DEF Types, Awaited
    <3>2. Untouched(s)' /\ NothingFollows(s)' /\ InHandIsLive(s)' /\ ChannelIsSound(s)'
        BY Zenon, <1>1, <1>3, <3>1
           DEF BodyInv, Untouched, NothingFollows, InHandIsLive, Awaited, ChannelIsSound
    <3>3. Conserved(s)' /\ Whole(s)' /\ ResetIsAhead(s)'
        BY Zenon, <1>1, <1>3
           DEF BodyInv, Conserved, Whole, HasReceiver, InChannel, InHand, ResetIsAhead, Awaited
    <3> QED BY Zenon, <3>2, <3>3 DEF BodyInv
  <2> QED BY Zenon, <2>1, <2>2, <2>3
<1>4. CASE /\ Receives(s)
           /\ st' = [st EXCEPT ![s] = "Closed"]
           /\ pend' = [sid |-> s, kind |-> "reset", len |-> 0, last |-> FALSE]
           /\ reset' = [reset EXCEPT ![s] = TRUE]
           /\ UNCHANGED exit
  <2>1. Types'
      BY Zenon, <1>1, <1>4 DEF Types
  <2>2. ASSUME NEW r \in StreamIds, r # s PROVE BodyInv(r)'
      BY Zenon, <1>1, <1>4, <2>2, OtherStream DEF Same, Types, Awaited, InHand, Nothing
  <2>3. BodyInv(s)'
    <3>1. /\ st'[s] = "Closed" /\ reset'[s] /\ Awaited(s)'
          /\ ~rsts[s] /\ ~accepted[s] /\ outcome[s] # "done" /\ ~(eof[s] /\ task[s] = "run")
        BY Zenon, <1>4 DEF Types, BodyInv, NothingFollows, Over, Receives, Awaited, Nothing
    <3>2. Untouched(s)' /\ NothingFollows(s)' /\ InHandIsLive(s)' /\ ChannelIsSound(s)'
        BY Zenon, <1>1, <1>4, <3>1
           DEF BodyInv, Untouched, NothingFollows, InHandIsLive, ChannelIsSound
    <3>3. Conserved(s)'
        BY Zenon, <1>1, <1>4 DEF BodyInv, Conserved, HasReceiver, InChannel, InHand, Nothing
    <3>4. Whole(s)' /\ ResetIsAhead(s)'
        BY Zenon, <1>1, <1>4, <3>1 DEF Whole, ResetIsAhead
    <3> QED BY Zenon, <3>2, <3>3, <3>4 DEF BodyInv
  <2> QED BY Zenon, <2>1, <2>2, <2>3
<1> QED
  BY Zenon, <1>1, <1>2, <1>3, <1>4 DEF ReceiveRstStream, Fail, Receives

\* The message in hand goes to the channel whole, or its handler is gone.
LEMMA DeliverPreserves ==
    ASSUME IInv, Deliver
    PROVE  IInv'
<1> USE DEF IInv
<1>1. /\ exit = "running" /\ pend # Nothing /\ pend' = Nothing /\ exit' = exit
      /\ clen' = clen /\ total' = total /\ capacity' = capacity
      /\ style' = style /\ task' = task /\ eof' = eof
      /\ got' = got /\ outcome' = outcome /\ reset' = reset
    BY Zenon DEF Deliver, taskVars
<1> PICK s \in StreamIds : s = pend.sid
    BY Zenon, <1>1 DEF Types
<1> PICK msg \in Message : msg = [kind |-> pend.kind, len |-> pend.len]
    BY Zenon, <1>1 DEF Types, Message
<1>2. Awaited(s) /\ pend.last \in BOOLEAN /\ pend.len \in Nat /\ msg.kind = pend.kind /\ msg.len = pend.len
    BY Zenon, <1>1 DEF Types, Awaited
<1>3. InHandIsLive(s) /\ BodyInv(s)
    BY Zenon, <1>2 DEF BodyInv
<1>4. ASSUME NEW r \in StreamIds, r # s
      PROVE  ~Awaited(r) /\ ~Awaited(r)' /\ InHand(r)' = InHand(r)
    BY Zenon, <1>1, <1>4 DEF Awaited, InHand, Nothing
<1>5. CASE /\ HasReceiver(s) /\ HasRoom(s)
           /\ chan' = [chan EXCEPT ![s] = Append(@, msg)]
           /\ accepted' = [accepted EXCEPT ![s] = pend.last]
           /\ IF pend.last THEN CloseRemote(s) ELSE UNCHANGED st
           /\ UNCHANGED rsts
  <2>1. chan[s] = <<>>
      BY <1>2, <1>5, ChannelOfOne DEF HasRoom, PieceCap, Types
  <2>2. chan'[s] = <<msg>> /\ <<msg>> \in Channel /\ <<msg>>[1] = msg /\ Head(<<msg>>) = msg /\ <<msg>> # <<>>
      BY <1>2, <1>5, <2>1, ChannelOfOne DEF Types
  <2>3. chan' \in [StreamIds -> Channel]
    <3>1. chan \in [StreamIds -> Channel] /\ Append(<<>>, msg) = <<msg>>
        BY Zenon, ChannelOfOne DEF Types
    <3>2. chan' = [chan EXCEPT ![s] = <<msg>>]
        BY Zenon, <1>5, <2>1, <3>1
    <3>3. <<msg>> \in Channel
        BY Zenon, <2>2
    <3> QED BY Zenon, <3>1, <3>2, <3>3
  <2>4. Types'
    <3>1. st' \in [StreamIds -> {"Idle", "Open", "HalfClosedLocal", "HalfClosedRemote", "Closed"}]
      <4>1. st' = st \/ CloseRemote(s)
          BY Zenon, <1>5
      <4>2. st \in [StreamIds -> {"Idle", "Open", "HalfClosedLocal", "HalfClosedRemote", "Closed"}]
          BY Zenon DEF Types
      <4>3. CASE CloseRemote(s)
          BY Zenon, <4>2, <4>3 DEF CloseRemote
      <4> QED BY Zenon, <4>1, <4>2, <4>3
    <3>2. accepted' \in [StreamIds -> BOOLEAN]
        BY Zenon, <1>2, <1>5 DEF Types
    <3>3. rsts' = rsts
        BY Zenon, <1>5
    <3> QED BY Zenon, <1>1, <2>3, <3>1, <3>2, <3>3 DEF Types
  <2>5. ASSUME NEW r \in StreamIds, r # s PROVE BodyInv(r)'
      BY <1>1, <1>2, <1>4, <1>5, <2>5, OtherStream DEF Same, Types, CloseRemote
  <2>6. BodyInv(s)'
    <3>1. accepted'[s] = pend.last /\ ~Awaited(s)'
        BY Zenon, <1>1, <1>2, <1>5 DEF Types, Awaited
    <3>2. InChannel(s) = 0 /\ InHand(s) = pend.len /\ InChannel(s)' = pend.len /\ InHand(s)' = 0
        BY Zenon, <1>1, <1>2, <2>1, <2>2 DEF InChannel, InHand, Nothing
    <3>3. total[s] = got[s] + pend.len
        BY <1>1, <1>2, <1>3, <1>5, <3>2 DEF BodyInv, Conserved, InHandIsLive, Types
    <3>4. st[s] # "Idle" /\ st'[s] # "Idle"
        BY <1>2, <1>3, <1>5
           DEF InHandIsLive, Receives, BodyInv, NothingFollows, Over, CloseRemote, Types
    <3>5. Untouched(s)' /\ InHandIsLive(s)' /\ ChannelIsSound(s)'
        BY Zenon, <1>2, <1>3, <2>2, <3>1, <3>4 DEF Untouched, InHandIsLive, ChannelIsSound
    <3>6. NothingFollows(s)'
      <4>1. Over(s)' => Over(s) \/ pend.last
          BY Zenon, <1>1, <1>5, <3>1 DEF Over
      <4>2. IF pend.last THEN CloseRemote(s) ELSE st' = st
          BY Zenon, <1>5
      <4>3. pend.last => st'[s] \in {"HalfClosedRemote", "Closed"}
          BY Zenon, <4>2 DEF CloseRemote, Types
      <4>4. NothingFollows(s)
          BY Zenon, <1>3 DEF BodyInv
      <4> QED BY Zenon, <4>1, <4>2, <4>3, <4>4 DEF NothingFollows
    <3>7. Conserved(s)' /\ Whole(s)'
        BY <1>1, <1>2, <1>3, <3>1, <3>2, <3>3 DEF Conserved, Whole, InHandIsLive, Types
    <3>8. ResetIsAhead(s)'
      <4> SUFFICES ASSUME reset[s] PROVE ResetIsAhead(s)'
          BY Zenon, <1>1 DEF ResetIsAhead
      <4>1. ~Receives(s)
          BY Zenon, <1>3 DEF BodyInv, NothingFollows, Over, Receives
      <4>2. /\ pend.kind = "reset" /\ ~pend.last /\ outcome[s] # "done"
            /\ ~(eof[s] /\ task[s] = "run")
          BY Zenon, <1>2, <1>3, <4>1 DEF InHandIsLive
      <4>3. chan'[s] # <<>> /\ chan'[s][1].kind = "reset"
          BY Zenon, <1>2, <2>2, <4>2
      <4>4. ~accepted'[s] /\ outcome' = outcome /\ eof' = eof /\ task' = task
          BY Zenon, <1>1, <3>1, <4>2
      <4> QED BY Zenon, <4>2, <4>3, <4>4 DEF ResetIsAhead
    <3> QED BY Zenon, <3>5, <3>6, <3>7, <3>8 DEF BodyInv
  <2> QED BY Zenon, <2>4, <2>5, <2>6
<1>6. CASE /\ ~HasReceiver(s)
           /\ CASE pend.kind = "piece" -> Rst(s)
                [] pend.kind = "trailers" -> CloseRemote(s) /\ UNCHANGED rsts
                [] pend.kind = "reset" -> UNCHANGED <<st, rsts>>
           /\ UNCHANGED <<chan, accepted>>
  <2>1. \/ Rst(s) /\ pend.kind = "piece"
        \/ CloseRemote(s) /\ rsts' = rsts /\ pend.kind = "trailers"
        \/ st' = st /\ rsts' = rsts /\ pend.kind = "reset"
      BY Zenon, <1>1, <1>6 DEF Types
  <2>2. Types'
    <3>1. /\ st \in [StreamIds -> {"Idle", "Open", "HalfClosedLocal", "HalfClosedRemote", "Closed"}]
          /\ rsts \in [StreamIds -> BOOLEAN]
        BY Zenon DEF Types
    <3>2. /\ st' \in [StreamIds -> {"Idle", "Open", "HalfClosedLocal", "HalfClosedRemote", "Closed"}]
          /\ rsts' \in [StreamIds -> BOOLEAN]
        BY Zenon, <2>1, <3>1 DEF CloseRemote, Rst
    <3>3. chan' = chan /\ accepted' = accepted
        BY Zenon, <1>6
    <3> QED BY Zenon, <1>1, <3>2, <3>3 DEF Types
  <2>3. ASSUME NEW r \in StreamIds, r # s PROVE BodyInv(r)'
      BY <1>1, <1>2, <1>4, <1>6, <2>1, <2>3, OtherStream DEF Same, Types, CloseRemote, Rst
  <2>4. BodyInv(s)'
    <3>1. st'[s] \in {"HalfClosedRemote", "Closed"}
        BY <1>2, <1>3, <2>1
           DEF InHandIsLive, Receives, BodyInv, NothingFollows, Over, CloseRemote, Rst, Types
    <3>2. Untouched(s)' /\ NothingFollows(s)' /\ InHandIsLive(s)' /\ ChannelIsSound(s)'
        BY Zenon, <1>1, <1>3, <1>6, <3>1
           DEF BodyInv, Untouched, NothingFollows, InHandIsLive, Awaited, ChannelIsSound
    <3>3. Conserved(s)' /\ Whole(s)' /\ ResetIsAhead(s)'
        BY Zenon, <1>1, <1>2, <1>3, <1>6
           DEF BodyInv, InHandIsLive, Conserved, HasReceiver, Whole, ResetIsAhead
    <3> QED BY Zenon, <3>2, <3>3 DEF BodyInv
  <2> QED BY Zenon, <2>2, <2>3, <2>4
<1> QED
  BY Zenon, <1>5, <1>6 DEF Deliver

\* The handler takes a message, or learns that none will come.
LEMMA NextChunkPreserves ==
    ASSUME IInv, NEW s \in StreamIds, NextChunk(s)
    PROVE  IInv'
<1> USE DEF IInv
<1>1. /\ task[s] = "run" /\ st' = st /\ clen' = clen /\ total' = total /\ capacity' = capacity
      /\ pend' = pend /\ exit' = exit /\ style' = style /\ accepted' = accepted
      /\ reset' = reset /\ rsts' = rsts
    BY Zenon DEF NextChunk
<1>2. st[s] # "Idle" /\ BodyInv(s)
    BY Zenon, <1>1 DEF BodyInv, Untouched
<1>3. CASE /\ eof[s] \/ (chan[s] = <<>> /\ ~HasSender(s))
           /\ eof' = [eof EXCEPT ![s] = TRUE]
           /\ outcome' = [outcome EXCEPT ![s] = "done"]
           /\ task' = [task EXCEPT ![s] = "finish"]
           /\ UNCHANGED <<chan, got>>
  <2>1. Types'
      BY Zenon, <1>1, <1>3 DEF Types
  <2>2. ASSUME NEW r \in StreamIds, r # s PROVE BodyInv(r)'
      BY Zenon, <1>1, <1>3, <2>2, OtherStream DEF Same, Types
  <2>3. BodyInv(s)'
    <3>1. outcome'[s] = "done" /\ task'[s] = "finish"
        BY Zenon, <1>3 DEF Types
    <3>2. st[s] \in {"HalfClosedRemote", "Closed"} /\ ~Awaited(s)
      <4>1. CASE eof[s]
          BY Zenon, <1>1, <1>2, <4>1 DEF BodyInv, NothingFollows, Over, InHandIsLive
      <4>2. CASE chan[s] = <<>> /\ ~HasSender(s) /\ exit = "running"
          BY Zenon, <1>2, <4>2 DEF HasSender, Awaited, Types
      <4>3. CASE exit # "running"
          BY Zenon, <1>2, <4>3 DEF BodyInv, InHandIsLive, NothingFollows, Over, Types
      <4> QED BY Zenon, <1>3, <4>1, <4>2, <4>3
    <3>3. Untouched(s)' /\ NothingFollows(s)' /\ InHandIsLive(s)' /\ ChannelIsSound(s)'
        BY Zenon, <1>1, <1>2, <1>3, <3>2
           DEF BodyInv, Untouched, NothingFollows, InHandIsLive, Awaited, ChannelIsSound
    <3>4. Conserved(s)'
        BY Zenon, <1>1, <1>2, <1>3, <3>1 DEF BodyInv, Conserved, HasReceiver, InChannel, InHand
    <3>5. Whole(s)'
        BY <1>1, <1>2, <1>3, <3>1 DEF BodyInv, Whole, HasReceiver, InChannel, Types
    <3>6. ResetIsAhead(s)'
        BY Zenon, <1>1, <1>2, <1>3, <3>1, <3>2 DEF BodyInv, ResetIsAhead
    <3> QED BY Zenon, <3>3, <3>4, <3>5, <3>6 DEF BodyInv
  <2> QED BY Zenon, <2>1, <2>2, <2>3
<1>4. ASSUME ~eof[s], chan[s] # <<>>, chan' = [chan EXCEPT ![s] = Tail(@)]
      PROVE  /\ Head(chan[s]) = chan[s][1] /\ chan[s][1] \in Message /\ chan[s][1].len \in Nat
             /\ chan' \in [StreamIds -> Channel] /\ chan'[s] = <<>>
             /\ \A r \in StreamIds \ {s} : chan'[r] = chan[r]
             /\ InChannel(s) = chan[s][1].len /\ InChannel(s)' = 0 /\ InHand(s)' = InHand(s)
             /\ Untouched(s)' /\ ChannelIsSound(s)'
  <2>1. Head(chan[s]) = chan[s][1] /\ chan[s][1] \in Message /\ Tail(chan[s]) = <<>> /\ <<>> \in Channel
      BY Zenon, <1>4, ChannelOfOne DEF Types
  <2>2. chan' \in [StreamIds -> Channel] /\ chan'[s] = <<>> /\ \A r \in StreamIds \ {s} : chan'[r] = chan[r]
      BY Zenon, <1>4, <2>1 DEF Types
  <2>3. chan[s][1].len \in Nat
      BY Zenon, <2>1 DEF Message
  <2>4. InChannel(s) = chan[s][1].len /\ InChannel(s)' = 0 /\ InHand(s)' = InHand(s)
      BY Zenon, <1>1, <1>4, <2>1, <2>2 DEF InChannel, InHand
  <2>5. Untouched(s)' /\ ChannelIsSound(s)'
      BY Zenon, <1>1, <1>2, <2>2 DEF Untouched, ChannelIsSound
  <2> QED BY Zenon, <2>1, <2>2, <2>3, <2>4, <2>5
<1> DEFINE Takes(kind) == /\ ~eof[s] /\ chan[s] # <<>> /\ chan' = [chan EXCEPT ![s] = Tail(@)]
                          /\ chan[s][1].kind = kind
<1>5. CASE /\ Takes("piece")
           /\ got' = [got EXCEPT ![s] = @ + chan[s][1].len]
           /\ UNCHANGED <<eof, outcome, task>>
  <2>1. Types'
    <3>1. chan' \in [StreamIds -> Channel] /\ chan[s][1].len \in Nat
        BY Zenon, <1>4, <1>5
    <3>2. got \in [StreamIds -> Nat] /\ got' = [got EXCEPT ![s] = @ + chan[s][1].len]
        BY Zenon, <1>5 DEF Types
    <3>3. got' \in [StreamIds -> Nat]
        BY <3>1, <3>2
    <3>4. eof' = eof /\ outcome' = outcome /\ task' = task
        BY Zenon, <1>5
    <3> QED BY Zenon, <1>1, <3>1, <3>3, <3>4 DEF Types
  <2>2. ASSUME NEW r \in StreamIds, r # s PROVE BodyInv(r)'
      BY Zenon, <1>1, <1>4, <1>5, <2>2, OtherStream DEF Same, Types
  <2>3. BodyInv(s)'
    <3>1. got'[s] = got[s] + chan[s][1].len
        BY Zenon, <1>5 DEF Types
    <3>2. NothingFollows(s)' /\ InHandIsLive(s)'
        BY Zenon, <1>1, <1>2, <1>5
           DEF BodyInv, NothingFollows, Over, InHandIsLive, Awaited, Receives
    <3>3. InHand(s) \in Nat
        BY DEF InHand, Types, Nothing
    <3> PICK n \in Nat : n = chan[s][1].len
        BY Zenon, <1>4, <1>5
    <3>7. /\ InChannel(s) = n /\ InChannel(s)' = 0 /\ InHand(s)' = InHand(s)
          /\ total[s] \in Nat /\ got[s] \in Nat /\ got'[s] = got[s] + n
        BY Zenon, <1>4, <1>5, <3>1 DEF Types
    <3>8. /\ exit' = exit /\ rsts' = rsts /\ accepted' = accepted /\ clen' = clen /\ total' = total
          /\ outcome' = outcome /\ eof' = eof /\ task' = task /\ HasReceiver(s)
          /\ HasReceiver(s)' <=> HasReceiver(s)
        BY Zenon, <1>1, <1>2, <1>5 DEF HasReceiver
    <3>4. Conserved(s)'
      <4>1. exit = "running" /\ ~rsts[s] => total[s] = got[s] + n + InHand(s)
          BY Zenon, <1>2, <3>7, <3>8 DEF BodyInv, Conserved
      <4>2. exit = "running" /\ ~rsts[s] => total'[s] = got'[s] + 0 + InHand(s)
          BY <3>3, <3>7, <3>8, <4>1
      <4>3. exit = "running" /\ ~rsts[s] => total'[s] = got'[s] + InChannel(s)' + InHand(s)'
          BY Zenon, <3>7, <4>2
      <4> QED BY Zenon, <3>8, <4>3 DEF Conserved
    <3>5. Whole(s)'
      <4>1. accepted[s] => total[s] = got[s] + n /\ (clen[s] # NoLength => total[s] = clen[s])
                           /\ (outcome[s] = "done" => got[s] = total[s]) /\ ~(eof[s] /\ task[s] = "run")
          BY Zenon, <1>2, <3>7, <3>8 DEF BodyInv, Whole
      <4>2. accepted[s] => total[s] = got'[s] + 0 /\ (outcome[s] = "done" => got'[s] = total[s])
          BY <3>7, <4>1
      <4>3. accepted[s] => total'[s] = got'[s] + InChannel(s)'
          BY Zenon, <3>7, <3>8, <4>2
      <4> QED BY Zenon, <3>8, <4>1, <4>2, <4>3 DEF Whole
    <3>6. ResetIsAhead(s)'
        BY Zenon, <1>1, <1>2, <1>5 DEF BodyInv, ResetIsAhead, Awaited
    <3> QED BY Zenon, <1>4, <1>5, <3>2, <3>4, <3>5, <3>6 DEF BodyInv
  <2> QED BY Zenon, <2>1, <2>2, <2>3
<1>6. CASE /\ Takes("trailers")
           /\ eof' = [eof EXCEPT ![s] = TRUE]
           /\ outcome' = [outcome EXCEPT ![s] = "done"]
           /\ task' = [task EXCEPT ![s] = "finish"]
           /\ UNCHANGED got
  <2>1. Types'
      BY Zenon, <1>1, <1>4, <1>6 DEF Types
  <2>2. ASSUME NEW r \in StreamIds, r # s PROVE BodyInv(r)'
      BY <1>1, <1>4, <1>6, <2>2, OtherStream DEF Same, Types
  <2>3. BodyInv(s)'
    <3>1. outcome'[s] = "done" /\ task'[s] = "finish" /\ accepted[s] /\ chan[s][1].len = 0
        BY Zenon, <1>2, <1>6 DEF Types, BodyInv, ChannelIsSound
    <3>2. NothingFollows(s)' /\ InHandIsLive(s)'
        BY Zenon, <1>1, <1>2, <3>1 DEF BodyInv, NothingFollows, Over, InHandIsLive, Awaited
    <3>5. /\ InChannel(s) = 0 /\ InChannel(s)' = 0 /\ InHand(s)' = InHand(s)
          /\ total[s] \in Nat /\ got[s] \in Nat
        BY Zenon, <1>4, <1>6, <3>1 DEF Types
    <3>6. /\ exit' = exit /\ rsts' = rsts /\ accepted' = accepted /\ clen' = clen /\ total' = total
          /\ got' = got /\ HasReceiver(s) /\ HasReceiver(s)'
        BY Zenon, <1>1, <1>2, <1>6, <3>1 DEF HasReceiver
    <3>7. Conserved(s)'
        BY Zenon, <1>2, <3>5, <3>6 DEF BodyInv, Conserved
    <3>8. Whole(s)'
      <4>1. total[s] = got[s] + 0 /\ (clen[s] # NoLength => total[s] = clen[s])
          BY Zenon, <1>2, <3>1, <3>5, <3>6 DEF BodyInv, Whole
      <4>2. got[s] = total[s]
          BY <3>5, <4>1
      <4> QED BY Zenon, <3>1, <3>5, <3>6, <4>1, <4>2 DEF Whole
    <3>3. Conserved(s)' /\ Whole(s)'
        BY Zenon, <3>7, <3>8
    <3>4. ResetIsAhead(s)'
        BY Zenon, <1>1, <1>2, <3>1 DEF BodyInv, ResetIsAhead
    <3> QED BY Zenon, <1>4, <1>6, <3>2, <3>3, <3>4 DEF BodyInv
  <2> QED BY Zenon, <2>1, <2>2, <2>3
<1>7. CASE /\ Takes("reset")
           /\ outcome' = [outcome EXCEPT ![s] = "reset"]
           /\ task' = [task EXCEPT ![s] = "returned"]
           /\ UNCHANGED <<eof, got>>
  <2>1. Types'
      BY Zenon, <1>1, <1>4, <1>7 DEF Types
  <2>2. ASSUME NEW r \in StreamIds, r # s PROVE BodyInv(r)'
      BY Zenon, <1>1, <1>4, <1>7, <2>2, OtherStream DEF Same, Types
  <2>3. BodyInv(s)'
    <3>1. outcome'[s] = "reset" /\ task'[s] = "returned"
        BY Zenon, <1>7 DEF Types
    <3>2. NothingFollows(s)' /\ InHandIsLive(s)'
        BY Zenon, <1>1, <1>2, <3>1
           DEF BodyInv, NothingFollows, Over, InHandIsLive, Awaited, Receives
    <3>3. Conserved(s)' /\ Whole(s)' /\ ResetIsAhead(s)'
        BY Zenon, <1>1, <1>2, <3>1 DEF BodyInv, Conserved, Whole, HasReceiver, ResetIsAhead
    <3> QED BY Zenon, <1>4, <1>7, <3>2, <3>3 DEF BodyInv
  <2> QED BY Zenon, <2>1, <2>2, <2>3
<1> QED
  BY Zenon, <1>3, <1>4, <1>5, <1>6, <1>7 DEF NextChunk, BodyDone

\* The handler of s returns, and drops its body with what is in the channel.
LEMMA ReturnPreserves ==
    ASSUME IInv, NEW s \in StreamIds, SendFails(s) \/ Return(s)
    PROVE  IInv'
<1> USE DEF IInv
<1>1. /\ st' = st /\ clen' = clen /\ total' = total /\ capacity' = capacity /\ pend' = pend
      /\ exit' = exit /\ style' = style /\ eof' = eof /\ got' = got /\ outcome' = outcome
      /\ accepted' = accepted /\ reset' = reset /\ rsts' = rsts
      /\ task' = [task EXCEPT ![s] = "returned"]
      /\ chan' = [chan EXCEPT ![s] = <<>>]
    BY Zenon DEF SendFails, Return, histVars
<1>2. task'[s] = "returned" /\ chan'[s] = <<>> /\ chan' \in [StreamIds -> Channel]
    BY Zenon, <1>1, ChannelOfOne DEF Types
<1>3. st[s] # "Idle"
    BY Zenon DEF SendFails, Return, BodyInv, Untouched, NothingFollows, Over, Types
<1>4. Types'
    BY Zenon, <1>1, <1>2 DEF Types
<1>5. ASSUME NEW r \in StreamIds, r # s PROVE BodyInv(r)'
    BY Zenon, <1>1, <1>5, OtherStream DEF Same, Types
<1>6. BodyInv(s)'
  <2>1. Untouched(s)' /\ NothingFollows(s)' /\ InHandIsLive(s)' /\ ChannelIsSound(s)'
      BY Zenon, <1>1, <1>2, <1>3
         DEF BodyInv, Untouched, NothingFollows, Over, InHandIsLive, Awaited, Receives,
             ChannelIsSound
  <2>2. Conserved(s)' /\ Whole(s)' /\ ResetIsAhead(s)'
      BY Zenon, <1>1, <1>2 DEF BodyInv, Conserved, Whole, HasReceiver, ResetIsAhead
  <2> QED BY Zenon, <2>1, <2>2 DEF BodyInv
<1> QED BY Zenon, <1>4, <1>5, <1>6

\* The end of a response leaves the client's half of the stream as it was.
LEMMA FinishResponsePreserves ==
    ASSUME IInv, NEW s \in StreamIds, FinishResponse(s)
    PROVE  IInv'
<1> USE DEF IInv
<1>1. /\ clen' = clen /\ total' = total /\ capacity' = capacity /\ chan' = chan /\ pend' = pend
      /\ exit' = exit /\ style' = style /\ task' = task /\ eof' = eof /\ got' = got
      /\ outcome' = outcome /\ accepted' = accepted /\ reset' = reset /\ rsts' = rsts
      /\ pend = Nothing /\ st[s] \in {"Open", "HalfClosedRemote"}
      /\ st' = [st EXCEPT ![s] = IF @ = "Open" THEN "HalfClosedLocal" ELSE "Closed"]
    BY Zenon DEF FinishResponse, AtSelect, taskVars, histVars
<1>2. Types'
    BY Zenon, <1>1 DEF Types
<1>3. ASSUME NEW r \in StreamIds, r # s PROVE BodyInv(r)'
    BY Zenon, <1>1, <1>3, OtherStream DEF Same, Types
<1>4. BodyInv(s)'
  <2>1. st'[s] # "Idle" /\ (Over(s) => st'[s] = "Closed")
      BY Zenon, <1>1 DEF BodyInv, NothingFollows, Types
  <2>2. Untouched(s)' /\ NothingFollows(s)' /\ InHandIsLive(s)' /\ ChannelIsSound(s)'
      BY Zenon, <1>1, <2>1
         DEF BodyInv, Untouched, NothingFollows, Over, InHandIsLive, Awaited, ChannelIsSound
  <2>3. Conserved(s)' /\ Whole(s)' /\ ResetIsAhead(s)'
      BY Zenon, <1>1
         DEF BodyInv, Conserved, Whole, HasReceiver, InChannel, InHand, ResetIsAhead, Awaited
  <2> QED BY Zenon, <2>2, <2>3 DEF BodyInv
<1> QED BY Zenon, <1>2, <1>3, <1>4

\* The connection ends.
LEMMA EndConnectionPreserves ==
    ASSUME IInv, EndConnection
    PROVE  IInv'
<1> USE DEF IInv
<1>1. /\ clen' = clen /\ total' = total /\ capacity' = capacity /\ chan' = chan
      /\ style' = style /\ task' = task /\ eof' = eof /\ got' = got /\ outcome' = outcome
      /\ accepted' = accepted /\ reset' = reset /\ rsts' = rsts /\ DropContext
    BY Zenon DEF EndConnection, taskVars, histVars
<1>2. Types'
    BY Zenon, <1>1 DEF Types, DropContext
<1>3. ASSUME NEW r \in StreamIds PROVE BodyInv(r)'
    BY Zenon, <1>1, <1>3, ConnectionEnds DEF Same
<1> QED BY Zenon, <1>2, <1>3

\* Events of responses, and steps that change nothing, leave the bodies alone.
LEMMA EventsPreserve ==
    ASSUME IInv, HandleEvent \/ (\E s \in StreamIds : SendEvent(s)) \/ UNCHANGED vars
    PROVE  IInv'
<1> USE DEF IInv
<1>1. /\ st' = st /\ clen' = clen /\ total' = total /\ capacity' = capacity /\ chan' = chan
      /\ pend' = pend /\ exit' = exit /\ style' = style /\ task' = task /\ eof' = eof
      /\ got' = got /\ outcome' = outcome /\ accepted' = accepted /\ reset' = reset
      /\ rsts' = rsts
    BY Zenon DEF HandleEvent, SendEvent, vars, bodyVars, taskVars, histVars
<1>2. Types'
    BY Zenon, <1>1 DEF Types
<1>3. ASSUME NEW r \in StreamIds PROVE BodyInv(r)'
    BY Zenon, <1>1, <1>3, OtherStream DEF Same
<1> QED BY Zenon, <1>2, <1>3

\* No stream is open at the start.
LEMMA InitHolds ==
    Init => IInv
<1> SUFFICES ASSUME Init PROVE IInv
    BY Zenon
<1>1. Types
    BY Zenon, IncomingAssumption, ChannelOfOne DEF Init, Types
<1>2. ASSUME NEW s \in StreamIds PROVE BodyInv(s)
  <2>1. Untouched(s) /\ NothingFollows(s) /\ InHandIsLive(s) /\ ChannelIsSound(s)
      BY Zenon DEF Init, Untouched, NothingFollows, Over, InHandIsLive, Awaited, ChannelIsSound
  <2>2. Conserved(s) /\ Whole(s) /\ ResetIsAhead(s)
      BY Zenon DEF Init, Conserved, Whole, HasReceiver, ResetIsAhead
  <2> QED BY Zenon, <2>1, <2>2 DEF BodyInv
<1> QED BY Zenon, <1>1, <1>2 DEF IInv

\* Every step keeps the invariant.
LEMMA StepPreserves ==
    IInv /\ [Next]_vars => IInv'
<1> SUFFICES ASSUME IInv, [Next]_vars PROVE IInv'
    BY Zenon
<1>1. CASE Loop
    BY Zenon, <1>1, DeliverPreserves, EventsPreserve DEF Loop
<1>2. CASE EndConnection
    BY Zenon, <1>2, EndConnectionPreserves
<1>3. ASSUME NEW s \in StreamIds, Client(s) PROVE IInv'
    BY Zenon, <1>3, AcceptRequestPreserves, ReceiveDataPreserves, ReceiveTrailersPreserves,
       ReceiveRstStreamPreserves DEF Client
<1>4. ASSUME NEW s \in StreamIds, FinishResponse(s) PROVE IInv'
    BY Zenon, <1>4, FinishResponsePreserves
<1>5. ASSUME NEW s \in StreamIds, Task(s) PROVE IInv'
    BY Zenon, <1>5, NextChunkPreserves, EventsPreserve, ReturnPreserves DEF Task
<1>6. CASE UNCHANGED vars
    BY Zenon, <1>6, EventsPreserve
<1> QED BY Zenon, <1>1, <1>2, <1>3, <1>4, <1>5, <1>6 DEF Next

\* The inductive invariant holds in every reachable state.
THEOREM Invariance == Spec => []IInv
<1> QED BY InitHolds, StepPreserves, PTL DEF Spec

-----------------------------------------------------------------------------
\* write_chunk, the channel of pieces and next_chunk lose no byte of a body
\* and hand none over twice, for any number of streams, window and lengths.
THEOREM BytesAreConserved == Spec => []BytesConserved
<1>1. IInv => BytesConserved
    BY Zenon DEF IInv, BodyInv, Conserved, BytesConserved
<1> QED BY <1>1, Invariance, PTL

\* A body whose END_STREAM passed the length checks reaches its handler with
\* exactly the announced length, even when the stream or the connection ends
\* between the frame and the read.
THEOREM AcceptedBodiesAreWhole == Spec => []AcceptedBodyIsWhole
<1>1. IInv => AcceptedBodyIsWhole
    BY Zenon DEF IInv, BodyInv, Whole, AcceptedBodyIsWhole
<1> QED BY <1>1, Invariance, PTL

\* While the connection lasts, no handler takes a reset body for a whole one.
THEOREM ResetsAreReported == Spec => []ResetIsReported
<1>1. IInv => ResetIsReported
    BY Zenon DEF IInv, BodyInv, ResetIsAhead, ResetIsReported
<1> QED BY <1>1, Invariance, PTL
=============================================================================
