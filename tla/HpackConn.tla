----------------------------- MODULE HpackConn -----------------------------
(***************************************************************************)
(* The two compression contexts of a server connection: hpack_dec reads    *)
(* the header blocks of requests, hpack_enc writes those of responses, and *)
(* the peer (external) holds the other end of each, an Encoder and a       *)
(* Decoder of the same crate.                                              *)
(*                                                                         *)
(* Kept from h2/server.rs: a block is encoded when the handler's event is  *)
(* processed and stored with its stream; send_data_maybe writes the blocks *)
(* of the pending streams in the order of a HashSet; a request over the    *)
(* stream limit is refused and its block skipped.                          *)
(***************************************************************************)
EXTENDS Hpack, FiniteSets

LOCAL INSTANCE SequencesExt

CONSTANTS
    Streams,                  \* the ids of the peer's requests, odd and rising
    Fields,                   \* the fields of requests and responses
    max_concurrent_streams,
    TableSize                 \* the size of all the tables

VARIABLES
    streams,      \* the streams with an entry in state.streams
    last,         \* the last request sent by the peer
    hpack_dec,
    hpack_enc,
    outgoing,     \* the blocks of outgoing.headers, where there is one
    requests,     \* blocks on their way to the server, with what they mean
    responses,    \* blocks on their way to the peer
    peer,         \* the peer's tables: enc and dec
    unlike        \* the sides that have read other fields than were sent

connVars == <<streams, last, hpack_dec, hpack_enc, outgoing, requests, responses, peer, unlike>>

ConnInit ==
    /\ streams = {} /\ last = 0
    /\ hpack_dec = with_size(TableSize)
    /\ hpack_enc = with_size(TableSize)
    /\ outgoing = << >>
    /\ requests = <<>> /\ responses = <<>>
    /\ peer = [enc |-> with_size(TableSize), dec |-> with_size(TableSize)]
    /\ unlike = {}

\* The table after reading a block, and whether that gave the fields meant.
Read(t, b) ==
    LET d == decode_with_cb(t, TableSize, b.block)
    IN  [table |-> d.table, same |-> d.error = "none" /\ d.fields = b.meant]

PeerRequests(s, f) ==
    LET e == encode_into(peer.enc, <<f>>)
    IN  /\ s > last
        /\ last' = s
        /\ peer' = [peer EXCEPT !.enc = e.table]
        /\ requests' = Append(requests, [id |-> s, meant |-> <<f>>, block |-> e.block])
        /\ UNCHANGED <<streams, hpack_dec, hpack_enc, outgoing, responses, unlike>>

\* The Headers arm of process_frame and read_headers: a request over the limit
\* is refused (mode Skip) and its block not decoded.
ReadHeaders ==
    LET b == Head(requests)
        r == Read(hpack_dec, b)
        refused == Cardinality(streams) + 1 > max_concurrent_streams
    IN  /\ requests # <<>>
        /\ requests' = Tail(requests)
        /\ IF refused THEN UNCHANGED <<streams, hpack_dec, unlike>>
           ELSE /\ hpack_dec' = r.table
                /\ streams' = streams \cup {b.id}
                /\ unlike' = IF r.same THEN unlike ELSE unlike \cup {"request"}
        /\ UNCHANGED <<last, hpack_enc, outgoing, responses, peer>>

\* handle_event, of the Headers of a response.
HandleHeaders(s, f) ==
    LET e == encode_into(hpack_enc, <<f>>)
    IN  /\ s \in streams
        /\ s \notin DOMAIN outgoing
        /\ hpack_enc' = e.table
        /\ outgoing' = [i \in DOMAIN outgoing \cup {s} |->
                          IF i = s THEN [id |-> s, meant |-> <<f>>, block |-> e.block]
                          ELSE outgoing[i]]
        /\ UNCHANGED <<streams, last, hpack_dec, requests, responses, peer, unlike>>

\* send_data_maybe: the pending streams in the order of a HashSet, as many as
\* the window lets through.  Their responses end and the streams with them.
SendDataMaybe(order) ==
    LET written == {order[i] : i \in DOMAIN order}
    IN  /\ responses' = responses \o [i \in DOMAIN order |-> outgoing[order[i]]]
        /\ outgoing' = [s \in DOMAIN outgoing \ written |-> outgoing[s]]
        /\ streams' = streams \ written
        /\ UNCHANGED <<last, hpack_dec, hpack_enc, requests, peer, unlike>>

PeerReads ==
    LET r == Read(peer.dec, Head(responses))
    IN  /\ responses # <<>>
        /\ responses' = Tail(responses)
        /\ peer' = [peer EXCEPT !.dec = r.table]
        /\ unlike' = IF r.same THEN unlike ELSE unlike \cup {"response"}
        /\ UNCHANGED <<streams, last, hpack_dec, hpack_enc, outgoing, requests>>

ConnNext ==
    \/ \E s \in Streams, f \in Fields : PeerRequests(s, f)
    \/ ReadHeaders
    \/ \E s \in Streams, f \in Fields : HandleHeaders(s, f)
    \/ \E set \in (SUBSET DOMAIN outgoing) \ {{}} : \E order \in SetToSeqs(set) : SendDataMaybe(order)
    \/ PeerReads

ConnSpec == ConnInit /\ [][ConnNext]_connVars

-----------------------------------------------------------------------------
\* "Care should be taken to ensure that the paired decoder also ends up seeing
\* the same state updates" (Encoder::encode_into): every header block the
\* server or the peer decodes gives the fields that were encoded.
PairedDecodersFollow == unlike = {}
=============================================================================
