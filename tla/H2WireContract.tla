--------------------------- MODULE H2WireContract ---------------------------
(***************************************************************************)
(* What an HTTP/2 server owes its peer on the wire (RFC 9113, as the       *)
(* diagram and comments of loona/src/h2/types.rs and the assertions of     *)
(* write_frame use it): on each stream, one header block, cut into         *)
(* HEADERS and CONTINUATION frames with nothing of any stream between      *)
(* them, then DATA frames, the last of which carries END_STREAM; a reset   *)
(* silences the stream; and no DATA byte goes out that the peer has not    *)
(* allowed both on the stream and on the connection.                       *)
(***************************************************************************)
EXTENDS Integers

CONSTANT StreamIds

VARIABLES
    wire,        \* how far each stream has come
    sent,        \* DATA bytes written per stream
    granted,     \* bytes the peer has allowed per stream; SETTINGS may lower it
    connSent,    \* DATA bytes written on the connection
    connGranted  \* bytes the peer has allowed on the connection

vars == <<wire, sent, granted, connSent, connGranted>>

Init ==
    /\ wire = [s \in StreamIds |-> "idle"]
    /\ sent = [s \in StreamIds |-> 0]
    /\ granted = [s \in StreamIds |-> 0]
    /\ connSent = 0
    /\ connGranted \in Nat

\* No header block is open, except possibly that of stream s.
NoOtherBlock(s) == \A t \in StreamIds \ {s} : wire[t] # "headers"

HeaderFrame(s, end) ==
    /\ wire[s] \in {"idle", "headers"}
    /\ NoOtherBlock(s)
    /\ wire' = [wire EXCEPT ![s] = IF end THEN "body" ELSE "headers"]
    /\ UNCHANGED <<sent, granted, connSent, connGranted>>

DataFrame(s, n, end) ==
    /\ wire[s] = "body"
    /\ NoOtherBlock(s)
    /\ n > 0 => sent[s] + n <= granted[s] /\ connSent + n <= connGranted
    /\ wire' = [wire EXCEPT ![s] = IF end THEN "ended" ELSE "body"]
    /\ sent' = [sent EXCEPT ![s] = @ + n]
    /\ connSent' = connSent + n
    /\ UNCHANGED <<granted, connGranted>>

\* Either side resets the stream.
Reset(s) ==
    /\ wire[s] # "headers"
    /\ NoOtherBlock(s)
    /\ wire' = [wire EXCEPT ![s] = "reset"]
    /\ UNCHANGED <<sent, granted, connSent, connGranted>>

\* The peer moves the windows; it never takes back connection credit.
Grant ==
    /\ granted' \in [StreamIds -> Int]
    /\ connGranted' \in Nat
    /\ connGranted' >= connGranted
    /\ UNCHANGED <<wire, sent, connSent>>

Next ==
    \/ \E s \in StreamIds, end \in BOOLEAN :
          \/ HeaderFrame(s, end)
          \/ DataFrame(s, connSent' - connSent, end)
    \/ \E s \in StreamIds : Reset(s)
    \/ Grant

Spec == Init /\ [][Next]_vars
=============================================================================
