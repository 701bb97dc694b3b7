------------------------------ MODULE H2Frame ------------------------------
(***************************************************************************)
(* The HTTP/2 frame layer (loona-h2/src/lib.rs), shared by the server and  *)
(* by the httpwg client.                                                   *)
(*                                                                         *)
(* A frame on the wire is a record: the fields of its nine-octet header    *)
(* (ty, flags as the set of bits that are set, the reserved bit, stream    *)
(* identifier, length of the payload) and what the payload says: the       *)
(* padding length octet, the stream a priority field depends on, and a     *)
(* sequence `pay` of settings, header fields, numbers or an opaque value.  *)
(***************************************************************************)
EXTENDS Integers, Sequences

CONSTANTS
    MAX_INITIAL_WINDOW_SIZE,      \* 2^31 - 1
    MAX_FRAME_SIZE_ALLOWED_RANGE  \* 2^14 .. 2^24 - 1

RawFrameType ==
    [Data |-> 0, Headers |-> 1, Priority |-> 2, RstStream |-> 3, Settings |-> 4,
     PushPromise |-> 5, Ping |-> 6, GoAway |-> 7, WindowUpdate |-> 8,
     Continuation |-> 9]

\* The flags, each one bit of the flags octet.
EndStream == 1
Ack == 1
EndHeaders == 4
Padded == 8
PriorityFlag == 32

\* The bits a frame type knows; the other types carry no flags.
KnownFlags(type) ==
    CASE type = "Data" -> {EndStream, Padded}
      [] type = "Headers" -> {EndStream, EndHeaders, Padded, PriorityFlag}
      [] type \in {"Settings", "Ping"} -> {Ack}
      [] type = "Continuation" -> {EndHeaders}
      [] OTHER -> {}

\* RawFrameType::from_repr, with FrameType::Unknown for None.
from_repr(ty) ==
    LET known == {t \in DOMAIN RawFrameType : RawFrameType[t] = ty}
    IN  IF known = {} THEN "Unknown" ELSE CHOOSE t \in known : TRUE

\* A frame as it is written: Frame::write_into after FrameType::encode.
Frame(type, flags, sid, len, pay) ==
    [ty |-> RawFrameType[type], flags |-> flags \cap KnownFlags(type), res |-> 0,
     sid |-> sid, len |-> len, pad |-> 0, dep |-> 0, pay |-> pay]

\* FrameType::Unknown is written with the type and the flags it was given.
UnknownFrame(ty, flags, sid, len) ==
    [ty |-> ty, flags |-> flags, res |-> 0, sid |-> sid, len |-> len,
     pad |-> 0, dep |-> 0, pay |-> <<>>]

\* Frame::parse: the type is decoded, the flags it does not know are dropped
\* (from_bits_truncate) and the reserved bit is split off the identifier.
parse(w) ==
    LET type == from_repr(w.ty)
    IN  [type |-> type, flags |-> w.flags \cap KnownFlags(type), sid |-> w.sid,
         len |-> w.len, pad |-> w.pad, dep |-> w.dep, pay |-> w.pay]

is_ack(f) == f.type \in {"Settings", "Ping"} /\ Ack \in f.flags
is_end_headers(f) == f.type \in {"Headers", "Continuation"} /\ EndHeaders \in f.flags
is_end_stream(f) == f.type \in {"Data", "Headers"} /\ EndStream \in f.flags

is_server_initiated(sid) == sid % 2 = 0

-----------------------------------------------------------------------------
(* Error codes.                                                            *)

KnownErrorCodes ==
    <<"NoError", "ProtocolError", "InternalError", "FlowControlError",
      "SettingsTimeout", "StreamClosed", "FrameSizeError", "RefusedStream",
      "Cancel", "CompressionError", "ConnectError", "EnhanceYourCalm",
      "InadequateSecurity", "Http1_1Required">>

\* KnownErrorCode::repr, and KnownErrorCode::from_repr of what it returns.
repr(code) == (CHOOSE i \in DOMAIN KnownErrorCodes : KnownErrorCodes[i] = code) - 1
KnownErrorCode(n) == IF n + 1 \in DOMAIN KnownErrorCodes THEN KnownErrorCodes[n + 1] ELSE "unknown"

-----------------------------------------------------------------------------
(* SETTINGS: a payload is a sequence of <<identifier, value>> pairs.       *)

Setting ==
    [HeaderTableSize |-> 1, EnablePush |-> 2, MaxConcurrentStreams |-> 3,
     InitialWindowSize |-> 4, MaxFrameSize |-> 5, MaxHeaderListSize |-> 6]

\* What Settings::apply finds wrong with a setting, or "none".
SettingsError(id, value) ==
    IF id = Setting.EnablePush /\ value \notin {0, 1}
      THEN "BadSettingValue"
    ELSE IF id = Setting.InitialWindowSize /\ value > MAX_INITIAL_WINDOW_SIZE
      THEN "InitialWindowSizeTooLarge"
    ELSE IF id = Setting.MaxFrameSize /\ value \notin MAX_FRAME_SIZE_ALLOWED_RANGE
      THEN "BadSettingValue"
    ELSE "none"

\* Where a sequence of pairs is in error; nothing is applied from there on.
Wrong(pairs) == {i \in DOMAIN pairs : SettingsError(pairs[i][1], pairs[i][2]) # "none"}
Applied(pairs, id) ==
    {i \in DOMAIN pairs : pairs[i][1] = id /\ \A j \in 1 .. i : j \notin Wrong(pairs)}

\* Mutant: of several values of a setting, the first one stays.
FirstValueStays(pairs, id, value) ==
    IF Applied(pairs, id) = {} THEN value
    ELSE pairs[CHOOSE i \in Applied(pairs, id) : \A j \in Applied(pairs, id) : i <= j][2]

\* Settings::apply of each pair in turn: the last value of a setting stays.
apply(pairs, id, value) ==
    IF Applied(pairs, id) = {} THEN value
    ELSE pairs[CHOOSE i \in Applied(pairs, id) : \A j \in Applied(pairs, id) : j <= i][2]

\* Settings::parse with apply as its callback: unknown identifiers are ignored,
\* and the first error is returned.
ParseSettings(settings, pairs) ==
    [error |-> IF Wrong(pairs) = {} THEN "none"
               ELSE LET i == CHOOSE i \in Wrong(pairs) : \A j \in Wrong(pairs) : i <= j
                    IN  SettingsError(pairs[i][1], pairs[i][2]),
     window |-> apply(pairs, Setting.InitialWindowSize, settings.window),
     frame |-> apply(pairs, Setting.MaxFrameSize, settings.frame)]
=============================================================================
