----------------------------- MODULE H2Request -----------------------------
(***************************************************************************)
(* What read_headers makes of a decoded field block                        *)
(* (loona/src/h2/server.rs): the on_header_pair callback and the checks    *)
(* that turn the fields into a request.                                    *)
(*                                                                         *)
(* A field is a record [name, value, flaw].  `flaw` says what is wrong     *)
(* with its octets, when something is:                                     *)
(*    "name"     the name is not a token (HeaderName::from_bytes fails)    *)
(*    "upper"    the name has an uppercase letter                          *)
(*    "edge"     the value starts or ends with SP or HTAB                  *)
(*    "control"  the value contains CR, LF or NUL                          *)
(*    "syntax"   the value is not UTF-8 or not what its name promises (an  *)
(*               authority, a path, a number)                              *)
(*    "hpack"    the block cannot be decoded at this point                 *)
(***************************************************************************)
EXTENDS Integers, Sequences

Field(name, value) == [name |-> name, value |-> value, flaw |-> "none"]
Flawed(name, flaw) == [name |-> name, value |-> "?", flaw |-> flaw]

PseudoHeaders == {":method", ":scheme", ":path", ":authority", ":status"}
RequestPseudoHeaders == PseudoHeaders \ {":status"}
ConnectionSpecific == {"connection", "keep-alive", "proxy-connection",
                       "transfer-encoding", "upgrade"}

IsPseudo(f) == f.name \in PseudoHeaders

\* A pseudo-header is acceptable unless it comes after a regular field or in
\* trailers, is not one of a request, is a duplicate, or does not parse.
BadPseudo(fields, i, trailers) ==
    \/ \E j \in 1 .. (i - 1) : ~IsPseudo(fields[j]) \/ fields[j].name = fields[i].name
    \/ trailers
    \/ fields[i].name \notin RequestPseudoHeaders
    \/ fields[i].flaw = "syntax" /\ fields[i].name # ":path"

\* A regular field is rejected for its name, for being connection-specific,
\* or for the octets of its value.
BadRegular(f) ==
    \/ f.flaw \in {"name", "upper", "edge", "control"}
    \/ f.name \in ConnectionSpecific
    \/ f.name = "te" /\ f.value # "trailers"

\* on_header_pair sets req_error for the i-th field.
BadField(fields, i, trailers) ==
    IF IsPseudo(fields[i]) THEN BadPseudo(fields, i, trailers) ELSE BadRegular(fields[i])

Has(fields, name) == \E i \in DOMAIN fields : fields[i].name = name
First(fields, name) ==
    fields[CHOOSE i \in DOMAIN fields :
              fields[i].name = name /\ \A j \in 1 .. (i - 1) : fields[j].name # name]

\* A CONNECT request with a scheme or a path, or without an authority.
BadConnect(fields) ==
    Has(fields, ":scheme") \/ Has(fields, ":path") \/ ~Has(fields, ":authority")

\* A request without its method, scheme or path, with a path that is empty or
\* no path at all, or with a host that is not its authority.
BadTarget(fields) ==
    \/ ~Has(fields, ":method") \/ ~Has(fields, ":scheme") \/ ~Has(fields, ":path")
    \/ First(fields, ":path").flaw = "syntax"
    \/ /\ First(fields, ":path").value = ""
       /\ First(fields, ":scheme").value \in {"http", "https"}
    \/ /\ Has(fields, "host")
       /\ \/ First(fields, "host").flaw = "syntax"
          \/ /\ Has(fields, ":authority")
             /\ First(fields, "host").value # First(fields, ":authority").value

IsConnect(fields) == Has(fields, ":method") /\ First(fields, ":method").value = "CONNECT"

\* What becomes of a field block: a connection error (HPACK), a malformed
\* request or trailer section, a request the server answers with a status of
\* its own (CONNECT, or no authority to make a URI with), or a fine one.
BlockVerdict(fields, trailers) ==
    IF \E i \in DOMAIN fields : fields[i].flaw = "hpack" THEN "connection"
    ELSE IF \E i \in DOMAIN fields : BadField(fields, i, trailers) THEN "malformed"
    ELSE IF trailers THEN "fine"
    ELSE IF IsConnect(fields) THEN IF BadConnect(fields) THEN "malformed" ELSE "status"
    ELSE IF BadTarget(fields) THEN "malformed"
    ELSE IF ~Has(fields, ":authority") /\ ~Has(fields, "host") THEN "status"
    ELSE IF Has(fields, "content-length") /\ First(fields, "content-length").flaw = "syntax"
      THEN "malformed"
    ELSE "fine"

\* The length a request announces for its body.
NoLength == -1
ContentLength(fields, endStream) ==
    IF Has(fields, "content-length") THEN First(fields, "content-length").value
    ELSE IF endStream THEN 0 ELSE NoLength
=============================================================================
