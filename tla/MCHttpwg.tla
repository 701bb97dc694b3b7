------------------------------ MODULE MCHttpwg ------------------------------
(***************************************************************************)
(* The conformance suite against a scaled-down server, for TLC.            *)
(***************************************************************************)
EXTENDS Httpwg
=============================================================================
