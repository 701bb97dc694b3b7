------------------------------ MODULE MCLuring ------------------------------
(***************************************************************************)
(* Small instances of Luring for TLC; the cfg file chooses the values.     *)
(***************************************************************************)
EXTENDS Luring
=============================================================================
