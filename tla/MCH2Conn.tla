------------------------------ MODULE MCH2Conn ------------------------------
(***************************************************************************)
(* Small instances of H2Conn for TLC; the cfg files choose the values.     *)
(***************************************************************************)
EXTENDS H2Conn
=============================================================================
