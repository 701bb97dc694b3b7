---------------------------- MODULE MCH2Incoming ----------------------------
(* Values of H2Incoming's constants that a configuration cannot write. *)
EXTENDS H2Incoming

Announced == {NoLength, 1}

\* The handlers of streams 1 and 2.
Pairs == {<<"drain", "quit">>, <<"leave", "drain">>, <<"echo", "quit">>}
=============================================================================
