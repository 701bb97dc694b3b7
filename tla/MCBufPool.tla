----------------------------- MODULE MCBufPool ------------------------------
(***************************************************************************)
(* Instances of BufPool: two or three buffers and up to four handles.      *)
(***************************************************************************)
EXTENDS BufPool, TLC

\* Buffers and handles are interchangeable: Init takes every order of the
\* free list.
Symmetry == Permutations(Bufs) \cup Permutations(Handles)
=============================================================================
