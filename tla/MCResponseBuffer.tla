-------------------------- MODULE MCResponseBuffer --------------------------
(***************************************************************************)
(* A small instance of ResponseBuffer for TLC. Calls are alike, and so are *)
(* buffers: no definition tells two of them apart.                         *)
(***************************************************************************)
EXTENDS ResponseBuffer, TLC

Symmetry == Permutations(Sends) \cup Permutations(Buffers)
=============================================================================
