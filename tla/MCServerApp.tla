---------------------------- MODULE MCServerApp -----------------------------
(* ServerApp for TLC. *)
EXTENDS ServerApp, TLC

Symmetry == Permutations(Players)
=============================================================================
