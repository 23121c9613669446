------------------------------- MODULE MCDuel -------------------------------
(* Duel for TLC. *)
EXTENDS Duel, TLC

Symmetry == Permutations(Players)
=============================================================================
