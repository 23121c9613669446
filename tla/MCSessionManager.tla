-------------------------- MODULE MCSessionManager --------------------------
(* SessionManager for TLC: players who come back after their session has   *)
(* ended, on two addresses that they may share.                            *)
EXTENDS SessionManager

Symmetry == Permutations(Players) \union Permutations(Endpoints)
=============================================================================
