------------------------------- MODULE MCPlay -------------------------------
(* Play for TLC. *)
EXTENDS Play
=============================================================================
