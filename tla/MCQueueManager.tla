--------------------------- MODULE MCQueueManager ---------------------------
(* QueueManager for TLC: six players contend for two places and three      *)
(* waiting places, so the room fills up, refuses and promotes.             *)
EXTENDS QueueManager, TLC

Symmetry == Permutations(Players)
=============================================================================
