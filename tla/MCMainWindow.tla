---------------------------- MODULE MCMainWindow ----------------------------
(* MainWindow for TLC. *)
EXTENDS MainWindow
=============================================================================
