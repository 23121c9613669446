------------------------------- MODULE Board --------------------------------
(***************************************************************************)
(* The board: its occupied cells, as a set.  Models game_core/board.py;    *)
(* colours are left out.  Row 0 is the top one, and hidden.                *)
(***************************************************************************)
EXTENDS Integers, FiniteSets

CONSTANTS Width, Hidden, Visible   \* GameConfig

Total == Hidden + Visible
Column == 0 .. Width - 1
Row == 0 .. Total - 1
Grid == Column \X Row

CanPlace(board, cells) == cells \subseteq Grid /\ cells \intersect board = {}

(***************************************************************************)
(* clear_full_lines: what is above a full row moves down.                  *)
(***************************************************************************)
(* Mutant: the bottom row is left out. *)
FullRowsButLast(board) == {y \in 0 .. Total - 2 : \A x \in Column : << x, y >> \in board}

FullRows(board) == {y \in Row : \A x \in Column : << x, y >> \in board}

(* Mutant: rows move down by all cleared rows, above and below. *)
ClearedByAll(board) ==
  {<< c[1], c[2] + Cardinality(FullRows(board)) >> :
     c \in {b \in board : b[2] \notin FullRows(board)}} \intersect Grid

Cleared(board) ==
  LET full == FullRows(board)
      below(y) == Cardinality({f \in full : f > y})
  IN  {<< c[1], c[2] + below(c[2]) >> : c \in {b \in board : b[2] \notin full}}

(***************************************************************************)
(* apply_garbage: rows with one hole push everything up, and what is on    *)
(* the top rows out.                                                       *)
(***************************************************************************)
WithGarbage(board, lines, hole) ==
  {<< c[1], c[2] - lines >> : c \in {b \in board : b[2] >= lines}}
  \union
  {c \in Grid : c[2] >= Total - lines /\ lines > 0 /\ c[1] # hole}

HiddenBlocks(board) == {c \in board : c[2] < Hidden}
=============================================================================
