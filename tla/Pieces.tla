------------------------------- MODULE Pieces -------------------------------
(***************************************************************************)
(* The tetrominoes and their rotation.  Models game_core/pieces.py and     *)
(* game_core/rotation.py.  A cell is << x, y >>, with y growing downwards. *)
(* The code lists the cells of all 28 orientations and the kicks of all 16 *)
(* rotations; here they follow from fewer.                                 *)
(***************************************************************************)
EXTENDS Integers, Sequences, SequencesExt

PieceType == {"I", "O", "T", "S", "Z", "J", "L"}
Rotation == 0 .. 3   \* SPAWN, RIGHT, REVERSE, LEFT

(***************************************************************************)
(* PIECE_CELLS: each orientation is the one before turned clockwise in a   *)
(* square box; the O looks the same in all.                                *)
(***************************************************************************)
SpawnCells ==
  [I |-> {<< 0, 1 >>, << 1, 1 >>, << 2, 1 >>, << 3, 1 >>},
   O |-> {<< 1, 0 >>, << 2, 0 >>, << 1, 1 >>, << 2, 1 >>},
   T |-> {<< 1, 0 >>, << 0, 1 >>, << 1, 1 >>, << 2, 1 >>},
   S |-> {<< 1, 0 >>, << 2, 0 >>, << 0, 1 >>, << 1, 1 >>},
   Z |-> {<< 0, 0 >>, << 1, 0 >>, << 1, 1 >>, << 2, 1 >>},
   J |-> {<< 0, 0 >>, << 0, 1 >>, << 1, 1 >>, << 2, 1 >>},
   L |-> {<< 2, 0 >>, << 0, 1 >>, << 1, 1 >>, << 2, 1 >>}]

Turned(t, cells) ==
  LET last == IF t = "I" THEN 3 ELSE 2
  IN  IF t = "O" THEN cells ELSE {<< last - c[2], c[1] >> : c \in cells}

PieceCells ==
  [t \in PieceType |->
     LET right == Turned(t, SpawnCells[t])  reverse == Turned(t, right)
     IN  << SpawnCells[t], right, reverse, Turned(t, reverse) >>]

(* A piece is [type, x, y, rotation]; these are its cells on the board. *)
Cells(p) ==
  {<< p.x + c[1], p.y + c[2] >> : c \in PieceCells[p.type][p.rotation + 1]}

Shifted(p, dx, dy) == [p EXCEPT !.x = @ + dx, !.y = @ + dy]

(***************************************************************************)
(* kicks_for: where to try a rotated piece, in this order.  A kick is the  *)
(* difference of an offset of either orientation.                          *)
(***************************************************************************)
Still == << << 0, 0 >>, << 0, 0 >>, << 0, 0 >>, << 0, 0 >>, << 0, 0 >> >>

JlstzOffsets ==
  << Still,
     << << 0, 0 >>, << 1, 0 >>, << 1, 1 >>, << 0, -2 >>, << 1, -2 >> >>,
     Still,
     << << 0, 0 >>, << -1, 0 >>, << -1, 1 >>, << 0, -2 >>, << -1, -2 >> >> >>

IOffsets ==
  << Still,
     << << 0, 0 >>, << 2, 0 >>, << -1, 0 >>, << 2, -1 >>, << -1, 2 >> >>,
     << << 0, 0 >>, << 3, 0 >>, << -3, 0 >>, << 3, 1 >>, << -3, 1 >> >>,
     << << 0, 0 >>, << 1, 0 >>, << -2, 0 >>, << 1, 2 >>, << -2, -1 >> >> >>

KicksFor(t, from, to) ==
  LET offsets == IF t = "I" THEN IOffsets ELSE JlstzOffsets
      kick(i) == << offsets[from + 1][i][1] - offsets[to + 1][i][1],
                    offsets[from + 1][i][2] - offsets[to + 1][i][2] >>
  IN  IF t = "O" THEN << << 0, 0 >> >> ELSE [i \in 1 .. 5 |-> kick(i)]

RotateCw(r) == (r + 1) % 4
RotateCcw(r) == (r + 3) % 4

(* rotate_piece: the candidates, the first that fits is taken. *)
Rotated(p, to) ==
  [i \in DOMAIN KicksFor(p.type, p.rotation, to) |->
     LET kick == KicksFor(p.type, p.rotation, to)[i]
     IN  [Shifted(p, kick[1], kick[2]) EXCEPT !.rotation = to]]
=============================================================================
