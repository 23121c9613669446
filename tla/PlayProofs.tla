------------------------------ MODULE PlayProofs -----------------------------
(***************************************************************************)
(* Proofs about Play, for a board of any size and any of the seven pieces. *)
(***************************************************************************)
EXTENDS Play, FiniteSetTheorems, SequenceTheorems, WellFoundedInduction, TLAPS

(* A tetromino somewhere. *)
Tetromino == [type : BagPieces, x : Int, y : Int, rotation : Rotation]

Event ==
  {PieceLockedEvent, TopOutEvent}
  \union [type : {"Clear"}, lines : Nat, tSpin : {"NONE", "MINI", "FULL"},
          combo : Int, backToBack : BOOLEAN]

(* The counters: clears in a row, ticks of gravity, ticks on the ground, the kick taken. *)
Combo == {n \in Int : n >= -1}
GravityTick == 0 .. GravityTicks - 1
GroundTick == 0 .. LockTicks
Kick == 0 .. 5

(* A game, on or over. *)
Game ==
  [board : SUBSET Grid, active : Piece \union {NoPiece}, queue : Seq(BagPieces),
   bags : Seq(Bag) \ {<< >>}, hold : BagPieces \union {NoPiece}, holdUsed : BOOLEAN,
   held : {0, 1}, combo : Combo, backToBack : BOOLEAN, gravity : GravityTick, soft : Nat,
   ground : GroundTick, kick : Kick, topOut : BOOLEAN, events : Seq(Event)]

(* There is a piece, on free cells, and the hidden rows are empty. *)
Placed(g) ==
  /\ g.active \in Tetromino /\ Fits(g, g.active)
  /\ HiddenBlocks(g.board) = {}

(* A game that is on: between ticks no piece is on the ground for long enough to lock. *)
Playable(g) == Placed(g) /\ g.ground < LockTicks

(* Hold is not used up for nothing. *)
HoldSound(g) == ~g.holdUsed => g.held = 0

-----------------------------------------------------------------------------
(* Some numbers have a least one, and Min gives it. *)
LEMMA LeastNumber ==
  ASSUME NEW I \in SUBSET Nat, I # {}
  PROVE  Min(I) \in I /\ \A k \in I : Min(I) <= k
<1> DEFINE Less == {ss \in Nat \X Nat : ss[1] < ss[2]}
<1>1. IsWellFoundedOn(Less, Nat)
  BY NatLessThanWellFounded DEF OpToRel
<1>2. PICK m \in I : \A k \in I : << k, m >> \notin Less
  <2> HIDE DEF Less
  <2> QED  BY <1>1, WFMin
<1>3. ASSUME NEW k \in I
      PROVE  m <= k
  <2>1. m \in Nat /\ k \in Nat
    BY <1>2
  <2>2. << k, m >> \notin Less
    BY <1>2
  <2>3. ~(k < m)
    BY <2>1, <2>2
  <2> HIDE DEF Less
  <2> QED  BY <2>1, <2>3
<1> QED  BY <1>2, <1>3 DEF Min

-----------------------------------------------------------------------------
(* Pieces. *)

(* The sizes of a board and the ticks of a game. *)
LEMMA Constants ==
  /\ Width \in Nat /\ Width >= 4 /\ Hidden \in Nat /\ Hidden >= 2
  /\ Visible \in Nat /\ Visible > 0 /\ Total \in Nat /\ Total = Hidden + Visible
  /\ Preview \in Nat /\ Preview > 0
  /\ LockTicks \in Nat /\ LockTicks > 0
  /\ GravityTicks \in Nat /\ GravityTicks > 0 /\ SoftTicks \in Nat /\ SoftTicks > 0
BY EngineAssumption, PlayAssumption DEF Total

(* The counters are numbers, and can be reset. *)
LEMMA Counters ==
  /\ 0 \in GravityTick /\ 0 \in GroundTick /\ 0 \in Kick /\ -1 \in Combo
  /\ \A n \in Combo : n \in Int /\ n + 1 \in Combo
  /\ \A n \in GravityTick : n \in Nat
  /\ \A n \in GroundTick : n \in Nat
BY Constants DEF Combo, GravityTick, GroundTick, Kick

(* The orientations of a piece are four squares in a box of four by four. *)
LEMMA PieceInBox ==
  ASSUME NEW t \in PieceType, NEW r \in Rotation
  PROVE  PieceCells[t][r + 1] \subseteq (0 .. 3) \X (0 .. 3)
<1> DEFINE Box == (0 .. 3) \X (0 .. 3)
<1>1. SpawnCells[t] \subseteq Box
  BY DEF SpawnCells, PieceType
<1>2. t # "I" => SpawnCells[t] \subseteq (0 .. 2) \X (0 .. 2)
  BY DEF SpawnCells, PieceType
<1>3. ASSUME NEW c \in SUBSET Box, t # "I" => c \subseteq (0 .. 2) \X (0 .. 2)
      PROVE  /\ Turned(t, c) \in SUBSET Box
             /\ t # "I" => Turned(t, c) \subseteq (0 .. 2) \X (0 .. 2)
  BY <1>3 DEF Turned
<1> DEFINE right == Turned(t, SpawnCells[t])
           reverse == Turned(t, right)
           left == Turned(t, reverse)
<1>4. right \in SUBSET Box /\ (t # "I" => right \subseteq (0 .. 2) \X (0 .. 2))
  BY <1>1, <1>2, <1>3
<1> HIDE DEF right
<1>5. reverse \in SUBSET Box /\ (t # "I" => reverse \subseteq (0 .. 2) \X (0 .. 2))
  BY <1>3, <1>4
<1> HIDE DEF reverse
<1>6. left \in SUBSET Box
  BY <1>3, <1>5
<1> HIDE DEF left
<1>7. PieceCells[t] = << SpawnCells[t], right, reverse, left >>
  BY DEF PieceCells, right, reverse, left
<1>8. r + 1 = 1 \/ r + 1 = 2 \/ r + 1 = 3 \/ r + 1 = 4
  BY DEF Rotation
<1> QED  BY <1>1, <1>4, <1>5, <1>6, <1>7, <1>8

(* Whichever way a piece is turned, it has a cell in the inner box of three by three. *)
LEMMA InnerCell ==
  ASSUME NEW t \in PieceType, NEW r \in Rotation
  PROVE  \E x, y \in 0 .. 2 : << x, y >> \in PieceCells[t][r + 1]
<1> DEFINE right == Turned(t, SpawnCells[t])
           reverse == Turned(t, right)
           left == Turned(t, reverse)
<1>1. << 1, 1 >> \in SpawnCells[t]
  BY DEF SpawnCells, PieceType
<1>2. CASE t = "I"
  <2>1. ASSUME NEW cells, NEW x \in 0 .. 2, NEW y \in 0 .. 2, << x, y >> \in cells
        PROVE  << 3 - y, x >> \in Turned(t, cells)
    BY <1>2, <2>1 DEF Turned
  <2>2. << 2, 1 >> \in right
    <3>1. << 3 - 1, 1 >> \in right
      BY <1>1, <2>1
    <3> QED  BY <3>1
  <2> HIDE DEF right
  <2>3. << 2, 2 >> \in reverse
    <3>1. << 3 - 1, 2 >> \in reverse
      BY <2>1, <2>2
    <3> QED  BY <3>1
  <2> HIDE DEF reverse
  <2>4. << 1, 2 >> \in left
    <3>1. << 3 - 2, 2 >> \in left
      BY <2>1, <2>3
    <3> QED  BY <3>1
  <2> HIDE DEF left
  <2>5. PieceCells[t] = << SpawnCells[t], right, reverse, left >>
    BY DEF PieceCells, right, reverse, left
  <2>6. r + 1 = 1 \/ r + 1 = 2 \/ r + 1 = 3 \/ r + 1 = 4
    BY DEF Rotation
  <2> QED  BY <1>1, <2>2, <2>3, <2>4, <2>5, <2>6
<1>3. CASE t # "I"
  <2>1. ASSUME NEW cells, << 1, 1 >> \in cells
        PROVE  << 1, 1 >> \in Turned(t, cells)
    <3>1. 2 - 1 = 1
      OBVIOUS
    <3> QED  BY <1>3, <2>1, <3>1 DEF Turned
  <2>2. << 1, 1 >> \in right
    BY <1>1, <2>1
  <2> HIDE DEF right
  <2>3. << 1, 1 >> \in reverse
    BY <2>1, <2>2
  <2> HIDE DEF reverse
  <2>4. << 1, 1 >> \in left
    BY <2>1, <2>3
  <2> HIDE DEF left
  <2>5. PieceCells[t] = << SpawnCells[t], right, reverse, left >>
    BY DEF PieceCells, right, reverse, left
  <2>6. r + 1 = 1 \/ r + 1 = 2 \/ r + 1 = 3 \/ r + 1 = 4
    BY DEF Rotation
  <2>7. << 1, 1 >> \in PieceCells[t][r + 1]
    BY <1>1, <2>2, <2>3, <2>4, <2>5, <2>6
  <2> QED  BY <2>7
<1> QED  BY <1>2, <1>3

(* A piece that fits is a piece near the board. *)
LEMMA FittingPiece ==
  ASSUME NEW g, NEW p \in Tetromino, Fits(g, p)
  PROVE  p \in Piece
<1>1. /\ p.type \in BagPieces /\ p.type \in PieceType /\ p.rotation \in Rotation
      /\ p.x \in Int /\ p.y \in Int
  BY EngineAssumption DEF Tetromino
<1>2. PICK x \in 0 .. 2, y \in 0 .. 2 : << x, y >> \in PieceCells[p.type][p.rotation + 1]
  BY <1>1, InnerCell
<1>3. << p.x + x, p.y + y >> \in Grid
  <2>1. << p.x + x, p.y + y >> \in Cells(p)
    BY <1>2 DEF Cells
  <2> QED  BY <2>1 DEF Fits, CanPlace
<1>4. p.x + x \in 0 .. Width - 1 /\ p.y + y \in 0 .. Total - 1
  BY <1>3 DEF Grid, Column, Row
<1>5. p.x \in -2 .. Width /\ p.y \in -2 .. Total
  BY <1>1, <1>2, <1>4, Constants
<1> QED  BY <1>1, <1>5 DEF Piece, Tetromino

(* A cell of a piece is a place. *)
LEMMA CellsAreCells ==
  ASSUME NEW p \in Tetromino
  PROVE  Cells(p) \subseteq Int \X Int
<1>1. p.type \in PieceType /\ p.rotation \in Rotation /\ p.x \in Int /\ p.y \in Int
  BY EngineAssumption DEF Tetromino
<1>2. PieceCells[p.type][p.rotation + 1] \subseteq (0 .. 3) \X (0 .. 3)
  BY <1>1, PieceInBox
<1> QED  BY <1>1, <1>2 DEF Cells

(* A new piece has a place on an empty board. *)
LEMMA SpawnFits ==
  ASSUME NEW t \in BagPieces
  PROVE  /\ SpawnPiece(t) \in Tetromino /\ SpawnPiece(t) \in Piece
         /\ CanPlace({}, Cells(SpawnPiece(t)))
<1>1. (Width - 4) \div 2 \in 0 .. Width - 4
  BY Constants
<1>2. SpawnPiece(t) \in Tetromino
  BY <1>1, Constants DEF SpawnPiece, Tetromino, Rotation
<1>3. t \in PieceType
  BY EngineAssumption
<1>4. PieceCells[t][1] = SpawnCells[t]
  BY <1>3 DEF PieceCells
<1>5. SpawnCells[t] \subseteq (0 .. 3) \X (0 .. 1)
  BY <1>3 DEF SpawnCells, PieceType
<1>6. Cells(SpawnPiece(t)) =
        {<< (Width - 4) \div 2 + c[1], Hidden - 2 + c[2] >> : c \in SpawnCells[t]}
  BY <1>4 DEF Cells, SpawnPiece
<1>7. Cells(SpawnPiece(t)) \subseteq Grid
  BY <1>1, <1>5, <1>6, Constants DEF Grid, Column, Row
<1>8. SpawnPiece(t) \in Piece
  <2>1. (Width - 4) \div 2 \in -2 .. Width /\ Hidden - 2 \in -2 .. Total
    BY <1>1, Constants
  <2> QED  BY <2>1 DEF SpawnPiece, Piece, Rotation
<1> QED  BY <1>2, <1>7, <1>8 DEF CanPlace

(* What a move makes of a piece. *)
LEMMA MovedPieces ==
  ASSUME NEW p \in Tetromino
  PROVE  /\ \A dx, dy \in Int : Shifted(p, dx, dy) \in Tetromino
         /\ Shifted(p, 0, 0) = p
<1>1. \A u, v \in Int : [p EXCEPT !.x = u, !.y = v] \in Tetromino
  BY DEF Tetromino
<1>2. p.x \in Int /\ p.y \in Int
  BY DEF Tetromino
<1>3. ASSUME NEW dx \in Int, NEW dy \in Int
      PROVE  Shifted(p, dx, dy) \in Tetromino
  <2>1. PICK u \in Int, v \in Int : u = p.x + dx /\ v = p.y + dy
    BY <1>2
  <2>2. Shifted(p, dx, dy) = [p EXCEPT !.x = u, !.y = v]
    BY <2>1 DEF Shifted
  <2> QED  BY <1>1, <2>2
<1>4. Shifted(p, 0, 0) = p
  <2>1. p.x + 0 = p.x /\ p.y + 0 = p.y
    BY <1>2
  <2>2. PICK u \in Int, v \in Int : u = p.x /\ v = p.y
    BY <1>2
  <2>3. Shifted(p, 0, 0) = [p EXCEPT !.x = u, !.y = v]
    BY <2>1, <2>2 DEF Shifted
  <2>4. [p EXCEPT !.x = u, !.y = v] = p
    BY <2>2 DEF Tetromino
  <2> QED  BY <2>3, <2>4
<1> QED  BY <1>3, <1>4

(* As many indexes, as many elements. *)
LEMMA SameRange ==
  ASSUME NEW m \in Nat, NEW n \in Nat, 1 .. m = 1 .. n
  PROVE  m = n
<1>1. m < n => n \notin 1 .. m /\ n \in 1 .. n
  OBVIOUS
<1>2. n < m => m \notin 1 .. n /\ m \in 1 .. m
  OBVIOUS
<1> QED  BY <1>1, <1>2

(* The candidates of a rotation are pieces. *)
LEMMA RotatedPieces ==
  ASSUME NEW p \in Tetromino, NEW to \in Rotation
  PROVE  /\ Len(Rotated(p, to)) \in 1 .. 5
         /\ \A i \in 1 .. Len(Rotated(p, to)) : Rotated(p, to)[i] \in Tetromino
<1> DEFINE kicks == KicksFor(p.type, p.rotation, to)
<1>1. p.rotation \in Rotation
  BY DEF Tetromino
<1>2. \/ DOMAIN kicks = 1 .. 1
      \/ DOMAIN kicks = 1 .. 5
  BY DEF KicksFor
<1>3. \A i \in DOMAIN kicks : kicks[i][1] \in Int /\ kicks[i][2] \in Int
  <2>1. CASE p.type = "O"
    BY <2>1 DEF KicksFor
  <2>2. CASE p.type # "O"
    <3>1. PICK o : o = (IF p.type = "I" THEN IOffsets ELSE JlstzOffsets)
      OBVIOUS
    <3>2. \A r \in 1 .. 4, i \in 1 .. 5 : o[r][i][1] \in Int /\ o[r][i][2] \in Int
      BY <3>1 DEF IOffsets, JlstzOffsets, Still
    <3>3. kicks = [i \in 1 .. 5 |->
             << o[p.rotation + 1][i][1] - o[to + 1][i][1],
                o[p.rotation + 1][i][2] - o[to + 1][i][2] >>]
      BY <2>2, <3>1 DEF KicksFor
    <3>4. p.rotation + 1 \in 1 .. 4 /\ to + 1 \in 1 .. 4
      BY <1>1 DEF Rotation
    <3> HIDE DEF kicks
    <3> QED  BY <3>2, <3>3, <3>4
  <2> QED  BY <2>1, <2>2
<1>4. Rotated(p, to) =
        [i \in DOMAIN kicks |-> [Shifted(p, kicks[i][1], kicks[i][2]) EXCEPT !.rotation = to]]
  BY DEF Rotated
<1> HIDE DEF kicks
<1>5. \A i \in DOMAIN kicks :
        [Shifted(p, kicks[i][1], kicks[i][2]) EXCEPT !.rotation = to] \in Tetromino
  <2>1. \A q \in Tetromino : [q EXCEPT !.rotation = to] \in Tetromino
    BY DEF Tetromino
  <2> QED  BY <1>3, <2>1, MovedPieces
<1>6. PICK n \in {1, 5} : DOMAIN kicks = 1 .. n
  BY <1>2
<1>7. Rotated(p, to) \in Seq(Tetromino)
  <2>1. \E m \in Nat : DOMAIN kicks = 1 .. m
    BY <1>2
  <2> QED  BY <1>4, <1>5, <2>1, IsASeq
<1>8. Len(Rotated(p, to)) = n
  <2>1. 1 .. Len(Rotated(p, to)) = 1 .. n /\ Len(Rotated(p, to)) \in Nat
    BY <1>4, <1>6, <1>7, LenProperties
  <2> QED  BY <1>6, <2>1, SameRange
<1> QED  BY <1>6, <1>7, <1>8, ElementOfSeq

-----------------------------------------------------------------------------
(* The board. *)

(* The rows of a board are few. *)
LEMMA SomeRows ==
  ASSUME NEW F \in SUBSET Row, NEW y \in Row
  PROVE  /\ IsFiniteSet(F) /\ Cardinality(F) \in Nat
         /\ Cardinality({f \in F : f > y}) \in 0 .. Total - 1 - y
<1>1. IsFiniteSet(Row)
  BY Constants, FS_Interval DEF Row
<1>2. IsFiniteSet(F) /\ Cardinality(F) \in Nat
  BY <1>1, FS_Subset, FS_CardinalityType
<1> DEFINE B == {f \in F : f > y}
<1>3. B \subseteq y + 1 .. Total - 1
  <2>1. ASSUME NEW f \in B
        PROVE  f \in y + 1 .. Total - 1
    <3>1. f \in 0 .. Total - 1 /\ y \in 0 .. Total - 1 /\ f > y
      BY DEF Row
    <3> QED  BY <3>1, Constants
  <2> QED  BY <2>1
<1>4. y \in Int /\ y + 1 \in Int /\ Total - 1 \in Int /\ y <= Total - 1
  BY Constants DEF Row
<1>5. /\ IsFiniteSet(y + 1 .. Total - 1)
      /\ Cardinality(y + 1 .. Total - 1) = Total - 1 - y
  <2>1. PICK a \in Int, b \in Int : a = y + 1 /\ b = Total - 1
    BY <1>4
  <2>2. IsFiniteSet(a .. b) /\ Cardinality(a .. b) = IF a > b THEN 0 ELSE b - a + 1
    BY FS_Interval
  <2> QED  BY <1>4, <2>1, <2>2
<1> HIDE DEF B
<1>6. Cardinality(B) \in Nat /\ Cardinality(B) <= Cardinality(y + 1 .. Total - 1)
  <2>1. IsFiniteSet(B) /\ Cardinality(B) <= Cardinality(y + 1 .. Total - 1)
    BY <1>3, <1>5, FS_Subset
  <2> QED  BY <2>1, FS_CardinalityType
<1>7. Cardinality(B) \in 0 .. Total - 1 - y
  BY <1>4, <1>5, <1>6
<1> QED  BY <1>2, <1>7 DEF B

(***************************************************************************)
(* What is left of a board when rows are cleared stays on it, and moves    *)
(* down only.                                                              *)
(***************************************************************************)
LEMMA ClearedBoard ==
  ASSUME NEW board \in SUBSET Grid
  PROVE  /\ Cleared(board) \in SUBSET Grid
         /\ HiddenBlocks(board) = {} => HiddenBlocks(Cleared(board)) = {}
         /\ Cardinality(FullRows(board)) \in Nat
<1> DEFINE full == FullRows(board)
           below(y) == Cardinality({f \in full : f > y})
<1>1. full \in SUBSET Row
  BY DEF FullRows
<1>2. Cleared(board) = {<< c[1], c[2] + below(c[2]) >> : c \in {b \in board : b[2] \notin full}}
  BY DEF Cleared
<1> HIDE DEF full
<1>3. \A y \in Row : below(y) \in 0 .. Total - 1 - y
  BY <1>1, SomeRows
<1>4. \A c \in board : /\ c[1] \in Column /\ c[2] \in Row
                       /\ c = << c[1], c[2] >>
  BY DEF Grid
<1> HIDE DEF below
<1>5. ASSUME NEW d \in Cleared(board)
      PROVE  \E c \in board : d[2] >= c[2] /\ d \in Grid /\ d[2] \in Int /\ c[2] \in Int
  <2>1. PICK c \in board : d = << c[1], c[2] + below(c[2]) >>
    BY <1>2
  <2>2. PICK y \in Row : y = c[2]
    BY <1>4
  <2>3. PICK n \in 0 .. Total - 1 - y : n = below(y)
    BY <1>3
  <2>4. y + n \in Row /\ y + n >= y /\ y \in Int
    BY <2>2, <2>3, Constants DEF Row
  <2>5. d = << c[1], y + n >>
    BY <2>1, <2>2, <2>3
  <2>6. d \in Grid /\ d[2] = y + n
    BY <1>4, <2>4, <2>5 DEF Grid
  <2> QED  BY <2>2, <2>4, <2>6
<1>6. HiddenBlocks(board) = {} => HiddenBlocks(Cleared(board)) = {}
  BY <1>5, Constants DEF HiddenBlocks
<1>7. Cardinality(full) \in Nat
  <2>1. 0 \in Row
    BY Constants DEF Row
  <2> QED  BY <1>1, <2>1, SomeRows
<1> QED  BY <1>5, <1>6, <1>7 DEF full

(* Garbage leaves the blocks on the board. *)
LEMMA GarbageBoard ==
  ASSUME NEW board \in SUBSET Grid, NEW lines \in Nat, NEW hole
  PROVE  WithGarbage(board, lines, hole) \in SUBSET Grid
<1>1. ASSUME NEW c \in board, c[2] >= lines
      PROVE  << c[1], c[2] - lines >> \in Grid
  <2>1. PICK x \in Column, y \in Row : c = << x, y >>
    BY DEF Grid
  <2>2. y - lines \in Row
    BY <1>1, <2>1, Constants DEF Row
  <2> QED  BY <2>1, <2>2 DEF Grid
<1> QED  BY <1>1 DEF WithGarbage

(***************************************************************************)
(* Two rows that stay, one above the other, do not move into one: between  *)
(* them there are fewer full rows than places.                             *)
(***************************************************************************)
LEMMA RowsApart ==
  ASSUME NEW F \in SUBSET Row, NEW y \in Row, NEW z \in Row, y < z, z \notin F
  PROVE  y + Cardinality({f \in F : f > y}) < z + Cardinality({f \in F : f > z})
<1> DEFINE M == {f \in F : y < f /\ f < z}
           A == {f \in F : f > z}
           B == {f \in F : f > y}
<1>1. y \in Int /\ z \in Int /\ \A f \in F : f \in Int
  BY Constants DEF Row
<1>2. IsFiniteSet(F)
  BY SomeRows
<1>3. IsFiniteSet(M) /\ IsFiniteSet(A)
  BY <1>2, FS_Subset
<1>4. B = A \union M /\ A \intersect M = {}
  <2>1. \A f \in F : f > y <=> f > z \/ (y < f /\ f < z)
    BY <1>1
  <2>2. \A f \in F : ~(f > z /\ f < z)
    BY <1>1
  <2> QED  BY <2>1, <2>2
<1>5. M \subseteq y + 1 .. z - 1
  <2>1. ASSUME NEW f \in M
        PROVE  f \in y + 1 .. z - 1
    <3>1. f \in Int /\ y < f /\ f < z
      BY <1>1
    <3> QED  BY <1>1, <3>1
  <2> QED  BY <2>1
<1>6. IsFiniteSet(y + 1 .. z - 1) /\ Cardinality(y + 1 .. z - 1) = z - 1 - y
  <2>1. PICK a \in Int, b \in Int : a = y + 1 /\ b = z - 1
    BY <1>1
  <2>2. IsFiniteSet(a .. b) /\ Cardinality(a .. b) = IF a > b THEN 0 ELSE b - a + 1
    BY <2>1, FS_Interval
  <2> QED  BY <1>1, <2>1, <2>2
<1> HIDE DEF M, A, B
<1>7. Cardinality(M) \in Nat /\ Cardinality(A) \in Nat /\ Cardinality(M) <= z - 1 - y
  BY <1>3, <1>5, <1>6, FS_CardinalityType, FS_Subset
<1>8. Cardinality(B) = Cardinality(A) + Cardinality(M)
  <2>1. Cardinality(A \union M) =
          Cardinality(A) + Cardinality(M) - Cardinality(A \intersect M)
    BY <1>3, FS_Union
  <2>2. Cardinality({}) = 0
    BY FS_EmptySet
  <2> QED  BY <1>4, <1>7, <2>1, <2>2
<1>9. y + Cardinality(B) < z + Cardinality(A)
  BY <1>1, <1>7, <1>8
<1> QED  BY <1>9 DEF A, B

(***************************************************************************)
(* A clear leaves no full row: what moves into one row was in one row.     *)
(***************************************************************************)
LEMMA ClearedFullRows ==
  ASSUME NEW board \in SUBSET Grid
  PROVE  FullRows(Cleared(board)) = {}
<1> DEFINE full == FullRows(board)
           below(y) == Cardinality({f \in full : f > y})
<1> SUFFICES ASSUME NEW t \in FullRows(Cleared(board)) PROVE FALSE
  OBVIOUS
<1>1. full \in SUBSET Row
  BY DEF FullRows
<1>2. Cleared(board) = {<< c[1], c[2] + below(c[2]) >> : c \in {b \in board : b[2] \notin full}}
  BY DEF Cleared
<1>3. t \in Row /\ \A x \in Column : << x, t >> \in Cleared(board)
  BY DEF FullRows
<1> HIDE DEF full
<1>4. ASSUME NEW y \in Row, NEW z \in Row, y # z, y \notin full, z \notin full
      PROVE  y + below(y) # z + below(z)
  <2>1. below(y) \in Nat /\ below(z) \in Nat /\ y \in Int /\ z \in Int
    <3>1. below(y) \in 0 .. Total - 1 - y /\ below(z) \in 0 .. Total - 1 - z
      BY <1>1, SomeRows
    <3> HIDE DEF below
    <3> QED  BY <3>1, Constants DEF Row
  <2>2. y < z => y + below(y) < z + below(z)
    BY <1>1, <1>4, RowsApart
  <2>3. z < y => z + below(z) < y + below(y)
    BY <1>1, <1>4, RowsApart
  <2> HIDE DEF below
  <2> QED  BY <1>4, <2>1, <2>2, <2>3
<1> HIDE DEF below
<1>5. ASSUME NEW x \in Column
      PROVE  \E y \in Row : y \notin full /\ << x, y >> \in board /\ y + below(y) = t
  <2>1. PICK c \in board : c[2] \notin full /\ << x, t >> = << c[1], c[2] + below(c[2]) >>
    BY <1>2, <1>3
  <2>2. c[2] \in Row /\ c = << c[1], c[2] >>
    BY DEF Grid
  <2> QED  BY <2>1, <2>2
<1>6. 0 \in Column
  BY Constants DEF Column
<1>7. PICK y \in Row : y \notin full /\ << 0, y >> \in board /\ y + below(y) = t
  BY <1>5, <1>6
<1>8. \A x \in Column : << x, y >> \in board
  <2> TAKE x \in Column
  <2>1. PICK z \in Row : z \notin full /\ << x, z >> \in board /\ z + below(z) = t
    BY <1>5
  <2>2. z = y
    BY <1>4, <1>7, <2>1
  <2> QED  BY <2>1, <2>2
<1>9. y \in full
  BY <1>8 DEF full, FullRows
<1> QED  BY <1>7, <1>9

(* Nor does garbage make one: it has its hole, and the rest moves as it is. *)
LEMMA GarbageFullRows ==
  ASSUME NEW board \in SUBSET Grid, FullRows(board) = {},
         NEW lines \in Nat, NEW hole \in Column
  PROVE  FullRows(WithGarbage(board, lines, hole)) = {}
<1> SUFFICES ASSUME NEW t \in FullRows(WithGarbage(board, lines, hole)) PROVE FALSE
  OBVIOUS
<1>1. t \in Row /\ \A x \in Column : << x, t >> \in WithGarbage(board, lines, hole)
  BY DEF FullRows
<1>2. t \in Int /\ t >= 0 /\ t < Total /\ Total \in Int
  BY <1>1, Constants DEF Row
<1>3. ASSUME NEW x \in Column
      PROVE  \/ << x, t + lines >> \in board /\ t + lines \in Row
             \/ t >= Total - lines /\ lines > 0 /\ x # hole
  <2>1. << x, t >> \in WithGarbage(board, lines, hole)
    BY <1>1
  <2>2. CASE << x, t >> \in {<< c[1], c[2] - lines >> : c \in {b \in board : b[2] >= lines}}
    <3>1. PICK c \in board : << x, t >> = << c[1], c[2] - lines >>
      BY <2>2
    <3>2. PICK u \in Column, v \in Row : c = << u, v >>
      BY DEF Grid
    <3>3. x = u /\ t = v - lines /\ v \in Int
      BY <3>1, <3>2, Constants DEF Row
    <3>4. t + lines = v
      BY <3>3
    <3> QED  BY <3>2, <3>3, <3>4
  <2>3. CASE << x, t >> \in {c \in Grid : c[2] >= Total - lines /\ lines > 0 /\ c[1] # hole}
    BY <2>3
  <2> QED  BY <2>1, <2>2, <2>3 DEF WithGarbage
<1>4. CASE t >= Total - lines /\ lines > 0
  <2>1. t + lines \in Row
    BY <1>3
  <2> QED  BY <1>2, <1>4, <2>1 DEF Row
<1>5. CASE ~(t >= Total - lines /\ lines > 0)
  <2>1. \A x \in Column : << x, t + lines >> \in board /\ t + lines \in Row
    BY <1>3, <1>5
  <2>2. 0 \in Column
    BY Constants DEF Column
  <2>3. t + lines \in FullRows(board)
    BY <2>1, <2>2 DEF FullRows
  <2> QED  BY <2>3
<1> QED  BY <1>4, <1>5

-----------------------------------------------------------------------------
(* A piece that falls, and a new one. *)

(***************************************************************************)
(* However far a piece falls, it does not fall onto other blocks.          *)
(***************************************************************************)
LEMMA RowsFallenFits ==
  ASSUME NEW g, g.active \in Tetromino, Fits(g, g.active), NEW n \in Nat
  PROVE  /\ RowsFallen(g, n) \in 0 .. n
         /\ Fits(g, Shifted(g.active, 0, RowsFallen(g, n)))
<1> DEFINE D == {d \in 1 .. n : ~Fits(g, Shifted(g.active, 0, d))}
           I == {n + 1} \union D
<1>1. I \in SUBSET Nat /\ I # {} /\ n + 1 \in I
  OBVIOUS
<1>2. PICK m : m = Min(I)
  OBVIOUS
<1>3. m \in I /\ \A k \in I : m <= k
  BY <1>1, <1>2, LeastNumber
<1>4. m \in Nat /\ m >= 1 /\ m <= n + 1
  BY <1>1, <1>3
<1>5. RowsFallen(g, n) = m - 1
  BY <1>2 DEF RowsFallen
<1>6. CASE m = 1
  <2>1. m - 1 = 0
    BY <1>6
  <2>2. Shifted(g.active, 0, m - 1) = g.active
    BY <2>1, MovedPieces
  <2> QED  BY <1>4, <1>5, <2>2
<1>7. CASE m # 1
  <2>1. m - 1 \in 1 .. n /\ ~(m <= m - 1)
    BY <1>4, <1>7
  <2>2. m - 1 \notin D
    BY <1>3, <2>1
  <2> QED  BY <1>5, <2>1, <2>2
<1> QED  BY <1>6, <1>7

(* What a move leaves alone. *)
Frame(g, h) ==
  /\ h.board = g.board /\ h.queue = g.queue /\ h.hold = g.hold
  /\ h.holdUsed = g.holdUsed /\ h.held = g.held
  /\ h.topOut = g.topOut /\ h.events = g.events

(* A move puts the piece where it fits. *)
Moved(g, h) ==
  /\ h \in Game /\ h.active \in Tetromino /\ Fits(h, h.active)
  /\ Frame(g, h)

(* To put the piece where it fits is a move. *)
LEMMA PieceSet ==
  ASSUME NEW g \in Game, NEW p \in Tetromino, Fits(g, p)
  PROVE  /\ Moved(g, [g EXCEPT !.active = p])
         /\ \A k \in Kick : Moved(g, [g EXCEPT !.active = p, !.kick = k, !.ground = 0])
         /\ \A k \in Kick : [g EXCEPT !.active = p, !.kick = k, !.ground = 0].ground = 0
<1>1. p \in Piece /\ 0 \in GroundTick
  BY FittingPiece, Counters
<1> QED  BY <1>1 DEF Game, Moved, Frame, Fits

(* To fall is a move, and leaves the counters alone. *)
LEMMA FallenMoves ==
  ASSUME NEW g \in Game, g.active \in Tetromino, Fits(g, g.active), NEW n \in Nat
  PROVE  Moved(g, Fallen(g, n)) /\ Fallen(g, n).ground = g.ground
<1>1. PICK d \in 0 .. n : d = RowsFallen(g, n) /\ Fits(g, Shifted(g.active, 0, d))
  BY RowsFallenFits
<1>2. PICK p \in Tetromino : p = Shifted(g.active, 0, d)
  BY MovedPieces
<1>3. Fallen(g, n) = [g EXCEPT !.active = p]
  BY <1>1, <1>2 DEF Fallen
<1>4. [g EXCEPT !.active = p].ground = g.ground
  BY DEF Game
<1> QED  BY <1>1, <1>2, <1>3, <1>4, PieceSet

(* To go sideways is a move. *)
LEMMA SidewaysMoves ==
  ASSUME NEW g \in Game, g.active \in Tetromino, Fits(g, g.active), NEW dx \in Int
  PROVE  /\ Moved(g, MovedSideways(g, dx))
         /\ MovedSideways(g, dx).ground \in {0, g.ground}
<1>1. PICK p \in Tetromino : p = Shifted(g.active, dx, 0)
  BY MovedPieces
<1>2. Moved(g, g)
  BY DEF Moved, Frame
<1>3. Fits(g, p) => /\ Moved(g, [g EXCEPT !.active = p, !.kick = 0, !.ground = 0])
                    /\ [g EXCEPT !.active = p, !.kick = 0, !.ground = 0].ground = 0
  BY PieceSet, Counters
<1> QED  BY <1>1, <1>2, <1>3 DEF MovedSideways

(* To turn is a move, by the first kick that fits or not at all. *)
LEMMA TurnMoves ==
  ASSUME NEW g \in Game, g.active \in Tetromino, Fits(g, g.active), NEW to \in Rotation
  PROVE  Moved(g, Turn(g, to)) /\ Turn(g, to).ground \in {0, g.ground}
<1> DEFINE candidates == Rotated(g.active, to)
           I == {i \in 1 .. Len(candidates) : Fits(g, candidates[i])}
<1>1. /\ Len(candidates) \in 1 .. 5
      /\ \A i \in 1 .. Len(candidates) : candidates[i] \in Tetromino
  BY RotatedPieces
<1> HIDE DEF candidates
<1>2. PICK kick : kick = IF I # {} THEN Min(I) ELSE 0
  OBVIOUS
<1>3. Turn(g, to) = IF kick = 0 THEN g
                    ELSE [g EXCEPT !.active = candidates[kick], !.kick = kick, !.ground = 0]
  BY <1>2 DEF Turn, SelectInSeq, candidates
<1>4. I # {} => kick \in I
  <2>1. I \in SUBSET Nat
    BY <1>1
  <2> HIDE DEF I
  <2> QED  BY <1>2, <2>1, LeastNumber
<1>5. CASE I = {}
  BY <1>2, <1>3, <1>5 DEF Moved, Frame
<1>6. CASE I # {}
  <2>1. PICK p \in Tetromino : p = candidates[kick] /\ Fits(g, p)
    BY <1>1, <1>4, <1>6
  <2>2. kick \in Kick /\ kick # 0
    BY <1>1, <1>4, <1>6 DEF Kick
  <2>3. /\ Moved(g, [g EXCEPT !.active = p, !.kick = kick, !.ground = 0])
        /\ [g EXCEPT !.active = p, !.kick = kick, !.ground = 0].ground = 0
    BY <2>1, <2>2, PieceSet
  <2> QED  BY <1>3, <2>1, <2>2, <2>3
<1> QED  BY <1>5, <1>6

-----------------------------------------------------------------------------
(* The next piece. *)

(* A game, whatever has become of it: as long as it is on, it is playable. *)
Sound(g) ==
  /\ g \in Game /\ Len(g.queue) > Preview
  /\ HoldSound(g)
  /\ FullRows(g.board) = {}
  /\ ~g.topOut => Playable(g)

(* A shuffled bag fills the preview and more. *)
LEMMA BagFills ==
  ASSUME NEW bag \in Bag
  PROVE  bag \in Seq(BagPieces) /\ Len(bag) \in Nat /\ Len(bag) > Preview
<1> DEFINE n == Cardinality(BagPieces)
<1>1. n \in Nat /\ n > Preview
  <2>1. IsFiniteSet(PieceType)
    <3>1. \A S, e : IsFiniteSet(S) => IsFiniteSet(S \union {e})
      BY FS_AddElement
    <3>2. PieceType =
            {} \union {"I"} \union {"O"} \union {"T"} \union {"S"} \union {"Z"}
               \union {"J"} \union {"L"}
      BY DEF PieceType
    <3> QED  BY <3>1, <3>2, FS_EmptySet
  <2>2. IsFiniteSet(BagPieces)
    BY <2>1, EngineAssumption, FS_Subset
  <2> QED  BY <2>2, FS_CardinalityType, EngineAssumption
<1>2. bag \in [1 .. n -> BagPieces]
  BY DEF Bag, SetToSeqs
<1> HIDE DEF n
<1> QED  BY <1>1, <1>2

(* The preview does not run short: a bag is added when it would, and there is always one. *)
LEMMA FilledKeeps ==
  ASSUME NEW g \in Game
  PROVE  LET f == Filled(g)
         IN  /\ f \in Game /\ Len(f.queue) > Preview
             /\ f.board = g.board /\ f.hold = g.hold /\ f.held = g.held
             /\ f.events = g.events /\ f.topOut = g.topOut
<1>1. g.queue \in Seq(BagPieces) /\ Len(g.queue) \in Nat
  <2>1. g.queue \in Seq(BagPieces)
    BY DEF Game
  <2> QED  BY <2>1, LenProperties
<1>2. CASE Len(g.queue) > Preview
  BY <1>2 DEF Filled
<1>3. CASE ~(Len(g.queue) > Preview)
  <2>1. PICK bags : bags = g.bags /\ bags \in Seq(Bag) /\ bags # << >>
    BY DEF Game
  <2>2. PICK bag \in Bag : bag = Head(bags)
    BY <2>1, HeadTailProperties
  <2>3. PICK later : later = Append(Tail(bags), bag) /\ later \in Seq(Bag) \ {<< >>}
    <3>1. Tail(bags) \in Seq(Bag)
      BY <2>1, HeadTailProperties
    <3>2. Append(Tail(bags), bag) \in Seq(Bag) /\ Append(Tail(bags), bag) # << >>
      BY <3>1, AppendProperties
    <3> QED  BY <3>2
  <2>4. PICK q \in Seq(BagPieces) : q = g.queue \o bag /\ Len(q) > Preview
    <3>1. bag \in Seq(BagPieces) /\ Len(bag) \in Nat /\ Len(bag) > Preview
      BY BagFills
    <3>2. PICK q : q = g.queue \o bag
      OBVIOUS
    <3>3. q \in Seq(BagPieces) /\ Len(q) = Len(g.queue) + Len(bag)
      BY <1>1, <3>1, <3>2, ConcatProperties
    <3>4. Len(q) > Preview
      BY <1>1, <3>1, <3>3, Constants
    <3> QED  BY <3>2, <3>3, <3>4
  <2>5. PICK f : f = [g EXCEPT !.queue = q, !.bags = later]
    OBVIOUS
  <2>6. Filled(g) = f
    BY <1>3, <2>1, <2>2, <2>3, <2>4, <2>5 DEF Filled
  <2>7. /\ f \in Game /\ f.queue = q
        /\ f.board = g.board /\ f.hold = g.hold /\ f.held = g.held
        /\ f.events = g.events /\ f.topOut = g.topOut
    BY <2>3, <2>5 DEF Game
  <2> QED  BY <2>4, <2>6, <2>7
<1> QED  BY <1>2, <1>3

(***************************************************************************)
(* A new piece comes with a new right to hold, and if it has no place the  *)
(* game is over.                                                           *)
(***************************************************************************)
LEMMA SpawnedKeeps ==
  ASSUME NEW g \in Game, NEW t \in BagPieces
  PROVE  LET s == Spawned(g, t)
         IN  /\ s \in Game /\ s.active \in Tetromino
             /\ s.board = g.board /\ s.queue = g.queue /\ s.hold = g.hold
             /\ s.held = g.held /\ s.events = g.events
             /\ s.holdUsed = FALSE /\ s.ground = 0
             /\ g.topOut => s.topOut
             /\ ~s.topOut => Fits(s, s.active)
             /\ g.board = {} /\ ~g.topOut => ~s.topOut
<1>1. PICK p \in Tetromino : p = SpawnPiece(t) /\ p \in Piece
  BY SpawnFits
<1>2. PICK over \in BOOLEAN : over = (g.topOut \/ ~Fits(g, p))
  OBVIOUS
<1>3. Spawned(g, t) = [g EXCEPT !.active = p, !.holdUsed = FALSE, !.gravity = 0, !.soft = 0,
                                !.ground = 0, !.kick = 0, !.topOut = over]
  BY <1>1, <1>2 DEF Spawned
<1> DEFINE s == Spawned(g, t)
<1>4. s \in Game
  <2>1. PICK h : h = [g EXCEPT !.active = p, !.holdUsed = FALSE, !.topOut = over]
    OBVIOUS
  <2>2. h \in Game
    BY <1>1, <2>1 DEF Game
  <2>3. [h EXCEPT !.gravity = 0, !.soft = 0, !.ground = 0, !.kick = 0] \in Game
    BY <2>2, Counters DEF Game
  <2>4. s = [h EXCEPT !.gravity = 0, !.soft = 0, !.ground = 0, !.kick = 0]
    BY <1>3, <2>1 DEF Game
  <2> QED  BY <2>3, <2>4
<1>5. /\ s.active = p /\ s.board = g.board /\ s.queue = g.queue /\ s.hold = g.hold
      /\ s.held = g.held /\ s.events = g.events
      /\ s.holdUsed = FALSE /\ s.ground = 0 /\ s.topOut = over
  BY <1>3 DEF Game
<1> HIDE DEF s
<1>6. g.topOut => over
  BY <1>2
<1>7. ~over => Fits(s, p)
  BY <1>2, <1>5 DEF Fits
<1>8. g.board = {} /\ ~g.topOut => ~over
  BY <1>1, <1>2, SpawnFits DEF Fits
<1> QED  BY <1>4, <1>5, <1>6, <1>7, <1>8 DEF s

(* Also when it is taken from the queue. *)
LEMMA SpawnedNextKeeps ==
  ASSUME NEW g \in Game, Len(g.queue) > Preview
  PROVE  LET s == SpawnedNext(g)
         IN  /\ s \in Game /\ s.active \in Tetromino /\ Len(s.queue) > Preview
             /\ s.board = g.board /\ s.hold = g.hold
             /\ s.held = g.held /\ s.events = g.events
             /\ s.holdUsed = FALSE /\ s.ground = 0
             /\ g.topOut => s.topOut
             /\ ~s.topOut => Fits(s, s.active)
             /\ g.board = {} /\ ~g.topOut => ~s.topOut
<1>1. PICK q : q = g.queue /\ q \in Seq(BagPieces) /\ q # << >>
  <2>1. g.queue \in Seq(BagPieces)
    BY DEF Game
  <2> QED  BY <2>1, Constants, LenProperties, EmptySeq
<1>2. PICK t \in BagPieces, rest \in Seq(BagPieces) : t = Head(q) /\ rest = Tail(q)
  BY <1>1, HeadTailProperties
<1>3. PICK h : h = [g EXCEPT !.queue = rest]
  OBVIOUS
<1>4. /\ h \in Game /\ h.board = g.board /\ h.hold = g.hold
      /\ h.held = g.held /\ h.events = g.events /\ h.topOut = g.topOut
  BY <1>3 DEF Game
<1>5. PICK f : f = Filled(h)
  OBVIOUS
<1>6. /\ f \in Game /\ Len(f.queue) > Preview
      /\ f.board = g.board /\ f.hold = g.hold /\ f.held = g.held
      /\ f.events = g.events /\ f.topOut = g.topOut
  BY <1>4, <1>5, FilledKeeps
<1>7. SpawnedNext(g) = Spawned(f, t)
  BY <1>1, <1>2, <1>3, <1>5 DEF SpawnedNext
<1> DEFINE s == Spawned(f, t)
<1>8. /\ s \in Game /\ s.active \in Tetromino
      /\ s.board = f.board /\ s.queue = f.queue /\ s.hold = f.hold
      /\ s.held = f.held /\ s.events = f.events
      /\ s.holdUsed = FALSE /\ s.ground = 0
      /\ f.topOut => s.topOut
      /\ ~s.topOut => Fits(s, s.active)
      /\ f.board = {} /\ ~f.topOut => ~s.topOut
  BY <1>6, SpawnedKeeps
<1> HIDE DEF s
<1> QED  BY <1>6, <1>7, <1>8 DEF s

(* A new game can be played. *)
LEMMA ResetSound ==
  ASSUME NEW seed \in Seed
  PROVE  Sound(Reset(seed)) /\ ~Reset(seed).topOut
<1> DEFINE e == [board |-> {}, active |-> NoPiece, queue |-> << >>, bags |-> seed,
                 hold |-> NoPiece, holdUsed |-> FALSE, held |-> 0, combo |-> -1,
                 backToBack |-> FALSE, gravity |-> 0, soft |-> 0, ground |-> 0, kick |-> 0,
                 topOut |-> FALSE, events |-> << >>]
<1>1. seed \in Seq(Bag) \ {<< >>}
  <2>1. PICK n \in Nat : n = Bags /\ n > 0
    BY EngineAssumption
  <2>2. seed \in [1 .. n -> Bag]
    BY <2>1 DEF Seed
  <2>3. seed \in Seq(Bag) /\ 1 \in DOMAIN seed
    BY <2>1, <2>2, SeqDef
  <2> QED  BY <2>3
<1>2. e \in Game /\ e.board = {} /\ e.held = 0 /\ e.topOut = FALSE
  <2>1. << >> \in Seq(BagPieces) /\ << >> \in Seq(Event)
    BY EmptySeq
  <2> QED  BY <1>1, <2>1, Counters DEF Game
<1>3. Reset(seed) = SpawnedNext(Filled(e))
  BY DEF Reset
<1> HIDE DEF e
<1>4. PICK f : f = Filled(e)
  OBVIOUS
<1>5. f \in Game /\ Len(f.queue) > Preview /\ f.board = {} /\ f.held = 0 /\ ~f.topOut
  BY <1>2, <1>4, FilledKeeps
<1> DEFINE s == SpawnedNext(f)
<1>6. /\ s \in Game /\ s.active \in Tetromino /\ Len(s.queue) > Preview
      /\ s.board = {} /\ s.held = 0 /\ s.ground = 0 /\ ~s.topOut /\ Fits(s, s.active)
  BY <1>5, SpawnedNextKeeps
<1> HIDE DEF s
<1>7. HiddenBlocks(s.board) = {}
  BY <1>6 DEF HiddenBlocks
<1>8. FullRows({}) = {}
  BY Constants DEF FullRows, Column
<1>9. Sound(s)
  BY <1>6, <1>7, <1>8, Constants DEF Sound, HoldSound, Playable, Placed
<1> QED  BY <1>3, <1>4, <1>6, <1>9 DEF s

-----------------------------------------------------------------------------
(* What a step tells. *)

(* No event tells of the end of the game. *)
Clean(events) == \A i \in DOMAIN events : events[i].type # "TopOut"

(***************************************************************************)
(* The events so far tell of the end of the game if there is one, last.    *)
(***************************************************************************)
Told(g) ==
  /\ g.topOut => g.events # << >> /\ g.events[Len(g.events)] = TopOutEvent
  /\ ~g.topOut => Clean(g.events)

(* Events that do not tell of the end, joined, do not either. *)
LEMMA JoinedClean ==
  ASSUME NEW s \in Seq(Event), NEW t \in Seq(Event), Clean(s), Clean(t)
  PROVE  s \o t \in Seq(Event) /\ Clean(s \o t)
<1> DEFINE u == s \o t
<1>1. /\ Len(s) \in Nat /\ DOMAIN s = 1 .. Len(s)
      /\ Len(t) \in Nat /\ DOMAIN t = 1 .. Len(t)
  BY LenProperties
<1>2. /\ u \in Seq(Event) /\ Len(u) = Len(s) + Len(t)
      /\ \A i \in 1 .. Len(s) + Len(t) :
           u[i] = IF i <= Len(s) THEN s[i] ELSE t[i - Len(s)]
  BY ConcatProperties
<1>3. DOMAIN u = 1 .. Len(s) + Len(t)
  BY <1>2, LenProperties
<1> HIDE DEF u
<1>4. ASSUME NEW i \in 1 .. Len(s) + Len(t)
      PROVE  u[i].type # "TopOut"
  <2>1. CASE i <= Len(s)
    BY <1>1, <1>2, <2>1 DEF Clean
  <2>2. CASE i > Len(s)
    <3>1. i - Len(s) \in 1 .. Len(t) /\ ~(i <= Len(s))
      BY <1>1, <2>2
    <3> QED  BY <1>1, <1>2, <3>1 DEF Clean
  <2> QED  BY <1>1, <2>1, <2>2
<1>5. Clean(u)
  BY <1>3, <1>4 DEF Clean
<1> QED  BY <1>2, <1>5 DEF u

(* A sequence of one event. *)
LEMMA OneEvent ==
  ASSUME NEW e \in Event
  PROVE  /\ << e >> \in Seq(Event) /\ Len(<< e >>) = 1
         /\ e.type # "TopOut" => Clean(<< e >>)
BY DEF Clean

(* To add the end of the game to the events, if there is one, is to tell. *)
LEMMA EndTold ==
  ASSUME NEW g \in Game, Clean(g.events)
  PROVE  LET h == [g EXCEPT !.events = @ \o TopOutEvents(g)]
         IN  /\ h \in Game /\ Told(h)
             /\ h.board = g.board /\ h.active = g.active /\ h.queue = g.queue
             /\ h.held = g.held /\ h.holdUsed = g.holdUsed /\ h.hold = g.hold
             /\ h.ground = g.ground /\ h.topOut = g.topOut
<1> DEFINE h == [g EXCEPT !.events = @ \o TopOutEvents(g)]
           t == TopOutEvents(g)
<1>1. g.events \in Seq(Event)
  BY DEF Game
<1>2. TopOutEvent \in Event
  BY DEF Event
<1>3. t \in Seq(Event)
  BY <1>2, OneEvent, EmptySeq DEF TopOutEvents
<1>4. PICK ev \in Seq(Event) : ev = g.events \o t
  BY <1>1, <1>3, ConcatProperties
<1>5. /\ h \in Game /\ h.events = ev
      /\ h.board = g.board /\ h.active = g.active /\ h.queue = g.queue
      /\ h.held = g.held /\ h.holdUsed = g.holdUsed /\ h.hold = g.hold
      /\ h.ground = g.ground /\ h.topOut = g.topOut
  BY <1>4 DEF Game
<1> HIDE DEF h
<1>6. CASE g.topOut
  <2>1. t = << TopOutEvent >>
    BY <1>6 DEF TopOutEvents
  <2>2. Len(t) = 1 /\ t[1] = TopOutEvent
    BY <1>2, <2>1, OneEvent
  <2>3. /\ Len(ev) = Len(g.events) + 1 /\ Len(g.events) \in Nat
        /\ ev[Len(g.events) + 1] = t[1]
    <3>1. PICK s : s = g.events /\ s \in Seq(Event)
      BY <1>1
    <3>2. /\ Len(s \o t) = Len(s) + Len(t) /\ Len(s) \in Nat
          /\ \A i \in 1 .. Len(s) + Len(t) :
               (s \o t)[i] = IF i <= Len(s) THEN s[i] ELSE t[i - Len(s)]
      BY <1>3, <3>1, ConcatProperties, LenProperties
    <3>3. /\ Len(s) + 1 \in 1 .. Len(s) + Len(t) /\ ~(Len(s) + 1 <= Len(s))
          /\ Len(s) + 1 - Len(s) = 1
      BY <2>2, <3>2
    <3>4. (s \o t)[Len(s) + 1] = t[1]
      BY <3>2, <3>3
    <3> QED  BY <1>4, <2>2, <3>1, <3>2, <3>4
  <2>4. ev # << >> /\ ev[Len(ev)] = TopOutEvent
    BY <2>2, <2>3, EmptySeq
  <2> QED  BY <1>5, <1>6, <2>4 DEF Told, h
<1>7. CASE ~g.topOut
  <2>1. t = << >>
    BY <1>7 DEF TopOutEvents
  <2>2. ev = g.events
    BY <1>1, <1>4, <2>1, ConcatEmptySeq
  <2> QED  BY <1>5, <1>7, <2>2 DEF Told, h
<1> QED  BY <1>6, <1>7

-----------------------------------------------------------------------------
(* The lock of a piece. *)

(* A game whose piece can be locked. *)
Lockable(g) ==
  g \in Game /\ Len(g.queue) > Preview /\ Placed(g) /\ ~g.topOut /\ Told(g)

(***************************************************************************)
(* A lock leaves a board without blocks in the hidden rows, or the end of  *)
(* the game.                                                               *)
(***************************************************************************)
LEMMA LockKeeps ==
  ASSUME NEW g, Lockable(g)
  PROVE  Sound(Lock(g)) /\ Told(Lock(g))
<1> DEFINE filled == g.board \union Cells(g.active)
           lines == Cardinality(FullRows(filled))
           tSpin == TSpin(g)
           difficult == lines = 4 \/ tSpin # "NONE"
           clear == ClearEvent(lines, tSpin, g.combo + 1, difficult /\ g.backToBack)
           locked == [g EXCEPT
             !.board = Cleared(filled),
             !.active = NoPiece, !.held = 0,
             !.combo = IF lines > 0 THEN @ + 1 ELSE -1,
             !.backToBack = IF lines > 0 THEN difficult ELSE @,
             !.events = @ \o << PieceLockedEvent >> \o IF lines > 0 THEN << clear >> ELSE << >>]
           next == IF HiddenBlocks(Cells(g.active)) # {} THEN [locked EXCEPT !.topOut = TRUE]
                   ELSE SpawnedNext(locked)
<1>1. Lock(g) = [next EXCEPT !.events = @ \o TopOutEvents(next)]
  BY DEF Lock
<1>2. /\ g \in Game /\ g.board \in SUBSET Grid /\ g.active \in Tetromino
      /\ Cells(g.active) \subseteq Grid /\ HiddenBlocks(g.board) = {}
      /\ g.events \in Seq(Event) /\ Clean(g.events) /\ Len(g.queue) > Preview
  BY DEF Lockable, Placed, Game, Fits, CanPlace, Told
<1>3. PICK board \in SUBSET Grid : board = Cleared(filled) /\ FullRows(board) = {}
  BY <1>2, ClearedBoard, ClearedFullRows
<1>4. lines \in Nat
  BY <1>2, ClearedBoard
<1>5. PICK combo \in Combo : combo = IF lines > 0 THEN g.combo + 1 ELSE -1
  <2>1. g.combo \in Combo
    BY <1>2 DEF Game
  <2> QED  BY <2>1, Counters
<1>6. PICK b2b \in BOOLEAN : b2b = IF lines > 0 THEN difficult ELSE g.backToBack
  <2>1. difficult \in BOOLEAN /\ g.backToBack \in BOOLEAN
    BY <1>2 DEF Game
  <2> HIDE DEF difficult
  <2> QED  BY <2>1
<1>7. clear \in Event /\ clear.type = "Clear"
  <2>1. tSpin \in {"NONE", "MINI", "FULL"}
    BY DEF TSpin
  <2>2. PICK c \in Int, d \in BOOLEAN : c = g.combo + 1 /\ d = (difficult /\ g.backToBack)
    <3>1. g.combo + 1 \in Int
      <4>1. g.combo \in Combo
        BY <1>2 DEF Game
      <4> QED  BY <4>1, Counters
    <3>2. (difficult /\ g.backToBack) \in BOOLEAN
      OBVIOUS
    <3> QED  BY <3>1, <3>2
  <2>3. clear = [type |-> "Clear", lines |-> lines, tSpin |-> tSpin, combo |-> c,
                 backToBack |-> d]
    BY <2>2 DEF ClearEvent
  <2> HIDE DEF lines, tSpin, difficult, clear
  <2> QED  BY <1>4, <2>1, <2>3 DEF Event
<1> DEFINE more == IF lines > 0 THEN << clear >> ELSE << >>
<1>8. more \in Seq(Event) /\ Clean(more)
  <2>1. << >> \in Seq(Event) /\ Clean(<< >>)
    BY EmptySeq DEF Clean
  <2> HIDE DEF clear, lines
  <2>2. << clear >> \in Seq(Event) /\ Clean(<< clear >>)
    BY <1>7, OneEvent
  <2> QED  BY <2>1, <2>2
<1> HIDE DEF clear, more
<1>9. PICK ev \in Seq(Event) : ev = g.events \o << PieceLockedEvent >> \o more /\ Clean(ev)
  <2>1. PieceLockedEvent \in Event /\ PieceLockedEvent.type # "TopOut"
    BY DEF Event, PieceLockedEvent
  <2>2. << PieceLockedEvent >> \in Seq(Event) /\ Clean(<< PieceLockedEvent >>)
    BY <2>1, OneEvent
  <2>3. /\ g.events \o << PieceLockedEvent >> \in Seq(Event)
        /\ Clean(g.events \o << PieceLockedEvent >>)
    BY <1>2, <2>2, JoinedClean
  <2> QED  BY <1>8, <2>3, JoinedClean
<1>10. locked = [g EXCEPT !.board = board, !.active = NoPiece, !.held = 0, !.combo = combo,
                          !.backToBack = b2b, !.events = ev]
  BY <1>3, <1>5, <1>6, <1>9 DEF more, clear
<1> HIDE DEF filled, lines, tSpin, difficult, locked
<1>11. /\ locked \in Game /\ locked.board = board /\ locked.queue = g.queue
       /\ locked.held = 0 /\ locked.events = ev /\ locked.topOut = g.topOut
  <2>1. PICK h : h = [g EXCEPT !.board = board, !.active = NoPiece, !.held = 0]
    OBVIOUS
  <2>2. h \in Game
    BY <1>2, <2>1 DEF Game
  <2>3. [h EXCEPT !.combo = combo, !.backToBack = b2b, !.events = ev] \in Game
    BY <2>2 DEF Game
  <2>4. locked = [h EXCEPT !.combo = combo, !.backToBack = b2b, !.events = ev]
    BY <1>2, <1>10, <2>1 DEF Game
  <2>5. /\ locked.board = board /\ locked.queue = g.queue
        /\ locked.held = 0 /\ locked.events = ev /\ locked.topOut = g.topOut
    BY <1>2, <1>10 DEF Game
  <2> QED  BY <2>3, <2>4, <2>5
<1>12. /\ next \in Game /\ Len(next.queue) > Preview /\ next.held = 0 /\ next.events = ev
       /\ next.board = board
       /\ ~next.topOut => Playable(next)
  <2>1. CASE HiddenBlocks(Cells(g.active)) # {}
    <3>1. next = [locked EXCEPT !.topOut = TRUE]
      BY <2>1
    <3> HIDE DEF next
    <3>2. /\ next \in Game /\ next.queue = g.queue /\ next.held = 0 /\ next.events = ev
          /\ next.board = board
          /\ next.topOut = TRUE
      BY <1>11, <3>1 DEF Game
    <3> QED  BY <1>2, <3>2
  <2>2. CASE HiddenBlocks(Cells(g.active)) = {}
    <3>1. next = SpawnedNext(locked)
      BY <2>2
    <3> HIDE DEF next
    <3>2. /\ next \in Game /\ next.active \in Tetromino /\ Len(next.queue) > Preview
          /\ next.board = board /\ next.held = 0 /\ next.events = ev /\ next.ground = 0
          /\ ~next.topOut => Fits(next, next.active)
      BY <1>2, <1>11, <3>1, SpawnedNextKeeps
    <3>3. HiddenBlocks(board) = {}
      <4>1. filled \in SUBSET Grid /\ HiddenBlocks(filled) = {}
        BY <1>2, <2>2 DEF filled, HiddenBlocks
      <4> QED  BY <1>3, <4>1, ClearedBoard
    <3> QED  BY <3>2, <3>3, Constants DEF Playable, Placed
  <2> QED  BY <2>1, <2>2
<1> HIDE DEF next
<1> DEFINE h == [next EXCEPT !.events = @ \o TopOutEvents(next)]
<1>13. /\ h \in Game /\ Told(h)
       /\ h.board = next.board /\ h.active = next.active /\ h.queue = next.queue
       /\ h.held = next.held /\ h.ground = next.ground /\ h.topOut = next.topOut
  BY <1>9, <1>12, EndTold
<1> HIDE DEF h
<1>14. Sound(h)
  BY <1>3, <1>12, <1>13 DEF Sound, HoldSound, Playable, Placed, Fits
<1> QED  BY <1>1, <1>12, <1>13, <1>14 DEF h

-----------------------------------------------------------------------------
(* The actions of a tick. *)

(* A move keeps a game that is on sound. *)
LEMMA MovedKeeps ==
  ASSUME NEW g, Sound(g), ~g.topOut, Told(g), NEW h, Moved(g, h)
  PROVE  /\ h.ground < LockTicks => Sound(h)
         /\ Told(h) /\ ~h.topOut /\ Lockable(h)
BY DEF Sound, Told, Moved, Frame, HoldSound, Playable, Placed, Lockable

(* hold: the right to it is used up, for the next piece too. *)
LEMMA HoldKeeps ==
  ASSUME NEW g, Sound(g), ~g.topOut, Told(g)
  PROVE  Sound(Hold(g)) /\ Told(Hold(g))
<1>1. /\ g \in Game /\ g.active \in Tetromino /\ HiddenBlocks(g.board) = {}
      /\ g.hold \in BagPieces \union {NoPiece} /\ Clean(g.events)
      /\ Len(g.queue) > Preview
  BY DEF Sound, Playable, Placed, Game, Told
<1>2. CASE g.holdUsed
  <2>1. Hold(g) = g
    BY <1>2 DEF Hold
  <2> QED  BY <2>1
<1>3. CASE ~g.holdUsed
  <2> DEFINE next == IF g.hold = NoPiece THEN SpawnedNext(g) ELSE Spawned(g, g.hold)
             told == [next EXCEPT !.events = @ \o TopOutEvents(next)]
  <2>1. g.held = 0
    BY <1>3 DEF Sound, HoldSound
  <2>2. /\ next \in Game /\ next.active \in Tetromino /\ Len(next.queue) > Preview
        /\ next.board = g.board /\ next.held = 0 /\ next.events = g.events
        /\ next.ground = 0
        /\ ~next.topOut => Fits(next, next.active)
    <3>1. CASE g.hold = NoPiece
      <4>1. next = SpawnedNext(g)
        BY <3>1
      <4> HIDE DEF next
      <4> QED  BY <1>1, <2>1, <4>1, SpawnedNextKeeps
    <3>2. CASE g.hold # NoPiece
      <4>1. next = Spawned(g, g.hold)
        BY <3>2
      <4>2. PICK t \in BagPieces : t = g.hold
        BY <1>1, <3>2
      <4> HIDE DEF next
      <4> QED  BY <1>1, <2>1, <4>1, <4>2, SpawnedKeeps
    <3> QED  BY <3>1, <3>2
  <2>3. PICK t \in BagPieces : t = g.active.type
    BY <1>1 DEF Tetromino
  <2>4. Hold(g) = [next EXCEPT !.hold = t, !.holdUsed = TRUE, !.held = @ + 1,
                                    !.events = @ \o TopOutEvents(next)]
    BY <1>3, <2>3 DEF Hold
  <2> HIDE DEF next
  <2>41. PICK ev : ev = next.events \o TopOutEvents(next)
    OBVIOUS
  <2>42. next.held + 1 = 1
    BY <2>2
  <2>43. Hold(g) = [next EXCEPT !.hold = t, !.holdUsed = TRUE, !.held = 1, !.events = ev]
    BY <2>4, <2>41, <2>42
  <2>44. told = [next EXCEPT !.events = ev]
    BY <2>41
  <2>5. /\ told \in Game /\ Told(told)
        /\ told.board = next.board /\ told.active = next.active
        /\ told.queue = next.queue /\ told.ground = next.ground
        /\ told.topOut = next.topOut
    BY <1>1, <2>2, EndTold
  <2>6. Hold(g) = [told EXCEPT !.hold = t, !.holdUsed = TRUE, !.held = 1]
    BY <2>2, <2>43, <2>44 DEF Game
  <2> HIDE DEF told
  <2>7. PICK h : h = [told EXCEPT !.hold = t, !.holdUsed = TRUE, !.held = 1]
    OBVIOUS
  <2>8. /\ h \in Game
        /\ h.board = told.board /\ h.active = told.active /\ h.queue = told.queue
        /\ h.ground = told.ground /\ h.topOut = told.topOut /\ h.events = told.events
        /\ h.holdUsed = TRUE
    BY <2>5, <2>7 DEF Game
  <2>9. Sound(h)
    BY <1>1, <2>2, <2>5, <2>8, Constants DEF Sound, HoldSound, Playable, Placed, Fits
  <2>10. Told(h)
    BY <2>5, <2>8 DEF Told
  <2> QED  BY <2>2, <2>5, <2>6, <2>7, <2>8, <2>9, <2>10
<1> QED  BY <1>2, <1>3

(* Any action keeps a game sound, and tells of its end. *)
LEMMA ApplyKeeps ==
  ASSUME NEW g, Sound(g), Told(g), NEW a \in Action
  PROVE  Sound(Apply(g, a)) /\ Told(Apply(g, a))
<1>1. CASE g.topOut
  BY <1>1 DEF Apply
<1>2. CASE ~g.topOut
  <2>1. g \in Game /\ g.active \in Tetromino /\ Fits(g, g.active) /\ g.ground < LockTicks
    BY <1>2 DEF Sound, Playable, Placed
  <2>2. PICK r \in Rotation : r = g.active.rotation
    BY <2>1 DEF Tetromino
  <2>3. RotateCw(r) \in Rotation /\ RotateCcw(r) \in Rotation
    BY DEF Rotation, RotateCw, RotateCcw
  <2>4. ASSUME NEW h, Moved(g, h), h.ground \in {0, g.ground}
        PROVE  Sound(h) /\ Told(h)
    <3>1. h.ground < LockTicks
      BY <2>1, <2>4, Constants
    <3> QED  BY <1>2, <2>4, <3>1, MovedKeeps
  <2>5. CASE a = "MOVE_LEFT"
    BY <1>2, <2>1, <2>4, <2>5, SidewaysMoves DEF Apply
  <2>6. CASE a = "MOVE_RIGHT"
    BY <1>2, <2>1, <2>4, <2>6, SidewaysMoves DEF Apply
  <2>7. CASE a = "SOFT_DROP"
    BY <1>2, <2>1, <2>4, <2>7, FallenMoves DEF Apply
  <2>8. CASE a = "HARD_DROP"
    <3>1. PICK h : h = Fallen(g, Total)
      OBVIOUS
    <3>2. Moved(g, h)
      BY <2>1, <3>1, FallenMoves, Constants
    <3>3. Lockable(h)
      BY <1>2, <3>2, MovedKeeps
    <3>4. Apply(g, a) = Lock(h)
      BY <1>2, <2>8, <3>1 DEF Apply, HardDrop
    <3> QED  BY <3>3, <3>4, LockKeeps
  <2>9. CASE a = "ROTATE_CW"
    BY <1>2, <2>1, <2>2, <2>3, <2>4, <2>9, TurnMoves DEF Apply
  <2>10. CASE a = "ROTATE_CCW"
    BY <1>2, <2>1, <2>2, <2>3, <2>4, <2>10, TurnMoves DEF Apply
  <2>11. CASE a = "HOLD"
    BY <1>2, <2>11, HoldKeeps DEF Apply
  <2> QED  BY <2>5, <2>6, <2>7, <2>8, <2>9, <2>10, <2>11 DEF Action
<1> QED  BY <1>1, <1>2

-----------------------------------------------------------------------------
(* Gravity. *)

(* What falls by soft drop uses no more progress than there is. *)
LEMMA ProgressLeft ==
  ASSUME NEW p \in Nat, NEW k \in Nat, k > 0, NEW rows \in 0 .. p \div k
  PROVE  p - rows * k \in Nat
<1>1. PICK q \in Nat : q = p \div k
  OBVIOUS
<1>2. q * k <= p
  BY <1>1
<1>3. rows * k <= q * k
  BY <1>1
<1> QED  BY <1>2, <1>3

(* To set the progress of soft drop after a move is a move. *)
LEMMA SoftSet ==
  ASSUME NEW g, NEW h, Moved(g, h), NEW n \in Nat, NEW i, i = [h EXCEPT !.soft = n]
  PROVE  Moved(g, i) /\ i.ground = h.ground
BY DEF Moved, Frame, Fits, Game

(* So it is to set that of gravity. *)
LEMMA GravitySet ==
  ASSUME NEW g, NEW h, Moved(g, h), NEW n \in GravityTick, NEW i, i = [h EXCEPT !.gravity = n]
  PROVE  Moved(g, i) /\ i.ground = h.ground
BY DEF Moved, Frame, Fits, Game

(* So it is to set the ticks on the ground. *)
LEMMA GroundSet ==
  ASSUME NEW g, NEW h, Moved(g, h), NEW n \in GroundTick, NEW i, i = [h EXCEPT !.ground = n]
  PROVE  Moved(g, i) /\ i.ground = n
BY DEF Moved, Frame, Fits, Game

(* A move after a move. *)
LEMMA MovedTwice ==
  ASSUME NEW g, NEW h, NEW i, Moved(g, h), Moved(h, i)
  PROVE  Moved(g, i)
BY DEF Moved, Frame

(* Soft drop by its progress. *)
LEMMA SoftDroppedMoves ==
  ASSUME NEW g \in Game, g.active \in Tetromino, Fits(g, g.active)
  PROVE  Moved(g, SoftDropped(g)) /\ SoftDropped(g).ground = g.ground
<1>1. PICK p \in Nat : p = g.soft + 1
  BY DEF Game
<1>2. PICK n \in Nat : n = p \div SoftTicks
  BY Constants
<1>3. PICK rows \in 0 .. n : rows = RowsFallen(g, n)
  BY RowsFallenFits
<1>4. PICK left \in Nat : left = p - rows * SoftTicks
  BY <1>2, Constants, ProgressLeft
<1>5. PICK h : h = Fallen(g, rows)
  OBVIOUS
<1>6. PICK i : i = [h EXCEPT !.soft = left]
  OBVIOUS
<1>7. SoftDropped(g) = i
  BY <1>1, <1>2, <1>3, <1>4, <1>5, <1>6 DEF SoftDropped
<1>8. rows \in Nat
  OBVIOUS
<1>9. Moved(g, h) /\ h.ground = g.ground
  BY <1>5, <1>8, FallenMoves
<1> QED  BY <1>6, <1>7, <1>9, SoftSet

(* Gravity moves the piece, at its ticks. *)
LEMMA PulledMoves ==
  ASSUME NEW g \in Game, g.active \in Tetromino, Fits(g, g.active)
  PROVE  Moved(g, Pulled(g)) /\ Pulled(g).ground = g.ground
<1>1. PICK n \in Nat : n = g.gravity + 1
  <2>1. g.gravity \in GravityTick
    BY DEF Game
  <2> QED  BY <2>1, Counters
<1>2. Moved(g, g)
  BY DEF Moved, Frame
<1>3. PICK h : h = Fallen(g, 1)
  OBVIOUS
<1>4. Moved(g, h) /\ h.ground = g.ground
  BY <1>3, FallenMoves
<1>5. CASE n < GravityTicks
  <2>1. Pulled(g) = [g EXCEPT !.gravity = n]
    BY <1>1, <1>5 DEF Pulled
  <2>2. n \in GravityTick
    BY <1>1, <1>5, Constants DEF GravityTick
  <2> QED  BY <1>2, <2>1, <2>2, GravitySet
<1>6. CASE ~(n < GravityTicks)
  <2>1. Pulled(g) = [h EXCEPT !.gravity = 0]
    BY <1>1, <1>3, <1>6 DEF Pulled
  <2> QED  BY <1>4, <2>1, Counters, GravitySet
<1> QED  BY <1>5, <1>6

(***************************************************************************)
(* After the actions gravity moves the piece, or locks it.                 *)
(***************************************************************************)
LEMMA GravityKeeps ==
  ASSUME NEW g, Sound(g), ~g.topOut, Told(g), NEW soft \in BOOLEAN
  PROVE  LET h == AdvanceGravity(g, soft)
         IN  Sound(h) /\ Told(h)
<1>1. /\ g \in Game /\ g.active \in Tetromino /\ Fits(g, g.active)
      /\ g.ground \in Nat /\ g.ground < LockTicks
  <2>1. g.ground \in GroundTick
    BY DEF Sound, Game
  <2> QED  BY <2>1, Counters DEF Sound, Playable, Placed
<1>2. PICK s : s = IF soft THEN SoftDropped(g) ELSE [g EXCEPT !.soft = 0]
  OBVIOUS
<1>3. Moved(g, s) /\ s.ground = g.ground
  <2>1. Moved(g, g)
    BY <1>1 DEF Moved, Frame
  <2>2. CASE soft
    BY <1>1, <1>2, <2>2, SoftDroppedMoves
  <2>3. CASE ~soft
    <3>1. s = [g EXCEPT !.soft = 0]
      BY <1>2, <2>3
    <3> QED  BY <2>1, <3>1, SoftSet
  <2> QED  BY <2>2, <2>3
<1>4. PICK pulled : pulled = Pulled(s)
  OBVIOUS
<1>5. Moved(g, pulled) /\ pulled.ground = g.ground
  <2>1. Moved(s, pulled) /\ pulled.ground = s.ground
    BY <1>3, <1>4, PulledMoves DEF Moved
  <2> QED  BY <1>3, <2>1, MovedTwice
<1>6. PICK n \in GroundTick : n = g.ground + 1 /\ n \in Nat
  <2>1. g.ground + 1 \in 0 .. LockTicks
    BY <1>1, Constants
  <2> QED  BY <2>1, Constants DEF GroundTick
<1>7. PICK grounded : grounded = [pulled EXCEPT !.ground = n]
  OBVIOUS
<1>8. Moved(g, grounded) /\ grounded.ground = n
  BY <1>5, <1>7, GroundSet
<1>9. AdvanceGravity(g, soft) =
        IF CanFall(pulled) THEN [pulled EXCEPT !.ground = 0]
        ELSE IF n >= LockTicks THEN Lock(grounded) ELSE grounded
  BY <1>2, <1>4, <1>5, <1>6, <1>7, <1>8 DEF AdvanceGravity
<1>10. Sound([pulled EXCEPT !.ground = 0]) /\ Told([pulled EXCEPT !.ground = 0])
  <2>1. PICK h : h = [pulled EXCEPT !.ground = 0]
    OBVIOUS
  <2>2. Moved(g, h) /\ h.ground < LockTicks
    BY <1>5, <2>1, Counters, Constants, GroundSet
  <2> QED  BY <2>1, <2>2, MovedKeeps
<1>11. /\ Lockable(grounded) /\ Told(grounded)
       /\ ~(n >= LockTicks) => Sound(grounded)
  <2>1. ~(n >= LockTicks) => n < LockTicks
    BY <1>6, Constants
  <2> QED  BY <1>8, <2>1, MovedKeeps
<1> QED  BY <1>9, <1>10, <1>11, LockKeeps

-----------------------------------------------------------------------------
(* The step. *)

(* The actions of a tick, one after the other. *)
Acting == INSTANCE FoldTheorems WITH Op <- Apply

(* What is pulled is a sequence of actions, of whatever length. *)
LEMMA BatchOfActions == Batch \subseteq Seq(Action)
<1>1. ASSUME NEW keys \in Pressed
      PROVE  keys \in Seq(Action)
  <2>1. PICK n \in Nat : keys \in [1 .. n -> Action]
    BY PlayAssumption DEF Pressed, SeqOf
  <2> QED  BY <2>1, SeqDef
<1>2. "SOFT_DROP" \in Action
  BY DEF Action
<1>3. \A keys \in Seq(Action) : Append(keys, "SOFT_DROP") \in Seq(Action)
  BY <1>2, AppendProperties
<1> QED  BY <1>1, <1>3 DEF Batch

(***************************************************************************)
(* The actions of a tick keep a game sound, however many they are and      *)
(* however many pieces lock among them.                                    *)
(***************************************************************************)
LEMMA BatchKeeps ==
  ASSUME NEW g, Sound(g), Told(g), NEW batch \in Seq(Action)
  PROVE  LET h == FoldLeft(Apply, g, batch)
         IN  Sound(h) /\ Told(h)
<1> DEFINE T == {h \in Game : Sound(h) /\ Told(h)}
<1>1. \A h : h \in T <=> Sound(h) /\ Told(h)
  BY DEF Sound
<1> HIDE DEF T
<1>2. g \in T
  BY <1>1
<1>3. \A h \in T, a \in Action : Apply(h, a) \in T
  BY <1>1, ApplyKeeps
<1>4. FoldLeft(Apply, g, batch) = Acting!Folded(g, batch)
  BY DEF Acting!Folded, FoldLeft, Acting!FoldLeft, MapThenFoldSet, Acting!MapThenFoldSet,
         Max, Acting!Max
<1>5. Acting!Folded(g, batch) \in T
  BY <1>2, <1>3, Acting!FoldInduction
<1> QED  BY <1>1, <1>4, <1>5

(***************************************************************************)
(* A step keeps a game sound, and tells of its end.                        *)
(***************************************************************************)
LEMMA StepKeeps ==
  ASSUME NEW g, Sound(g), ~g.topOut, NEW batch \in Seq(Action)
  PROVE  Sound(Step(g, batch)) /\ Told(Step(g, batch))
<1>1. PICK base : base = [g EXCEPT !.events = << >>]
  OBVIOUS
<1>2. g \in Game /\ g.queue \in Seq(BagPieces) /\ << >> \in Seq(Event)
  BY EmptySeq DEF Sound, Game
<1>3. /\ base \in Game /\ base.events = << >> /\ base.topOut = FALSE
      /\ base.queue = g.queue /\ base.holdUsed = g.holdUsed /\ base.held = g.held
      /\ base.board = g.board /\ base.active = g.active /\ base.ground = g.ground
  BY <1>1, <1>2 DEF Game
<1>4. Sound(base) /\ Told(base)
  <2>1. Told(base)
    BY <1>3 DEF Told, Clean
  <2>2. Sound(base)
    BY <1>3 DEF Sound, HoldSound, Playable, Placed, Fits
  <2> QED  BY <2>1, <2>2
<1>5. PICK acted : acted = FoldLeft(Apply, base, batch)
  OBVIOUS
<1>6. Sound(acted) /\ Told(acted)
  BY <1>4, <1>5, BatchKeeps
<1> DEFINE soft == "SOFT_DROP" \in ToSet(batch)
<1>7. soft \in BOOLEAN
  OBVIOUS
<1>8. Step(g, batch) = IF acted.topOut THEN acted ELSE AdvanceGravity(acted, soft)
  BY <1>1, <1>5 DEF Step
<1> HIDE DEF soft
<1>9. ~acted.topOut => Sound(AdvanceGravity(acted, soft)) /\ Told(AdvanceGravity(acted, soft))
  BY <1>6, <1>7, GravityKeeps
<1> QED  BY <1>6, <1>8, <1>9

-----------------------------------------------------------------------------
(* Garbage. *)

(* Garbage that waits. *)
Incoming == [lines : 1 .. MaxGarbage, hole : Holes]

Entering == INSTANCE FoldTheorems WITH Op <- GarbageEntered

Canceling == INSTANCE FoldTheorems WITH Op <- Cancels

(* A piece that gives way to no garbage fits, or the game is over. *)
LEMMA GarbageKeeps ==
  ASSUME NEW g, Sound(g), NEW e \in Incoming
  PROVE  Sound(GarbageEntered(g, e)) /\ (g.topOut => GarbageEntered(g, e).topOut)
<1>1. g \in Game /\ g.board \in SUBSET Grid /\ e.lines \in Nat /\ e.hole \in Column
  <2>1. \A n \in 1 .. MaxGarbage : n \in Nat
    BY PlayAssumption
  <2> QED  BY <2>1, PlayAssumption DEF Sound, Game, Incoming
<1>2. PICK board \in SUBSET Grid :
        board = WithGarbage(g.board, e.lines, e.hole) /\ FullRows(board) = {}
  BY <1>1, GarbageBoard, GarbageFullRows DEF Sound
<1>3. PICK over \in BOOLEAN :
        over = (\/ g.topOut \/ HiddenBlocks(board) # {}
                \/ g.active # NoPiece /\ ~CanPlace(board, Cells(g.active)))
  OBVIOUS
<1>4. PICK h : h = [g EXCEPT !.board = board, !.topOut = over]
  OBVIOUS
<1>5. GarbageEntered(g, e) = h
  BY <1>2, <1>3, <1>4 DEF GarbageEntered, ApplyGarbage
<1>6. /\ h \in Game /\ h.board = board /\ h.topOut = over
      /\ h.active = g.active /\ h.queue = g.queue /\ h.ground = g.ground
      /\ h.holdUsed = g.holdUsed /\ h.held = g.held
  BY <1>1, <1>4 DEF Game
<1>7. ~over => Playable(h)
  <2> SUFFICES ASSUME ~over PROVE Playable(h)
    OBVIOUS
  <2>1. g.active \in Tetromino /\ g.ground < LockTicks
    BY <1>3 DEF Sound, Playable, Placed
  <2>2. g.active # NoPiece
    BY <2>1, EngineAssumption DEF Tetromino
  <2> QED  BY <1>3, <1>6, <2>1, <2>2 DEF Playable, Placed, Fits
<1>8. g.topOut => over
  BY <1>3
<1>9. Sound(h)
  BY <1>2, <1>6, <1>7 DEF Sound, HoldSound
<1> QED  BY <1>5, <1>6, <1>8, <1>9

(* The garbage of a lock, one injection after the other. *)
LEMMA AllGarbageKeeps ==
  ASSUME NEW g, Sound(g), NEW waiting \in Seq(Incoming), waiting = session.garbage
  PROVE  Sound(WithAllGarbage(g)) /\ (g.topOut => WithAllGarbage(g).topOut)
<1> DEFINE T == {h \in Game : Sound(h) /\ (g.topOut => h.topOut)}
<1>1. \A h : h \in T <=> Sound(h) /\ (g.topOut => h.topOut)
  BY DEF Sound
<1> HIDE DEF T
<1>2. g \in T
  BY <1>1
<1>3. \A h \in T, e \in Incoming : GarbageEntered(h, e) \in T
  BY <1>1, GarbageKeeps
<1>4. WithAllGarbage(g) = Entering!Folded(g, waiting)
  BY DEF WithAllGarbage, Entering!Folded, FoldLeft, Entering!FoldLeft, MapThenFoldSet,
         Entering!MapThenFoldSet, Max, Entering!Max
<1>5. Entering!Folded(g, waiting) \in T
  BY <1>2, <1>3, Entering!FoldInduction
<1> QED  BY <1>1, <1>4, <1>5

(* What is left of the garbage that waits. *)
LEMMA CanceledLeaves ==
  ASSUME NEW waiting \in Seq(Incoming), NEW canceled \in Nat
  PROVE  Canceled(waiting, canceled) \in Seq(Incoming)
<1> DEFINE T == [left : Nat, kept : Seq(Incoming)]
           base == [left |-> canceled, kept |-> << >>]
<1>1. base \in T
  BY EmptySeq
<1>2. ASSUME NEW r \in T, NEW e \in Incoming
      PROVE  Cancels(r, e) \in T
  <2>1. PICK n \in Nat : n = e.lines /\ n \in 1 .. MaxGarbage
    BY PlayAssumption DEF Incoming
  <2>2. PICK left \in Nat : left = r.left
    BY DEF T
  <2>3. PICK c \in Nat : c = (IF left < n THEN left ELSE n) /\ c <= left /\ c <= n
    OBVIOUS
  <2>4. PICK lines \in Nat : lines = n - c /\ (lines > 0 => lines \in 1 .. MaxGarbage)
    BY <2>1, <2>3, PlayAssumption
  <2>5. PICK d \in Nat : d = left - c
    BY <2>2, <2>3
  <2>6. Cancels(r, e) =
          [left |-> d,
           kept |-> IF lines > 0 THEN Append(r.kept, [e EXCEPT !.lines = lines]) ELSE r.kept]
    BY <2>1, <2>2, <2>3, <2>4, <2>5 DEF Cancels
  <2>7. lines > 0 => [e EXCEPT !.lines = lines] \in Incoming
    BY <2>4 DEF Incoming
  <2>8. lines > 0 => Append(r.kept, [e EXCEPT !.lines = lines]) \in Seq(Incoming)
    BY <2>7, AppendProperties
  <2> QED  BY <2>6, <2>8
<1>3. Canceled(waiting, canceled) = Canceling!Folded(base, waiting).kept
  BY DEF Canceled, Canceling!Folded, FoldLeft, Canceling!FoldLeft, MapThenFoldSet,
         Canceling!MapThenFoldSet, Max, Canceling!Max
<1> HIDE DEF base
<1>4. Canceling!Folded(base, waiting) \in T
  <2> HIDE DEF T
  <2> QED  BY <1>1, <1>2, Canceling!FoldInduction
<1> QED  BY <1>3, <1>4

-----------------------------------------------------------------------------
(* What the session makes of the events of a step. *)

Handling == INSTANCE FoldTheorems WITH Op <- EventHandled

(* A report, in match m. *)
Sent(m) ==
  [type : {"AttackReported", "KOReported"}, match : {m}, sender : {Me}, target : {Opponent},
   seq : Nat, lines : {0} \union {Attack!AttackLines(e) : e \in Event}]

(* The result so far of a tick in match m, with the garbage that waits. *)
Handled(m) ==
  [alive : BOOLEAN, seq : Nat, garbage : Seq(Incoming), sent : Seq(Sent(m))]

(* Who reports a knock-out is dead. *)
LEMMA KOReportedKeeps ==
  ASSUME NEW m, m = session.match, NEW r \in Handled(m)
  PROVE  /\ KOReported(r) \in Handled(m) /\ KOReported(r).alive = FALSE
         /\ KOReported(r).garbage = r.garbage
<1>1. CASE ~r.alive
  BY <1>1 DEF KOReported, Handled
<1>2. CASE r.alive
  <2>1. PICK n \in Nat : n = r.seq + 1 /\ r.seq \in Nat
    BY DEF Handled
  <2>2. Report("KOReported", r.seq, 0) \in Sent(m)
    BY <2>1 DEF Report, Sent
  <2>3. PICK s \in Seq(Sent(m)) : s = Append(r.sent, Report("KOReported", r.seq, 0))
    BY <2>2, AppendProperties DEF Handled
  <2>4. KOReported(r) = [r EXCEPT !.alive = FALSE, !.seq = n, !.sent = s]
    BY <1>2, <2>1, <2>3 DEF KOReported
  <2> QED  BY <2>4 DEF Handled
<1> QED  BY <1>1, <1>2

(* An event kills nobody, but the end of the game. *)
LEMMA EventHandledKeeps ==
  ASSUME NEW m, m = session.match, NEW r \in Handled(m), NEW e \in Event
  PROVE  /\ EventHandled(r, e) \in Handled(m)
         /\ EventHandled(r, e).garbage = r.garbage
         /\ e.type = "TopOut" => EventHandled(r, e).alive = FALSE
         /\ e.type # "TopOut" /\ r.alive = TRUE => EventHandled(r, e).alive = TRUE
<1>1. CASE e.type = "Clear"
  <2>1. PICK n \in Nat : n = r.seq + 1 /\ r.seq \in Nat
    BY DEF Handled
  <2>2. PICK lines : lines = Attack!AttackLines(e)
    OBVIOUS
  <2>3. Report("AttackReported", r.seq, lines) \in Sent(m)
    BY <2>1, <2>2 DEF Report, Sent
  <2>4. PICK s \in Seq(Sent(m)) : s = Append(r.sent, Report("AttackReported", r.seq, lines))
    BY <2>3, AppendProperties DEF Handled
  <2>5. EventHandled(r, e) = [r EXCEPT !.seq = n, !.sent = s]
    BY <1>1, <2>1, <2>2, <2>4 DEF EventHandled, AttackReported
  <2> QED  BY <1>1, <2>5 DEF Handled
<1>2. CASE e.type = "TopOut"
  <2>1. EventHandled(r, e) = KOReported(r)
    BY <1>2 DEF EventHandled
  <2> QED  BY <1>2, <2>1, KOReportedKeeps
<1>3. CASE e.type \notin {"Clear", "TopOut"}
  <2>1. EventHandled(r, e) = r
    BY <1>3 DEF EventHandled
  <2> QED  BY <1>3, <2>1
<1> QED  BY <1>1, <1>2, <1>3

(***************************************************************************)
(* The player is dead after a step exactly if its events tell of the end.  *)
(***************************************************************************)
LEMMA AliveUnlessTold ==
  ASSUME NEW m, m = session.match, NEW r \in Handled(m), r.alive = TRUE,
         NEW h, h \in Game, Told(h)
  PROVE  LET handled == FoldLeft(EventHandled, r, h.events)
         IN  /\ handled \in Handled(m) /\ handled.garbage = r.garbage
             /\ handled.alive <=> ~h.topOut
<1>1. PICK es \in Seq(Event) : es = h.events
  BY DEF Game
<1> DEFINE T == {x \in Handled(m) : x.garbage = r.garbage}
           handled == Handling!Folded(r, es)
<1>2. FoldLeft(EventHandled, r, es) = handled
  BY DEF Handling!Folded, FoldLeft, Handling!FoldLeft, MapThenFoldSet,
         Handling!MapThenFoldSet, Max, Handling!Max
<1>3. \A x : x \in T <=> x \in Handled(m) /\ x.garbage = r.garbage
  OBVIOUS
<1> HIDE DEF T
<1>4. r \in T /\ \A x \in T, e \in Event : EventHandled(x, e) \in T
  <2>1. ASSUME NEW x \in T, NEW e \in Event
        PROVE  EventHandled(x, e) \in T
    <3>1. x \in Handled(m) /\ x.garbage = r.garbage
      BY <1>3
    <3>2. EventHandled(x, e) \in Handled(m) /\ EventHandled(x, e).garbage = x.garbage
      BY <3>1, EventHandledKeeps
    <3> QED  BY <1>3, <3>1, <3>2
  <2> QED  BY <1>3, <2>1
<1>5. handled \in T
  BY <1>4, Handling!FoldInduction
<1>6. CASE h.topOut
  <2>1. es # << >> /\ es[Len(es)] = TopOutEvent /\ TopOutEvent \in Event
    BY <1>1, <1>6 DEF Told, Event
  <2>2. \E x \in T : handled = EventHandled(x, es[Len(es)])
    BY <1>4, <2>1, Handling!FoldLast
  <2>3. PICK x \in T : handled = EventHandled(x, TopOutEvent)
    BY <2>1, <2>2
  <2>4. TopOutEvent.type = "TopOut"
    BY DEF TopOutEvent
  <2>5. x \in Handled(m)
    BY <1>3
  <2>6. EventHandled(x, TopOutEvent).alive = FALSE
    BY <2>1, <2>4, <2>5, EventHandledKeeps
  <2>7. handled.alive = FALSE
    <3> HIDE DEF handled
    <3> QED  BY <2>3, <2>6
  <2> HIDE DEF handled
  <2> QED  BY <1>1, <1>2, <1>3, <1>5, <1>6, <2>7
<1>7. CASE ~h.topOut
  <2> DEFINE E == {e \in Event : e.type # "TopOut"}
             U == {x \in Handled(m) : x.alive = TRUE}
  <2>1. es \in Seq(E)
    <3>1. /\ es \in [1 .. Len(es) -> Event] /\ DOMAIN es = 1 .. Len(es)
          /\ Len(es) \in Nat
      BY LenProperties
    <3>2. \A i \in 1 .. Len(es) : es[i] \in E
      BY <1>1, <1>7, <3>1 DEF Told, Clean
    <3> HIDE DEF E
    <3>3. es \in [1 .. Len(es) -> E]
      BY <3>1, <3>2
    <3> QED  BY <3>1, <3>3, SeqDef
  <2>2. r \in U /\ \A x \in U, e \in E : EventHandled(x, e) \in U
    <3>1. ASSUME NEW x \in U, NEW e \in E
          PROVE  EventHandled(x, e) \in U
      <4>1. x \in Handled(m) /\ x.alive = TRUE /\ e \in Event /\ e.type # "TopOut"
        OBVIOUS
      <4> HIDE DEF E, U
      <4>2. EventHandled(x, e) \in Handled(m)
        BY <4>1, EventHandledKeeps
      <4>3. EventHandled(x, e).alive = TRUE
        BY <4>1, EventHandledKeeps
      <4> QED  BY <4>1, <4>2, <4>3 DEF U
    <3> QED  BY <3>1
  <2>3. handled \in U
    <3> HIDE DEF E, U
    <3> QED  BY <2>1, <2>2, Handling!FoldInduction
  <2>4. handled.alive = TRUE
    <3> HIDE DEF handled
    <3> QED  BY <2>3
  <2> HIDE DEF handled
  <2> QED  BY <1>1, <1>2, <1>3, <1>5, <1>7, <2>4
<1> QED  BY <1>6, <1>7

-----------------------------------------------------------------------------
(* The inductive invariant. *)

SessionRecord ==
  [match : {0, 1}, running : BOOLEAN, alive : BOOLEAN, garbage : Seq(Incoming), seq : Nat]

(***************************************************************************)
(* Only in a match does a session run or a player die, and whoever is      *)
(* alive has a game that is on: a tick begins with a playable game.        *)
(***************************************************************************)
IInv ==
  /\ Sound(game) /\ session \in SessionRecord
  /\ session.running => session.match # 0
  /\ session.match = 0 => session.alive
  /\ DeadMeansToppedOut
  /\ pieces \in 0 .. MaxPieces

(* It holds at first, with no match. *)
LEMMA InitInv == Init => IInv
<1> SUFFICES ASSUME Init PROVE IInv
  OBVIOUS
<1>1. PICK seed \in Seed : game = Reset(seed)
  BY DEF Init
<1>2. Sound(game)
  BY <1>1, ResetSound
<1>3. << >> \in Seq(Incoming)
  BY EmptySeq
<1> QED  BY <1>2, <1>3, PlayAssumption DEF Init, IInv, SessionRecord, DeadMeansToppedOut

(* A new game is one to play on. *)
LEMMA NewGameSound ==
  ASSUME NewGame
  PROVE  Sound(game)' /\ ~game'.topOut
<1>1. PICK seed \in Seed : game' = Reset(seed)
  BY DEF NewGame
<1>2. Sound(game') /\ ~game'.topOut
  BY <1>1, ResetSound
<1> QED  BY <1>2 DEF Sound, HoldSound, Playable, Placed, Fits

(* The locks of a tick have a number. *)
LEMMA LocksAreCounted ==
  ASSUME NEW es \in Seq(Event)
  PROVE  Cardinality(Locks(es)) \in Nat
<1>1. DOMAIN es = 1 .. Len(es) /\ Len(es) \in Nat
  BY LenProperties
<1>2. IsFiniteSet(1 .. Len(es))
  BY <1>1, FS_Interval
<1>3. Locks(es) \subseteq 1 .. Len(es)
  BY <1>1 DEF Locks
<1> QED  BY <1>2, <1>3, FS_Subset, FS_CardinalityType

(***************************************************************************)
(* A tick: the game stays sound, and the player is dead after it exactly   *)
(* if the game is over, by a lock, by hold or by the garbage of the lock.  *)
(***************************************************************************)
LEMMA TickKeeps ==
  ASSUME IInv, NEW batch \in Batch, Tick(batch)
  PROVE  /\ Sound(game') /\ session' \in SessionRecord
         /\ session'.match = session.match /\ session'.running = session.running
         /\ session.match # 0 /\ (session'.alive <=> ~game'.topOut)
         /\ pieces' \in 0 .. MaxPieces
<1>1. PICK m \in {0, 1} : m = session.match
  BY DEF IInv, SessionRecord
<1>2. PICK waiting \in Seq(Incoming) : waiting = session.garbage
  BY DEF IInv, SessionRecord
<1>3. PICK n \in Nat : n = session.seq
  BY DEF IInv, SessionRecord
<1>4. PICK g : g = game
  OBVIOUS
<1>5. Sound(g) /\ ~g.topOut /\ m # 0
  BY <1>1, <1>4 DEF IInv, DeadMeansToppedOut, Tick
<1>6. \E stepped \in {Step(g, batch)} :
       LET start == [alive |-> TRUE, seq |-> session.seq, garbage |-> session.garbage,
                     sent |-> << >>]
           handled == FoldLeft(EventHandled, start, stepped.events)
           locks == Locks(stepped.events)
       IN  /\ game' = IF locks # {} THEN WithAllGarbage(stepped) ELSE stepped
           /\ pieces' = pieces + Cardinality(locks)
           /\ pieces' <= MaxPieces
           /\ \E r \in {IF locks # {} THEN GarbageApplied(handled, game') ELSE handled} :
                /\ session' = [session EXCEPT !.alive = r.alive, !.seq = r.seq,
                                              !.garbage = r.garbage]
                /\ sent' = r.sent
  BY <1>4 DEF Tick
<1>7. PICK stepped : stepped = Step(g, batch)
  OBVIOUS
<1>8. PICK start : start = [alive |-> TRUE, seq |-> n, garbage |-> waiting, sent |-> << >>]
  OBVIOUS
<1>9. PICK handled : handled = FoldLeft(EventHandled, start, stepped.events)
  OBVIOUS
<1>10. PICK h : h = IF Locks(stepped.events) # {} THEN WithAllGarbage(stepped) ELSE stepped
  OBVIOUS
<1>11. PICK r : r = IF Locks(stepped.events) # {} THEN GarbageApplied(handled, h) ELSE handled
  OBVIOUS
<1>12. /\ game' = h
       /\ session' = [session EXCEPT !.alive = r.alive, !.seq = r.seq, !.garbage = r.garbage]
  BY <1>2, <1>3, <1>6, <1>7, <1>8, <1>9, <1>10, <1>11
<1>13. Sound(stepped) /\ Told(stepped) /\ stepped \in Game
  BY <1>5, <1>7, BatchOfActions, StepKeeps DEF Sound
<1>14. start \in Handled(m) /\ start.alive = TRUE
  BY <1>8, EmptySeq DEF Handled
<1>15. handled \in Handled(m) /\ (handled.alive <=> ~stepped.topOut)
  BY <1>1, <1>9, <1>13, <1>14, AliveUnlessTold
<1>16. Sound(h) /\ r \in Handled(m) /\ (r.alive <=> ~h.topOut)
  <2>1. CASE Locks(stepped.events) = {}
    BY <1>10, <1>11, <1>13, <1>15, <2>1
  <2>2. CASE Locks(stepped.events) # {}
    <3>1. h = WithAllGarbage(stepped)
      BY <1>10, <2>2
    <3>2. Sound(h) /\ (stepped.topOut => h.topOut)
      BY <1>2, <1>13, <3>1, AllGarbageKeeps
    <3>3. PICK cleared : cleared = [handled EXCEPT !.garbage = << >>]
      OBVIOUS
    <3>4. cleared \in Handled(m) /\ cleared.alive = handled.alive
      BY <1>15, <3>3, EmptySeq DEF Handled
    <3>5. r = IF h.topOut THEN KOReported(cleared) ELSE cleared
      BY <1>11, <2>2, <3>3 DEF GarbageApplied
    <3>6. CASE h.topOut
      BY <1>1, <3>2, <3>4, <3>5, <3>6, KOReportedKeeps
    <3>7. CASE ~h.topOut
      <4>1. r = cleared
        BY <3>5, <3>7
      <4> QED  BY <1>15, <3>2, <3>4, <3>7, <4>1
    <3> QED  BY <3>6, <3>7
  <2> QED  BY <2>1, <2>2
<1>17. r.alive \in BOOLEAN /\ r.seq \in Nat /\ r.garbage \in Seq(Incoming)
  BY <1>16 DEF Handled
<1>18. session \in SessionRecord
  BY DEF IInv
<1>19. /\ session' \in SessionRecord /\ session'.match = session.match
       /\ session'.running = session.running /\ session'.alive = r.alive
  BY <1>12, <1>17, <1>18 DEF SessionRecord
<1>20. pieces' \in 0 .. MaxPieces
  <2>1. pieces \in Nat /\ MaxPieces \in Nat
    BY PlayAssumption DEF IInv
  <2>2. Cardinality(Locks(stepped.events)) \in Nat
    BY <1>13, LocksAreCounted DEF Game
  <2>3. pieces' = pieces + Cardinality(Locks(stepped.events)) /\ pieces' <= MaxPieces
    BY <1>6, <1>7
  <2> QED  BY <2>1, <2>2, <2>3
<1> QED  BY <1>1, <1>5, <1>12, <1>16, <1>19, <1>20

(* Every step keeps the invariant. *)
LEMMA NextInv == IInv /\ [Next]_vars => IInv'
<1> SUFFICES ASSUME IInv, [Next]_vars PROVE IInv'
  OBVIOUS
<1>1. session \in SessionRecord /\ << >> \in Seq(Incoming)
  BY EmptySeq DEF IInv
<1>2. CASE UNCHANGED vars
  BY <1>2 DEF vars, IInv, Sound, HoldSound, Playable, Placed, Fits, DeadMeansToppedOut
<1>3. CASE HandleMatchStart
  <2>1. Sound(game)' /\ ~game'.topOut
    BY <1>3, NewGameSound DEF HandleMatchStart
  <2>2. session.alive = TRUE
    <3>1. session.match = 0
      BY <1>3 DEF HandleMatchStart
    <3> QED  BY <1>1, <3>1 DEF IInv, SessionRecord
  <2>3. /\ session' \in SessionRecord
        /\ session'.match = 1 /\ session'.alive = TRUE /\ pieces' = pieces
    BY <1>1, <1>3, <2>2 DEF HandleMatchStart, SessionRecord
  <2> QED  BY <2>1, <2>3 DEF IInv, DeadMeansToppedOut
<1>4. ASSUME NEW lines \in 0 .. MaxGarbage, NEW canceled \in 0 .. MaxGarbage, NEW hole \in Holes,
             HandleGarbageAssigned(lines, hole, canceled)
      PROVE  IInv'
  <2>1. PICK waiting \in Seq(Incoming) : waiting = session.garbage
    BY <1>1 DEF SessionRecord
  <2>2. canceled \in Nat
    BY PlayAssumption
  <2>3. PICK more \in Seq(Incoming) :
          more = IF lines > 0 THEN << [lines |-> lines, hole |-> hole] >> ELSE << >>
    <3>1. lines > 0 => [lines |-> lines, hole |-> hole] \in Incoming
      BY PlayAssumption DEF Incoming
    <3>2. \A e \in Incoming : << e >> \in Seq(Incoming)
      OBVIOUS
    <3> QED  BY <1>1, <3>1, <3>2
  <2>4. PICK garbage \in Seq(Incoming) : garbage = Canceled(waiting, canceled) \o more
    BY <2>2, CanceledLeaves, ConcatProperties
  <2>5. /\ session' = [session EXCEPT !.garbage = garbage] /\ game' = game
        /\ pieces' = pieces
    BY <1>4, <2>1, <2>3, <2>4 DEF HandleGarbageAssigned
  <2>6. Sound(game)'
    BY <2>5 DEF IInv, Sound, HoldSound, Playable, Placed, Fits
  <2> QED  BY <1>1, <2>5, <2>6 DEF IInv, SessionRecord, DeadMeansToppedOut
<1>5. CASE HandleRespawnAssigned
  <2>1. Sound(game)' /\ ~game'.topOut
    BY <1>5, NewGameSound DEF HandleRespawnAssigned
  <2> QED  BY <1>1, <1>5, <2>1 DEF HandleRespawnAssigned, IInv, SessionRecord, DeadMeansToppedOut
<1>6. CASE HandleMatchEnd
  <2>1. Sound(game)'
    BY <1>6 DEF HandleMatchEnd, IInv, Sound, HoldSound, Playable, Placed, Fits
  <2> QED  BY <1>1, <1>6, <2>1 DEF HandleMatchEnd, IInv, SessionRecord, DeadMeansToppedOut
<1>7. ASSUME NEW batch \in Batch, Tick(batch)
      PROVE  IInv'
  <2>1. /\ Sound(game') /\ session' \in SessionRecord
        /\ session'.match = session.match /\ session'.running = session.running
        /\ session.match # 0 /\ (session'.alive <=> ~game'.topOut)
        /\ pieces' \in 0 .. MaxPieces
    BY <1>7, TickKeeps
  <2>2. Sound(game)'
    BY <2>1 DEF Sound, HoldSound, Playable, Placed, Fits
  <2> QED  BY <2>1, <2>2 DEF IInv, DeadMeansToppedOut
<1> QED  BY <1>2, <1>3, <1>4, <1>5, <1>6, <1>7 DEF Next

(* It is an invariant. *)
THEOREM PlayInvariant == Spec => []IInv
BY InitInv, NextInv, PTL DEF Spec

-----------------------------------------------------------------------------
(* What follows. *)

(***************************************************************************)
(* Type correctness: whatever is pulled from the keyboard and comes from   *)
(* the server, pieces stay near the board, the queue never runs short of   *)
(* the preview, and no injection stays of which nothing is left.           *)
(***************************************************************************)
THEOREM TypesOfPlay == Spec => []TypeOK
<1>1. IInv => TypeOK
  <2> SUFFICES ASSUME IInv PROVE TypeOK
    OBVIOUS
  <2>1. game \in Game /\ Len(game.queue) > Preview /\ session \in SessionRecord
        /\ pieces \in 0 .. MaxPieces
    BY DEF IInv, Sound
  <2>2. /\ game.board \subseteq Grid /\ game.active \in Piece \union {NoPiece}
        /\ game.queue \in Seq(BagPieces) /\ game.hold \in BagPieces \union {NoPiece}
        /\ game.combo \in Combo /\ game.kick \in Kick
        /\ game.gravity \in GravityTick /\ game.ground \in GroundTick
    BY <2>1 DEF Game
  <2>3. game.combo >= -1 /\ game.kick \in 0 .. 5
    BY <2>2 DEF Combo, Kick
  <2>4. game.gravity < GravityTicks /\ game.ground <= LockTicks
    BY <2>2, Constants DEF GravityTick, GroundTick
  <2>5. session.match \in 0 .. 1
    BY <2>1 DEF SessionRecord
  <2>6. \A i \in DOMAIN session.garbage :
          session.garbage[i] \in [lines : 1 .. MaxGarbage, hole : Holes]
    <3>1. PICK waiting \in Seq(Incoming) : waiting = session.garbage
      BY <2>1 DEF SessionRecord
    <3>2. \A i \in DOMAIN waiting : waiting[i] \in Incoming
      BY <3>1, LenProperties, ElementOfSeq
    <3> QED  BY <3>1, <3>2 DEF Incoming
  <2> QED  BY <2>1, <2>2, <2>3, <2>4, <2>5, <2>6 DEF TypeOK
<1> QED  BY <1>1, PlayInvariant, PTL

(***************************************************************************)
(* For as long as the game is on there is a piece, and it lies on free     *)
(* cells of the board: no move, kick, spawn, hold or garbage puts it into  *)
(* a wall or into other blocks, on a board of any size.                    *)
(***************************************************************************)
THEOREM PieceFits == Spec => []ActiveFits
<1>1. IInv => ActiveFits
  <2> SUFFICES ASSUME IInv, ~game.topOut
               PROVE  game.active # NoPiece /\ Fits(game, game.active)
    BY DEF ActiveFits
  <2>1. game.active \in Tetromino /\ Fits(game, game.active)
    BY DEF IInv, Sound, Playable, Placed
  <2> QED  BY <2>1, EngineAssumption DEF Tetromino
<1> QED  BY <1>1, PlayInvariant, PTL

(***************************************************************************)
(* For as long as the game is on the hidden rows hold no blocks, whatever  *)
(* locks and garbage pile up.                                              *)
(***************************************************************************)
THEOREM HiddenRowsStayEmpty == Spec => []HiddenRowsEmpty
<1>1. IInv => HiddenRowsEmpty
  BY DEF IInv, Sound, Playable, Placed, HiddenRowsEmpty
<1> QED  BY <1>1, PlayInvariant, PTL

(***************************************************************************)
(* No row stays full: what moves into one row in a clear was in one row,   *)
(* and garbage has its hole, also in the rows that it pushes up.           *)
(***************************************************************************)
THEOREM NoRowStaysFull == Spec => []NoFullRow
<1>1. IInv => NoFullRow
  BY DEF IInv, Sound, NoFullRow
<1> QED  BY <1>1, PlayInvariant, PTL

(***************************************************************************)
(* hold is used at most once from one lock to the next, in whatever order  *)
(* actions, gravity and locks come in the ticks.                           *)
(***************************************************************************)
THEOREM HeldOnce == Spec => []HoldOncePerPiece
<1>1. IInv => HoldOncePerPiece
  <2> SUFFICES ASSUME IInv PROVE game.held <= 1
    BY DEF HoldOncePerPiece
  <2>1. game.held \in {0, 1}
    BY DEF IInv, Sound, Game
  <2> QED  BY <2>1
<1> QED  BY <1>1, PlayInvariant, PTL

(***************************************************************************)
(* In a match the player is dead exactly if the board is topped out: every *)
(* top-out is reported, whether a lock, hold or garbage brings it about.   *)
(***************************************************************************)
THEOREM EveryTopOutReported == Spec => []DeadMeansToppedOut
<1>1. IInv => DeadMeansToppedOut
  BY DEF IInv
<1> QED  BY <1>1, PlayInvariant, PTL
=============================================================================
