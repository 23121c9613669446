------------------------------- MODULE Engine -------------------------------
(***************************************************************************)
(* The game of one player: a fixed step per tick.  Models game_core:       *)
(* engine.py with randomizer.py.  A game is a record, and every operator   *)
(* here gives the game that a method leaves behind, with the events of the *)
(* step in its field events.  Score and the number of cleared lines are    *)
(* left out; they are only shown.                                          *)
(***************************************************************************)
EXTENDS Board, Pieces

CONSTANTS
  BagPieces,      \* the pieces of a bag
  Bags,           \* bound: shuffles of a seed, after which they come again
  Preview,        \* next_queue_size
  LockTicks,      \* ticks on the ground after which a piece locks
  GravityTicks,   \* ticks in which gravity moves a piece by one row
  SoftTicks,      \* ticks in which holding soft drop does so
  NoPiece

(***************************************************************************)
(* GameConfig.__post_init__; a bag fills the preview, as 7 pieces fill one *)
(* of 5; a board is wide enough for a piece, and two hidden rows high.     *)
(***************************************************************************)
ASSUME EngineAssumption ==
  /\ Width \in Nat /\ Width >= 4
  /\ Hidden \in Nat /\ Hidden >= 2 /\ Visible \in Nat \ {0}
  /\ BagPieces \subseteq PieceType /\ Preview \in Nat \ {0} /\ Cardinality(BagPieces) > Preview
  /\ Bags \in Nat \ {0}
  /\ LockTicks \in Nat \ {0} /\ GravityTicks \in Nat \ {0} /\ SoftTicks \in Nat \ {0}
  /\ NoPiece \notin PieceType
  /\ NoPiece \notin [type : PieceType, x : Int, y : Int, rotation : Rotation]

Action ==
  {"MOVE_LEFT", "MOVE_RIGHT", "SOFT_DROP", "HARD_DROP", "ROTATE_CW", "ROTATE_CCW", "HOLD"}

(***************************************************************************)
(* SevenBagRandomizer: a seed decides how each bag in turn is shuffled.    *)
(***************************************************************************)
Bag == SetToSeqs(BagPieces)

Seed == [1 .. Bags -> Bag]

Fits(g, p) == CanPlace(g.board, Cells(p))

(* What a step tells its caller; other fields are only shown. *)
ClearEvent(lines, tSpin, combo, backToBack) ==
  [type |-> "Clear", lines |-> lines, tSpin |-> tSpin, combo |-> combo, backToBack |-> backToBack]

PieceLockedEvent == [type |-> "PieceLocked"]
TopOutEvent == [type |-> "TopOut"]

TopOutEvents(g) == IF g.topOut THEN << TopOutEvent >> ELSE << >>

-----------------------------------------------------------------------------
(* The next piece. *)

SpawnPiece(t) ==
  [type |-> t, x |-> (Width - 4) \div 2, y |-> Hidden - 2, rotation |-> 0]

(* _spawn_piece. *)
Spawned(g, t) ==
  LET p == SpawnPiece(t)
  IN  [g EXCEPT !.active = p, !.holdUsed = FALSE, !.gravity = 0, !.soft = 0,
                !.ground = 0, !.kick = 0, !.topOut = @ \/ ~Fits(g, p)]

(***************************************************************************)
(* _fill_next_queue.  queue is what the player will get, _next_queue and   *)
(* then the rest of the bag of the randomizer; bags are those to come.     *)
(***************************************************************************)
Filled(g) ==
  IF Len(g.queue) > Preview THEN g
  ELSE [g EXCEPT !.queue = @ \o Head(g.bags), !.bags = Append(Tail(@), Head(@))]

(* _spawn_next, of a queue that is filled. *)
SpawnedNext(g) == Spawned(Filled([g EXCEPT !.queue = Tail(@)]), Head(g.queue))

(***************************************************************************)
(* reset.  kick is 0 unless the last move was a rotation, by that kick;    *)
(* held is history: how often hold was used since the last lock.           *)
(***************************************************************************)
Reset(seed) ==
  SpawnedNext(Filled(
    [board |-> {}, active |-> NoPiece, queue |-> << >>, bags |-> seed, hold |-> NoPiece,
     holdUsed |-> FALSE, held |-> 0, combo |-> -1, backToBack |-> FALSE, gravity |-> 0, soft |-> 0,
     ground |-> 0, kick |-> 0, topOut |-> FALSE, events |-> << >>]))

-----------------------------------------------------------------------------
(* Moves. *)

CanFall(g) == Fits(g, Shifted(g.active, 0, 1))

(* _try_shift to a side, and _try_rotate; a piece that falls keeps its kick. *)
MovedSideways(g, dx) ==
  LET p == Shifted(g.active, dx, 0)
  IN  IF Fits(g, p) THEN [g EXCEPT !.active = p, !.kick = 0, !.ground = 0] ELSE g

(* Mutant of the turn: takes the first kick, fit or not. *)
TurnUnchecked(g, to) ==
  [g EXCEPT !.active = Rotated(@, to)[1], !.kick = 1, !.ground = 0]

Turn(g, to) ==
  LET candidates == Rotated(g.active, to)
      kick == SelectInSeq(candidates, LAMBDA p : Fits(g, p))
  IN  IF kick = 0 THEN g
      ELSE [g EXCEPT !.active = candidates[kick], !.kick = kick, !.ground = 0]

(* How many of n rows the piece can fall, and it fallen by these. *)
RowsFallen(g, n) ==
  Min({n + 1} \union {d \in 1 .. n : ~Fits(g, Shifted(g.active, 0, d))}) - 1

Fallen(g, n) == [g EXCEPT !.active = Shifted(@, 0, RowsFallen(g, n))]

-----------------------------------------------------------------------------
(* The lock of a piece. *)

(***************************************************************************)
(* _classify_t_spin: a T that was rotated last, with three of the corners  *)
(* of its box taken; full if both in front are, or by the last kick.       *)
(***************************************************************************)
Corners == {<< 0, 0 >>, << 2, 0 >>, << 0, 2 >>, << 2, 2 >>}

FrontCorners ==
  << {<< 0, 0 >>, << 2, 0 >>}, {<< 2, 0 >>, << 2, 2 >>},
     {<< 0, 2 >>, << 2, 2 >>}, {<< 0, 0 >>, << 0, 2 >>} >>

Blocked(g, corners) ==
  {c \in corners : ~CanPlace(g.board, {<< g.active.x + c[1], g.active.y + c[2] >>})}

TSpin(g) ==
  LET front == FrontCorners[g.active.rotation + 1]
  IN  IF g.active.type # "T" \/ g.kick = 0 \/ Cardinality(Blocked(g, Corners)) < 3
      THEN "NONE"
      ELSE IF Blocked(g, front) = front \/ g.kick = 5 THEN "FULL" ELSE "MINI"

(***************************************************************************)
(* _lock_active: the board, the combo, the events and the next piece.  A   *)
(* piece that is not all on visible rows ends the game, though it clears.  *)
(***************************************************************************)
Lock(g) ==
  LET filled == g.board \union Cells(g.active)
      lines == Cardinality(FullRows(filled))
      tSpin == TSpin(g)
      difficult == lines = 4 \/ tSpin # "NONE"
      clear == ClearEvent(lines, tSpin, g.combo + 1, difficult /\ g.backToBack)
      locked == [g EXCEPT
        !.board = Cleared(filled),
        !.active = NoPiece, !.held = 0,
        !.combo = IF lines > 0 THEN @ + 1 ELSE -1,
        !.backToBack = IF lines > 0 THEN difficult ELSE @,
        !.events = @ \o << PieceLockedEvent >> \o IF lines > 0 THEN << clear >> ELSE << >>]
      next == IF HiddenBlocks(Cells(g.active)) # {} THEN [locked EXCEPT !.topOut = TRUE]
              ELSE SpawnedNext(locked)
  IN  [next EXCEPT !.events = @ \o TopOutEvents(next)]

-----------------------------------------------------------------------------
(* The step. *)

HardDrop(g) == Lock(Fallen(g, Total))

(* Mutant: the mark is set first, and the next piece clears it. *)
HoldMarkedFirst(g) ==
  LET next == IF g.hold = NoPiece THEN SpawnedNext([g EXCEPT !.holdUsed = TRUE])
              ELSE Spawned([g EXCEPT !.holdUsed = TRUE], g.hold)
  IN  IF g.holdUsed THEN g
      ELSE [next EXCEPT !.hold = g.active.type, !.held = @ + 1,
                        !.events = @ \o TopOutEvents(next)]

(***************************************************************************)
(* _hold_current: once per piece.                                          *)
(***************************************************************************)
Hold(g) ==
  LET next == IF g.hold = NoPiece THEN SpawnedNext(g) ELSE Spawned(g, g.hold)
  IN  IF g.holdUsed THEN g
      ELSE [next EXCEPT !.hold = g.active.type, !.holdUsed = TRUE, !.held = @ + 1,
                        !.events = @ \o TopOutEvents(next)]

(* _apply_action. *)
Apply(g, action) ==
  CASE g.topOut -> g
    [] ~g.topOut /\ action = "MOVE_LEFT" -> MovedSideways(g, -1)
    [] ~g.topOut /\ action = "MOVE_RIGHT" -> MovedSideways(g, 1)
    [] ~g.topOut /\ action = "SOFT_DROP" -> Fallen(g, 1)
    [] ~g.topOut /\ action = "HARD_DROP" -> HardDrop(g)
    [] ~g.topOut /\ action = "ROTATE_CW" -> Turn(g, RotateCw(g.active.rotation))
    [] ~g.topOut /\ action = "ROTATE_CCW" -> Turn(g, RotateCcw(g.active.rotation))
    [] ~g.topOut /\ action = "HOLD" -> Hold(g)

(***************************************************************************)
(* The progress of soft drop and of gravity, counted in ticks; what soft   *)
(* drop could not use, for the piece was on the ground, it keeps.          *)
(***************************************************************************)
SoftDropped(g) ==
  LET progress == g.soft + 1  rows == RowsFallen(g, progress \div SoftTicks)
  IN  [Fallen(g, rows) EXCEPT !.soft = progress - rows * SoftTicks]

Pulled(g) ==
  IF g.gravity + 1 < GravityTicks THEN [g EXCEPT !.gravity = @ + 1]
  ELSE [Fallen(g, 1) EXCEPT !.gravity = 0]

(* _advance_gravity. *)
AdvanceGravity(g, soft) ==
  LET pulled == Pulled(IF soft THEN SoftDropped(g) ELSE [g EXCEPT !.soft = 0])
      grounded == [pulled EXCEPT !.ground = @ + 1]
  IN  IF CanFall(pulled) THEN [pulled EXCEPT !.ground = 0]
      ELSE IF grounded.ground >= LockTicks THEN Lock(grounded) ELSE grounded

(* step, one tick: the actions in their order, then gravity. *)
Step(game, actions) ==
  LET acted == FoldLeft(Apply, [game EXCEPT !.events = << >>], actions)
  IN  IF acted.topOut THEN acted ELSE AdvanceGravity(acted, "SOFT_DROP" \in ToSet(actions))

(* Mutant: only a collision with the piece ends the game. *)
ApplyGarbageCollisionOnly(g, lines, hole) ==
  LET board == WithGarbage(g.board, lines, hole)
  IN  [g EXCEPT !.board = board,
                !.topOut = @ \/ (g.active # NoPiece /\ ~CanPlace(board, Cells(g.active)))]

(***************************************************************************)
(* apply_garbage: the piece does not give way, it collides.                *)
(***************************************************************************)
ApplyGarbage(g, lines, hole) ==
  LET board == WithGarbage(g.board, lines, hole)
  IN  [g EXCEPT !.board = board,
                !.topOut = \/ @ \/ HiddenBlocks(board) # {}
                           \/ g.active # NoPiece /\ ~CanPlace(board, Cells(g.active))]
=============================================================================
