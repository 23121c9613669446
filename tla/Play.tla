-------------------------------- MODULE Play --------------------------------
(***************************************************************************)
(* One player of a match, with its board: a versus session and the engine  *)
(* it owns.  Models client/versus_session.py, tick above all, in the       *)
(* detail that module VersusSession leaves open, and is shown to implement *)
(* that module.                                                            *)
(***************************************************************************)
EXTENDS Engine

CONSTANTS
  Me, Opponent, NoPlayer,
  Holes,       \* bound: columns in which garbage may have its hole
  MaxActions,  \* bound: keys pressed between two ticks, and a repeated move
  MaxGarbage,  \* bound: lines of one GarbageAssigned, and pending injections
  MaxSoft,     \* bound: progress of soft drop a piece on the ground may keep
  MaxPieces    \* bound: pieces that lock

ASSUME PlayAssumption ==
  /\ Me # Opponent /\ NoPlayer \notin {Me, Opponent}
  /\ Holes \subseteq Column /\ MaxActions \in Nat
  /\ MaxGarbage \in Nat /\ MaxSoft \in Nat /\ MaxPieces \in Nat

VARIABLES
  game,      \* _engine
  session,   \* the other fields of VersusGameSession
  sent,      \* the reports the last step sent, in order
  pieces     \* pieces locked so far

vars == << game, session, sent, pieces >>

Attack == INSTANCE Attack

Init ==
  /\ \E seed \in Seed : game = Reset(seed)
  /\ session = [match |-> 0, running |-> FALSE, alive |-> TRUE, garbage |-> << >>, seq |-> 0]
  /\ sent = << >> /\ pieces = 0

-----------------------------------------------------------------------------
(* Messages of the server. *)

NewGame == \E seed \in Seed : game' = Reset(seed)

HandleMatchStart ==
  /\ session.match = 0
  /\ NewGame
  /\ session' = [session EXCEPT !.match = 1, !.running = TRUE]
  /\ sent' = << >> /\ UNCHANGED pieces

(***************************************************************************)
(* _cancel_pending_garbage: the oldest lines first; an injection of which  *)
(* nothing is left goes.                                                   *)
(***************************************************************************)
PendingLines(garbage) == FoldLeft(LAMBDA sum, g : sum + g.lines, 0, garbage)

(* Mutant: an injection stays, with no lines. *)
CancelsKeeping(r, injection) ==
  LET consumed == IF r.left < injection.lines THEN r.left ELSE injection.lines
  IN  [left |-> r.left - consumed,
       kept |-> Append(r.kept, [injection EXCEPT !.lines = @ - consumed])]

Cancels(r, injection) ==
  LET consumed == IF r.left < injection.lines THEN r.left ELSE injection.lines
      lines == injection.lines - consumed
  IN  [left |-> r.left - consumed,
       kept |-> IF lines > 0 THEN Append(r.kept, [injection EXCEPT !.lines = lines]) ELSE r.kept]

Canceled(garbage, canceled) ==
  FoldLeft(Cancels, [left |-> canceled, kept |-> << >>], garbage).kept

HandleGarbageAssigned(lines, hole, canceled) ==
  /\ session.match # 0
  /\ session' = [session EXCEPT !.garbage =
       Canceled(@, canceled)
       \o IF lines > 0 THEN << [lines |-> lines, hole |-> hole] >> ELSE << >>]
  /\ Len(session'.garbage) <= MaxGarbage
  /\ sent' = << >> /\ UNCHANGED << game, pieces >>

HandleRespawnAssigned ==
  /\ session.match # 0
  /\ NewGame
  /\ session' = [session EXCEPT !.garbage = << >>, !.alive = TRUE]
  /\ sent' = << >> /\ UNCHANGED pieces

HandleMatchEnd ==
  /\ session.match # 0
  /\ session' = [session EXCEPT !.running = FALSE]
  /\ sent' = << >> /\ UNCHANGED << game, pieces >>

-----------------------------------------------------------------------------
(* tick. *)

Report(type, seq, lines) ==
  [type |-> type, match |-> session.match, sender |-> Me, target |-> Opponent,
   seq |-> seq, lines |-> lines]

(* _report_attack, of every clear, even if it attacks with no line. *)
AttackReported(r, clear) ==
  [r EXCEPT !.seq = @ + 1,
            !.sent = Append(@, Report("AttackReported", r.seq, Attack!AttackLines(clear)))]


(* _report_ko, once per life. *)
KOReported(r) ==
  IF ~r.alive THEN r
  ELSE [r EXCEPT !.alive = FALSE, !.seq = @ + 1,
                 !.sent = Append(@, Report("KOReported", r.seq, 0))]

(* _handle_local_events, up to the garbage. *)
EventHandled(r, e) ==
  CASE e.type = "Clear" -> AttackReported(r, e)
    [] e.type = "TopOut" -> KOReported(r)
    [] OTHER -> r

Locks(events) == {i \in DOMAIN events : events[i].type = "PieceLocked"}

(* Mutant: a collision with garbage is left for the next step to report. *)
GarbageAppliedUnseen(r, g) == [r EXCEPT !.garbage = << >>]

(***************************************************************************)
(* _apply_pending_garbage: all of it, once pieces have locked, after the   *)
(* last of them, on the board on which the next piece is there already.    *)
(***************************************************************************)
GarbageEntered(g, injection) == ApplyGarbage(g, injection.lines, injection.hole)

WithAllGarbage(g) == FoldLeft(GarbageEntered, g, session.garbage)

GarbageApplied(r, g) ==
  LET cleared == [r EXCEPT !.garbage = << >>]
  IN  IF g.topOut THEN KOReported(cleared) ELSE cleared

(***************************************************************************)
(* pull_actions: the actions of the keys pressed since the last tick, in   *)
(* their order, the same key again if it was released in between, then a   *)
(* repeated move, and soft drop while its key is down.                     *)
(***************************************************************************)
Pressed == SeqOf(Action \ {"SOFT_DROP"}, MaxActions)

Batch == Pressed \union {Append(keys, "SOFT_DROP") : keys \in Pressed}

Tick(batch) ==
  /\ session.running /\ session.alive
  /\ pieces < MaxPieces
  /\ "SOFT_DROP" \in ToSet(batch) => game.soft < MaxSoft
  /\ \E stepped \in {Step(game, batch)} :
       LET start == [alive |-> TRUE, seq |-> session.seq, garbage |-> session.garbage,
                     sent |-> << >>]
           handled == FoldLeft(EventHandled, start, stepped.events)
           locks == Locks(stepped.events)
       IN  /\ game' = IF locks # {} THEN WithAllGarbage(stepped) ELSE stepped
           /\ pieces' = pieces + Cardinality(locks)
           /\ pieces' <= MaxPieces
           /\ \E r \in {IF locks # {} THEN GarbageApplied(handled, game') ELSE handled} :
                /\ session' = [session EXCEPT !.alive = r.alive, !.seq = r.seq,
                                              !.garbage = r.garbage]
                /\ sent' = r.sent

Next ==
  \/ HandleMatchStart
  \/ \E lines, canceled \in 0 .. MaxGarbage, hole \in Holes :
       HandleGarbageAssigned(lines, hole, canceled)
  \/ HandleRespawnAssigned
  \/ HandleMatchEnd
  \/ \E batch \in Batch : Tick(batch)

Spec == Init /\ [][Next]_vars

-----------------------------------------------------------------------------

Piece ==
  [type : BagPieces, x : -2 .. Width, y : -2 .. Total, rotation : Rotation]

TypeOK ==
  /\ game.board \subseteq Grid
  /\ game.active \in Piece \union {NoPiece}
  /\ game.queue \in Seq(BagPieces) /\ Len(game.queue) > Preview
  /\ game.hold \in BagPieces \union {NoPiece}
  /\ game.combo >= -1 /\ game.kick \in 0 .. 5
  /\ game.gravity < GravityTicks /\ game.ground <= LockTicks
  /\ session.match \in 0 .. 1
  /\ \A i \in DOMAIN session.garbage :
       session.garbage[i] \in [lines : 1 .. MaxGarbage, hole : Holes]
  /\ pieces \in 0 .. MaxPieces

(***************************************************************************)
(* As long as the game is on there is a piece, and it lies on free cells   *)
(* of the board: no move, kick, spawn, hold or garbage puts it into a wall *)
(* or into other blocks.                                                   *)
(***************************************************************************)
ActiveFits == ~game.topOut => game.active # NoPiece /\ Fits(game, game.active)

(***************************************************************************)
(* No row stays full, whatever locks and garbage pile up on one another.   *)
(***************************************************************************)
NoFullRow == FullRows(game.board) = {}

(***************************************************************************)
(* As long as the game is on the hidden rows are empty: whatever gets      *)
(* there, by a lock or pushed by garbage, is the end.  (So a spawning      *)
(* piece is never blocked.)                                                *)
(***************************************************************************)
HiddenRowsEmpty == ~game.topOut => HiddenBlocks(game.board) = {}

(***************************************************************************)
(* hold is used at most once from one lock to the next.                    *)
(***************************************************************************)
HoldOncePerPiece == game.held <= 1

(***************************************************************************)
(* In a match the player is dead exactly if the board is topped out: no    *)
(* top-out goes unreported, be it by a lock or by garbage, and a new life  *)
(* or match begins with a board to play on.                                *)
(***************************************************************************)
DeadMeansToppedOut == session.match # 0 => (session.alive <=> ~game.topOut)

LinesCleared(events) ==
  FoldLeft(LAMBDA sum, e : IF e.type = "Clear" THEN sum + e.lines ELSE sum, 0, events)

(***************************************************************************)
(* Blocks come with locked pieces and garbage and go in full rows only:    *)
(* while the game is on, garbage pushes nothing out of the board, and a    *)
(* clear removes nothing but its rows.  Without a lock nothing changes,    *)
(* unless a new game begins.                                               *)
(***************************************************************************)
BlocksConserved ==
  [][IF pieces' = pieces THEN game'.board \in {game.board, {}}
     ELSE game'.topOut
          \/ Cardinality(game'.board)
               = Cardinality(game.board) + 4 * (pieces' - pieces)
                 - Width * LinesCleared(game'.events)
                 + (Width - 1) * PendingLines(session.garbage)]_vars

-----------------------------------------------------------------------------
(* The session as module VersusSession describes it. *)

ClientView ==
  [p \in {Me} |->
     [match |-> session.match, opponent |-> IF session.match = 0 THEN NoPlayer ELSE Opponent,
      running |-> session.running, alive |-> session.alive,
      garbage |-> PendingLines(session.garbage), seq |-> session.seq]]

Abstract == INSTANCE VersusSession WITH Players <- {Me}, client <- ClientView

Message(lines, canceled) ==
  [match |-> 1, target |-> Me, players |-> << Me, Opponent >>,
   lines |-> lines, canceled |-> canceled]

AbstractMessage ==
  /\ sent' = << >>
  /\ \/ Abstract!HandleMatchStart(Me, Message(0, 0), 0)
     \/ \E n, c \in 0 .. MaxGarbage : Abstract!HandleGarbageAssigned(Me, Message(n, c))
     \/ Abstract!HandleRespawnAssigned(Me, Message(0, 0))
     \/ Abstract!HandleMatchEnd(Me, Message(0, 0))

(* The lines of the attacks a step reports, in order. *)
Attacks(reports) ==
  LET attacks == SelectSeq(reports, LAMBDA m : m.type = "AttackReported")
  IN  [i \in DOMAIN attacks |-> attacks[i].lines]

AbstractTick ==
  \/ UNCHANGED ClientView /\ sent' = << >>
  \/ \E clears \in {Attacks(sent')}, dies \in BOOLEAN :
       /\ Abstract!Lock(Me, clears, dies)
       /\ ToSet(sent') = Abstract!LockReports(Me, clears, dies)
  \/ /\ Abstract!HoldTopsOut(Me)
     /\ ToSet(sent') = {Abstract!Report(Me, "KOReported", session.seq, 0)}

=============================================================================
