---------------------------- MODULE QueueManager ----------------------------
(***************************************************************************)
(* The room of the server: who plays (active) and who waits, in order.     *)
(* Models server/queue.py.  Every operation of the Python class is one     *)
(* action; the promotion of waiting players is part of the operations that *)
(* call it, as in the code.                                                *)
(***************************************************************************)
EXTENDS Naturals, Sequences, SequencesExt

CONSTANTS
  Players,          \* the player identifiers (uuids in the code)
  NoPlayer,         \* None, where a winner is expected
  ActiveCount,      \* MatchConfig.active_player_count
  WaitingCapacity   \* MatchConfig.waiting_capacity

(* MatchConfig.__post_init__ rejects any other value. *)
ASSUME CapacityAssumption ==
  /\ ActiveCount \in Nat \ {0}
  /\ WaitingCapacity \in Nat

ASSUME NoPlayerAssumption == NoPlayer \notin Players

VARIABLES
  active,   \* _active: the players of the running or of the next match
  waiting   \* _waiting: the others, first come first

queueVars == << active, waiting >>

Capacity == ActiveCount + WaitingCapacity
Queued == ToSet(active) \union ToSet(waiting)

TypeOK ==
  /\ active \in Seq(Players) /\ Len(active) <= ActiveCount
  /\ waiting \in Seq(Players) /\ Len(waiting) <= WaitingCapacity

Init == active = << >> /\ waiting = << >>

-----------------------------------------------------------------------------

(***************************************************************************)
(* would_accept: asked by the server before it opens a session.            *)
(***************************************************************************)
WouldAccept(p) == p \in Queued \/ Len(active) + Len(waiting) < Capacity

(***************************************************************************)
(* status_for: the position a player is told, 0 for one who plays.         *)
(***************************************************************************)
Position(p) ==
  IF p \in ToSet(active) THEN 0 ELSE SelectInSeq(waiting, LAMBDA q : q = p)

(***************************************************************************)
(* _promote_waiting: the head of w fills the free places behind a.  The    *)
(* loop of the code is this closed form: it moves k players, one by one.   *)
(***************************************************************************)
Promoted(a, w) ==
  LET room == ActiveCount - Len(a)
  IN  IF Len(w) <= room THEN Len(w) ELSE room

PromoteWaiting(a, w) ==
  LET k == Promoted(a, w)
  IN  /\ active' = a \o SubSeq(w, 1, k)
      /\ waiting' = SubSeq(w, k + 1, Len(w))

(* Mutants of join: one place too many; only the waiting list is searched; *)
(* newcomers go to the front.                                              *)
JoinWaitingOneMore(p) ==
  /\ p \notin Queued
  /\ Len(active) >= ActiveCount
  /\ Len(waiting) <= WaitingCapacity
  /\ waiting' = Append(waiting, p)
  /\ UNCHANGED active

JoinWaitingUnchecked(p) ==
  /\ p \notin ToSet(waiting)
  /\ Len(active) >= ActiveCount
  /\ Len(waiting) < WaitingCapacity
  /\ waiting' = Append(waiting, p)
  /\ UNCHANGED active

JoinWaitingInFront(p) ==
  /\ p \notin Queued
  /\ Len(active) >= ActiveCount
  /\ Len(waiting) < WaitingCapacity
  /\ waiting' = << p >> \o waiting
  /\ UNCHANGED active

(***************************************************************************)
(* join: someone already in the room stays where they are; a full room     *)
(* refuses the newcomer.                                                   *)
(***************************************************************************)
JoinActive(p) ==
  /\ p \notin Queued
  /\ Len(active) < ActiveCount
  /\ active' = Append(active, p)
  /\ UNCHANGED waiting

JoinWaiting(p) ==
  /\ p \notin Queued
  /\ Len(active) >= ActiveCount
  /\ Len(waiting) < WaitingCapacity
  /\ waiting' = Append(waiting, p)
  /\ UNCHANGED active

JoinUnchanged(p) ==
  /\ \/ p \in Queued
     \/ Len(active) >= ActiveCount /\ Len(waiting) >= WaitingCapacity
  /\ UNCHANGED queueVars

Join(p) == JoinActive(p) \/ JoinWaiting(p) \/ JoinUnchanged(p)

(* Mutant of leave: the free place is not filled. *)
LeaveActiveNoPromotion(p) ==
  /\ p \in ToSet(active)
  /\ active' = RemoveFirst(active, p)
  /\ UNCHANGED waiting

(***************************************************************************)
(* leave: the place of an active player goes to the head of the waiting.   *)
(***************************************************************************)
LeaveActive(p) ==
  /\ p \in ToSet(active)
  /\ PromoteWaiting(RemoveFirst(active, p), waiting)

LeaveWaiting(p) ==
  /\ p \notin ToSet(active)
  /\ p \in ToSet(waiting)
  /\ waiting' = RemoveFirst(waiting, p)
  /\ UNCHANGED active

LeaveUnchanged(p) == p \notin Queued /\ UNCHANGED queueVars

Leave(p) == LeaveActive(p) \/ LeaveWaiting(p) \/ LeaveUnchanged(p)

(* Mutant of rotate_after_match: the winner goes with the loser.           *)
KeptNobody(w) == << >>

(***************************************************************************)
(* rotate_after_match: only a winner who is still active stays.            *)
(***************************************************************************)
Kept(w) == IF w \in ToSet(active) THEN << w >> ELSE << >>

(* Mutant of rotate_after_match: the winner queues up again, last. *)
RotateWinnerLast(w) == PromoteWaiting(<< >>, waiting \o Kept(w))

RotateAfterMatch(w) == PromoteWaiting(Kept(w), waiting)

Next ==
  \/ \E p \in Players : Join(p) \/ Leave(p)
  \/ \E w \in Players \union {NoPlayer} : RotateAfterMatch(w)

Spec == Init /\ [][Next]_queueVars

-----------------------------------------------------------------------------

(***************************************************************************)
(* Nobody stands twice in the room: leave removes one occurrence only, so  *)
(* a second one would play on for a player whose session is gone           *)
(* (join, leave and the promotion each move players between the lists).    *)
(***************************************************************************)
NobodyTwice == IsInjective(active \o waiting)

(***************************************************************************)
(* Nobody waits beside a free place: every operation that frees an active  *)
(* place fills it (leave and rotate_after_match, whatever the winner).     *)
(***************************************************************************)
NoIdlePlace == waiting # << >> => Len(active) = ActiveCount

(***************************************************************************)
(* The position a player is told never gets worse while the player stays   *)
(* in the room (status_for, read after any join, leave or rotation).       *)
(***************************************************************************)
PositionNeverWorse ==
  [][\A p \in Queued : p \in Queued' => Position(p)' <= Position(p)]_queueVars

(***************************************************************************)
(* The two lists, one behind the other, behave as the single line of       *)
(* module Line: newcomers last, nobody overtakes, the winner stays ahead.  *)
(***************************************************************************)
Room == INSTANCE Line WITH line <- active \o waiting

RoomIsALine == Room!Spec
=============================================================================
