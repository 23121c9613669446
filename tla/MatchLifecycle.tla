--------------------------- MODULE MatchLifecycle ---------------------------
(***************************************************************************)
(* The life of a match, as the room sees it: it starts with the active     *)
(* players, counts KOs, and ends by the KO target, the clock or a player   *)
(* who leaves.  Models the part of server/matches.py that the queue and    *)
(* the sessions depend on.  Attacks and summaries reach it only through    *)
(* the tie-break of a match that ends by the clock, so there the winner    *)
(* is left open.  The operators are values: a handler of the server may    *)
(* end one match and start the next in the same step.  The actions at the  *)
(* end are what MatchManager is shown to implement.                        *)
(***************************************************************************)
EXTENDS Naturals, Sequences, SequencesExt

CONSTANTS
  Players, NoPlayer,
  NoMatch,       \* None, where a match record is expected
  ActiveCount,   \* MatchConfig.active_player_count
  KoTarget,      \* MatchConfig.ko_target
  MatchTicks     \* MatchConfig.match_seconds, in ticks of the clock

VARIABLE match   \* current_match

(* The players of a match record, and of no match. *)
InMatch(m) == IF m = NoMatch THEN {} ELSE ToSet(m.players)

(***************************************************************************)
(* start_if_ready: no match is running and enough players are active.      *)
(***************************************************************************)
Fresh(players) ==
  [players |-> players,
   ko |-> [p \in ToSet(players) |-> 0],
   left |-> MatchTicks]

(* Mutant of start_if_ready: a running match is started over. *)
RestartIfReady(m, active) ==
  IF Len(active) < ActiveCount THEN m ELSE Fresh(SubSeq(active, 1, ActiveCount))

StartIfReady(m, active) ==
  IF m # NoMatch \/ Len(active) < ActiveCount
  THEN m
  ELSE Fresh(SubSeq(active, 1, ActiveCount))

(***************************************************************************)
(* opponent_of: the first player of the match who is not p.                *)
(***************************************************************************)
OpponentOf(m, p) ==
  LET i == SelectInSeq(m.players, LAMBDA q : q # p)
  IN  IF i = 0 THEN NoPlayer ELSE m.players[i]

(***************************************************************************)
(* _handle_ko: the point goes to the opponent of the player who topped     *)
(* out; the match is over when the opponent has enough of them.            *)
(***************************************************************************)
KoScored(m, victim) == [m EXCEPT !.ko[OpponentOf(m, victim)] = @ + 1]

(* Mutant of the comparison with the KO target. *)
KoTargetPassed(m, victim) == m.ko[OpponentOf(m, victim)] + 1 > KoTarget

KoTargetReached(m, victim) == m.ko[OpponentOf(m, victim)] + 1 >= KoTarget

(***************************************************************************)
(* resolve_winner of a match whose time is up: the only leader in KOs, or, *)
(* on a tie, whoever the lines sent and the board heights decide for, or   *)
(* nobody.                                                                 *)
(***************************************************************************)
Leaders(m) ==
  {p \in InMatch(m) : \A q \in InMatch(m) : m.ko[q] <= m.ko[p]}

PossibleWinners(m) ==
  IF \E p \in Leaders(m) : Leaders(m) = {p} THEN Leaders(m) ELSE InMatch(m) \union {NoPlayer}

(* tick: the clock of the match runs out. *)
TimeIsUp(m) == m # NoMatch /\ m.left = 0

Aged(m) == IF m = NoMatch \/ m.left = 0 THEN m ELSE [m EXCEPT !.left = @ - 1]

-----------------------------------------------------------------------------
(* The life of a match as a specification.  When a match ends, the server  *)
(* may start the next one in the same handler, or wait for players.        *)

Lineups == [1 .. ActiveCount -> Players]

Succession(m) == {m} \union {StartIfReady(m, active) : active \in Lineups}

(* No match yet, or the first has just been started. *)
Init == match \in Succession(NoMatch)

Begin == match = NoMatch /\ match' \in Succession(NoMatch)

KnockedOut(victim) ==
  /\ victim \in InMatch(match) /\ OpponentOf(match, victim) # NoPlayer
  /\ match' \in IF KoTargetReached(match, victim) THEN Succession(NoMatch)
                ELSE {KoScored(match, victim)}

Over == TimeIsUp(match) /\ match' \in Succession(NoMatch)

(* Somebody who plays has left. *)
Broken == match # NoMatch /\ match' = NoMatch

Next ==
  \/ Begin \/ Over \/ Broken
  \/ \E p \in Players : KnockedOut(p)
  \/ match' = Aged(match)

Spec == Init /\ [][Next]_match
=============================================================================
