--------------------------- MODULE VersusSession ----------------------------
(***************************************************************************)
(* The clients of a match: each plays on its own board and reports lines   *)
(* and top-outs.  Models client/versus_session.py as the client runtime    *)
(* uses it: a session is made for a MatchStart and never paused.           *)
(*                                                                         *)
(* The board is left open: the pieces that lock in a tick may clear lines, *)
(* any number of times, top out, or neither, and pending garbage may or    *)
(* may not end the game.  Counters that are only shown are left out, and   *)
(* so are summaries, which use up sequence numbers but are not reliable.   *)
(***************************************************************************)
EXTENDS Naturals, Sequences, FiniteSets, SequencesExt

CONSTANTS Players, NoPlayer

VARIABLE client   \* the versus session of each player

(* No versus session; match is 0 before the first MatchStart. *)
None ==
  [match |-> 0, opponent |-> NoPlayer, running |-> FALSE, alive |-> TRUE,
   garbage |-> 0, seq |-> 0]

Init == client = [p \in Players |-> None]

(***************************************************************************)
(* _handle_match_start.  The runtime makes a new session, whose reports    *)
(* are numbered from 0; but if tick reads the message first, the session   *)
(* of the previous match handles it and goes on numbering.                 *)
(***************************************************************************)
OpponentIn(players, p) == players[SelectInSeq(players, LAMBDA q : q # p)]

HandleMatchStart(p, m, seq) ==
  client' = [client EXCEPT ![p] =
    [None EXCEPT !.match = m.match, !.opponent = OpponentIn(m.players, p),
                 !.running = TRUE, !.seq = seq]]

(* Mutant of _is_current_match. *)
IsCurrentMatchAlways(p, m) == m = m

IsCurrentMatch(p, m) == m.match = client[p].match

ForMe(p, m) == IsCurrentMatch(p, m) /\ m.target = p

(***************************************************************************)
(* _handle_garbage_assigned: cancels first, then adds.                     *)
(***************************************************************************)
Kept(p, canceled) ==
  IF client[p].garbage <= canceled THEN 0 ELSE client[p].garbage - canceled

HandleGarbageAssigned(p, m) ==
  client' = IF ForMe(p, m)
            THEN [client EXCEPT ![p].garbage = Kept(p, m.canceled) + m.lines]
            ELSE client

(***************************************************************************)
(* _handle_respawn_assigned: an empty board at once, whatever respawn_at   *)
(* says, and whether the player is dead or not.                            *)
(***************************************************************************)
HandleRespawnAssigned(p, m) ==
  client' = IF ForMe(p, m)
            THEN [client EXCEPT ![p].garbage = 0, ![p].alive = TRUE]
            ELSE client

HandleMatchEnd(p, m) ==
  client' = IF IsCurrentMatch(p, m) THEN [client EXCEPT ![p].running = FALSE] ELSE client

-----------------------------------------------------------------------------
(* One tick of a running session whose player is alive. *)

Playing(p) == client[p].running /\ client[p].alive

Report(p, type, seq, lines) ==
  [type |-> type, match |-> client[p].match, sender |-> p,
   target |-> client[p].opponent, seq |-> seq, lines |-> lines]

(***************************************************************************)
(* _handle_local_events after locks: each clear is reported, in order      *)
(* (clears are the lines that each attacks with), then the top-out.  Then  *)
(* all pending garbage goes to the board; should that be the end, it is    *)
(* reported unless the top-out already was.                                *)
(***************************************************************************)
Dies(p, toppedOut, collides) == toppedOut \/ (collides /\ client[p].garbage > 0)

LockReports(p, clears, dies) ==
  {Report(p, "AttackReported", client[p].seq + i - 1, clears[i]) : i \in DOMAIN clears}
  \union
  {Report(p, "KOReported", client[p].seq + Len(clears), 0) : d \in {dies} \ {FALSE}}

Lock(p, clears, dies) ==
  /\ Playing(p)
  /\ client' = [client EXCEPT
       ![p].garbage = 0, ![p].alive = ~dies,
       ![p].seq = @ + Len(clears) + IF dies THEN 1 ELSE 0]

(***************************************************************************)
(* A top-out without a lock: hold brings back a piece that does not fit.   *)
(* Pending garbage stays pending.                                          *)
(***************************************************************************)
HoldTopsOut(p) ==
  /\ Playing(p)
  /\ client' = [client EXCEPT ![p].alive = FALSE, ![p].seq = @ + 1]
=============================================================================
