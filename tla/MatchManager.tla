---------------------------- MODULE MatchManager ----------------------------
(***************************************************************************)
(* The match on the server in play: KOs, lines sent, the garbage each      *)
(* player still has coming, and the sequence numbers of what the server    *)
(* assigns.  Models server/matches.py without a BattleCoordinator, which   *)
(* is how app.py makes it.  Departures are left to ServerApp.              *)
(*                                                                         *)
(* A GarbageQueue is the number of its lines: the server never hands them  *)
(* out, it only cancels attacks against them and empties them.  Holes and  *)
(* seeds are left out, and so is the clock: time may be up at any moment.  *)
(***************************************************************************)
EXTENDS Naturals, Sequences, FiniteSets, SequencesExt

CONSTANTS
  Players, NoPlayer, NoMatch, ActiveCount, KoTarget

VARIABLE match   \* current_match

(* What the room knows of a match. *)
Outline ==
  IF match = NoMatch THEN NoMatch
  ELSE [players |-> match.players, ko |-> match.ko, left |-> 0]

Life == INSTANCE MatchLifecycle WITH match <- Outline, MatchTicks <- 0

InMatch == Life!InMatch(match)
OpponentOf(p) == Life!OpponentOf(match, p)

-----------------------------------------------------------------------------
(* Messages.  target is whom a message is about.                           *)

Assigned(type, sender, target, seq, lines, canceled) ==
  [type |-> type, match |-> match.id, sender |-> sender, target |-> target,
   seq |-> seq, lines |-> lines, canceled |-> canceled]

MatchStart(m) == [type |-> "MatchStart", match |-> m.id, players |-> m.players]

MatchEnd(winner, ko) ==
  [type |-> "MatchEnd", match |-> match.id, winner |-> winner, ko |-> ko]

-----------------------------------------------------------------------------

(***************************************************************************)
(* start_if_ready: current_match as it leaves it.                          *)
(***************************************************************************)
MatchOf(id, players) ==
  LET nought == [p \in ToSet(players) |-> 0]
  IN  [id |-> id, players |-> players, ko |-> nought, sent |-> nought,
       garbage |-> nought, nextSeq |-> 1]

StartIfReady(m, id, active) ==
  IF m # NoMatch \/ Len(active) < ActiveCount
  THEN m
  ELSE MatchOf(id, SubSeq(active, 1, ActiveCount))

(* Mutant: an attack cancels as many lines as it has. *)
CanceledAll(attack) == attack.lines

(***************************************************************************)
(* _handle_attack: the attack first cancels what its sender has coming,    *)
(* and only the rest goes to the target.                                   *)
(***************************************************************************)
Canceled(attack) ==
  LET coming == match.garbage[attack.sender]
  IN  IF attack.lines <= coming THEN attack.lines ELSE coming

Outgoing(attack) == attack.lines - Canceled(attack)

(* One GarbageAssigned for each of the two that is not zero. *)
Needed(lines) == IF lines > 0 THEN 1 ELSE 0

NumbersUsed(attack) == Needed(Canceled(attack)) + Needed(Outgoing(attack))

(* Mutant: canceled lines count as sent. *)
HandleAttackSentAll(attack) ==
  match' =
    [match EXCEPT
      !.garbage = [p \in DOMAIN @ |->
                     IF p = attack.sender THEN @[p] - Canceled(attack)
                     ELSE IF p = attack.target THEN @[p] + Outgoing(attack) ELSE @[p]],
      !.sent[attack.sender] = @ + attack.lines,
      !.nextSeq = @ + NumbersUsed(attack)]

HandleAttack(attack) ==
  match' =
    [match EXCEPT
      !.garbage = [p \in DOMAIN @ |->
                     IF p = attack.sender THEN @[p] - Canceled(attack)
                     ELSE IF p = attack.target THEN @[p] + Outgoing(attack) ELSE @[p]],
      !.sent[attack.sender] = @ + Outgoing(attack),
      !.nextSeq = @ + NumbersUsed(attack)]

(* Mutant: both messages get one number. *)
OutgoingSeqTheSame(attack) == match.nextSeq

OutgoingSeq(attack) == match.nextSeq + Needed(Canceled(attack))

AttackOutputs(attack) ==
  {Assigned("GarbageAssigned", attack.sender, attack.sender, match.nextSeq, 0, c) :
     c \in {Canceled(attack)} \ {0}}
  \union
  {Assigned("GarbageAssigned", attack.sender, attack.target, OutgoingSeq(attack), o, 0) :
     o \in {Outgoing(attack)} \ {0}}

(***************************************************************************)
(* _handle_ko: a point for the opponent, nothing more to come for the      *)
(* victim, a respawn, and the end of the match at the KO target.  next is  *)
(* what app.py makes of current_match then.                                *)
(***************************************************************************)
KoTargetReached(ko) == Life!KoTargetReached(match, ko.sender)

(* Mutant: the match goes on after its end. *)
HandleKOKeepsMatch(ko, next) ==
  match' = [Life!KoScored(match, ko.sender) EXCEPT
              !.garbage[ko.sender] = 0, !.nextSeq = @ + 1]

HandleKO(ko, next) ==
  match' =
    IF KoTargetReached(ko) THEN next
    ELSE [Life!KoScored(match, ko.sender) EXCEPT
            !.garbage[ko.sender] = 0, !.nextSeq = @ + 1]

KOEnds(ko) ==
  IF KoTargetReached(ko)
  THEN {MatchEnd(OpponentOf(ko.sender), Life!KoScored(match, ko.sender).ko)}
  ELSE {}

KOOutputs(ko) ==
  {Assigned("RespawnAssigned", OpponentOf(ko.sender), ko.sender, match.nextSeq, 0, 0)}
  \union KOEnds(ko)

(***************************************************************************)
(* tick of a match whose time is up, and resolve_winner: most KOs, else    *)
(* most lines sent, else the lower board.  The heights are what the        *)
(* clients reported last, which may be anything; here it is 0 or 1.        *)
(***************************************************************************)
Leads(p, q, height) ==
  \/ match.ko[p] > match.ko[q]
  \/ match.ko[p] = match.ko[q] /\ match.sent[p] > match.sent[q]
  \/ match.ko[p] = match.ko[q] /\ match.sent[p] = match.sent[q] /\ height[p] < height[q]

Leader(height) ==
  LET ahead == {p \in InMatch : \A q \in InMatch \ {p} : Leads(p, q, height)}
  IN  IF ahead = {} THEN NoPlayer ELSE CHOOSE p \in ahead : TRUE

Winners == {Leader(height) : height \in [InMatch -> 0 .. 1]}

Tick(next) == Life!TimeIsUp(Outline) /\ match' = next
=============================================================================
