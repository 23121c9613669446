-------------------------------- MODULE Line --------------------------------
(***************************************************************************)
(* What the room promises its players: one first-come first-served line.   *)
(* The first ActiveCount players of the line play, the others wait, and    *)
(* after a match at most one of those who played, the winner, keeps a      *)
(* place, at the head.  QueueManager keeps two lists instead of one line;  *)
(* it is shown to implement this module.                                   *)
(***************************************************************************)
EXTENDS Naturals, Sequences, SequencesExt

CONSTANTS
  Players,      \* the player identifiers
  ActiveCount,  \* how many players a match takes
  Capacity      \* how many players the room holds in all

VARIABLE line

Playing == {i \in DOMAIN line : i <= ActiveCount}

Init == line = << >>

(***************************************************************************)
(* A newcomer goes to the end of the line, if the room is not full.        *)
(***************************************************************************)
Join(p) ==
  /\ p \notin ToSet(line)
  /\ Len(line) < Capacity
  /\ line' = Append(line, p)

(***************************************************************************)
(* Anyone may go; the others close up and keep their order.                *)
(***************************************************************************)
Leave(p) ==
  \E i \in DOMAIN line :
    /\ line[i] = p
    /\ line' = RemoveAt(line, i)

(***************************************************************************)
(* A match ends: of those who played, nobody or one stays, at the head.    *)
(***************************************************************************)
Rotate ==
  \E kept \in {<< >>} \union {<< line[i] >> : i \in Playing} :
    line' = kept \o SubSeq(line, ActiveCount + 1, Len(line))

Next ==
  \/ \E p \in Players : Join(p) \/ Leave(p)
  \/ Rotate

Spec == Init /\ [][Next]_line
=============================================================================
