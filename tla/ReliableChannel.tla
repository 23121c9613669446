-------------------------- MODULE ReliableChannel ---------------------------
(***************************************************************************)
(* What the server keeps of reliable messages: those it has sent and the   *)
(* keys of those it has received.  Models net/reliability.py as app.py     *)
(* uses it.  The session is left out of the keys: a player has one in all  *)
(* of a match.  So is the time between resends: a pending message may be   *)
(* sent again at any time.  No client sends a ReliableAck, so there is no  *)
(* mark_acked.                                                             *)
(***************************************************************************)

VARIABLES
  pending,    \* _pending: messages sent again until acknowledged
  received    \* _received: keys of the messages that came in

Init == pending = {} /\ received = {}

(* Mutant: the sequence number is not scoped by the match. *)
KeyWithoutMatch(m) == [sender |-> m.sender, match |-> 1, seq |-> m.seq]

Key(m) == [sender |-> m.sender, match |-> m.match, seq |-> m.seq]

(***************************************************************************)
(* track_outgoing: the recipient is part of the key; a second message      *)
(* under the same key takes the place of the first.                        *)
(***************************************************************************)
SameEntry(m, n) == Key(m) = Key(n) /\ m.target = n.target

TrackOutgoing(ms) ==
  pending' = {n \in pending : \A m \in ms : ~SameEntry(m, n)} \union ms

(* Mutant: every copy of a message is applied. *)
IsNewAlways(m) == m = m

(***************************************************************************)
(* mark_received: only the first copy of a message is applied.             *)
(***************************************************************************)
IsNew(m) == Key(m) \notin received

MarkReceived(m) == received' = received \union {Key(m)}
=============================================================================
