----------------------------- MODULE ServerPeer -----------------------------
(***************************************************************************)
(* The server as one client sees it: what server/app.py has for the client *)
(* and the messages it sends it, in the order of its handlers.  The other  *)
(* players join, leave, time out and score whenever they like.             *)
(***************************************************************************)
EXTENDS Naturals, Sequences, SequencesExt

CONSTANTS
  MaxMatches,   \* bound: matches of one connection
  MaxInbox      \* bound: datagrams not read yet

VARIABLES
  server,   \* what the server has for the client
  inbox     \* datagrams at the client's socket, or on their way to it

(***************************************************************************)
(* hello: a ClientHello is on its way; match: the running match the client *)
(* is in, 0 if none; last: the latest it was in.  lost: the network lost a *)
(* datagram of either of them, after which little can be promised.         *)
(***************************************************************************)
Stranger ==
  [hello |-> FALSE, session |-> FALSE, place |-> "none",
   match |-> 0, last |-> 0, lost |-> FALSE]

Place == {"none", "waiting", "active"}

TypeOK ==
  server \in [hello : BOOLEAN, session : BOOLEAN, place : Place,
              match : 0 .. MaxMatches, last : 0 .. MaxMatches, lost : BOOLEAN]

(* The client is another player, with another address, each time it connects. *)
Gone == server' = Stranger
SaysHello == server' = [Stranger EXCEPT !.hello = TRUE]

Msg(type) == [type |-> type, match |-> 0]
MatchMsg(type, m) == [type |-> type, match |-> m]

Sends(ms) == Len(inbox) + Len(ms) <= MaxInbox /\ inbox' = inbox \o ms

(* The next of the client's matches. *)
Started(s) == s.last + 1

(***************************************************************************)
(* _broadcast_queue_status and then start_if_ready, which starts a match   *)
(* of the active client if it has an opponent; s is the server before.     *)
(***************************************************************************)
Announces(first, s, starts) ==
  /\ starts => s.place = "active" /\ s.match = 0 /\ s.last < MaxMatches
  /\ server' = IF starts THEN [s EXCEPT !.match = Started(s), !.last = Started(s)] ELSE s
  /\ Sends(first \o << Msg("QueueStatus") >>
           \o IF starts THEN << MatchMsg("MatchStart", Started(s)) >> ELSE << >>)

(***************************************************************************)
(* _handle_hello.                                                          *)
(***************************************************************************)
Rejects ==
  /\ server.hello
  /\ server' = [server EXCEPT !.hello = FALSE]
  /\ Sends(<< Msg("JoinRejectedRoomFull") >>)

Welcomes ==
  /\ server.hello
  /\ \E place \in {"waiting", "active"}, starts \in BOOLEAN :
       Announces(<< Msg("ServerWelcome") >>,
                 [server EXCEPT !.hello = FALSE, !.session = TRUE, !.place = place], starts)

(***************************************************************************)
(* Somebody else joins, goes or is rotated out: the client may move up.    *)
(***************************************************************************)
RoomChanges ==
  /\ server.place # "none"
  /\ \E place \in {server.place, "active"}, starts \in BOOLEAN :
       Announces(<< >>, [server EXCEPT !.place = place], starts)

(***************************************************************************)
(* The client's match ends: the winner stays in the room, and may play     *)
(* again at once; the loser, and both of a draw, are out and hear no more. *)
(* Nobody is told of the room if it is a timeout that ends the match.      *)
(***************************************************************************)
Over == [server EXCEPT !.match = 0]

MatchEndSent == << MatchMsg("MatchEnd", server.match) >>

WinsMatch ==
  /\ server.match # 0
  /\ \/ \E starts \in BOOLEAN : Announces(MatchEndSent, Over, starts)
     \/ server' = Over /\ Sends(MatchEndSent)

LosesMatch ==
  /\ server.match # 0
  /\ server' = [Over EXCEPT !.place = "none"]
  /\ Sends(MatchEndSent)

(***************************************************************************)
(* What the client gets in a match.  GarbageAssigned stands for all that   *)
(* leaves the result open, RespawnAssigned and OpponentStateSummary too.   *)
(* Reliable messages are never acknowledged and are resent after the end.  *)
(***************************************************************************)
AssignsGarbage ==
  /\ server.session
  /\ \E m \in 1 .. server.last : Sends(<< MatchMsg("GarbageAssigned", m) >>)
  /\ UNCHANGED server

(* The answer to a heartbeat, an ack, PlayerLeft: nothing the client heeds. *)
Answers ==
  /\ server.session
  /\ Sends(<< Msg("ClockSync") >>)
  /\ UNCHANGED server

-----------------------------------------------------------------------------
(* The network loses a datagram, or so many heartbeats that the server     *)
(* forgets the client, which it does not tell.                             *)

LosesHello ==
  /\ server.hello
  /\ server' = [server EXCEPT !.hello = FALSE, !.lost = TRUE]
  /\ UNCHANGED inbox

Loses ==
  /\ \E i \in DOMAIN inbox : inbox' = RemoveAt(inbox, i)
  /\ server' = [server EXCEPT !.lost = TRUE]

Forgets ==
  /\ server.session
  /\ server' = [Stranger EXCEPT !.last = server.last, !.lost = TRUE]
  /\ UNCHANGED inbox

Next ==
  \/ Rejects \/ Welcomes
  \/ RoomChanges \/ WinsMatch \/ LosesMatch
  \/ AssignsGarbage \/ Answers
  \/ LosesHello \/ Loses \/ Forgets
=============================================================================
