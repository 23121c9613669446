--------------------------- MODULE ClientRuntime ----------------------------
(***************************************************************************)
(* The connection of a client.  Models client/network_session.py, and of   *)
(* client/versus_session.py what its users look at: which match it plays   *)
(* and whether that has a result.                                          *)
(*                                                                         *)
(* One socket has two readers.  poll handles every message; tick of a      *)
(* versus session hands all it finds to the session, which understands     *)
(* only what is about a match.                                             *)
(***************************************************************************)
EXTENDS Naturals, Sequences, SequencesExt

CONSTANT NoSession   \* no versus session

VARIABLES
  runtime,   \* the fields of ClientNetworkRuntime
  inbox      \* datagrams at its socket, first come first

(* Mutant: a result is left to the versus session to find. *)
MatchMessageNoEnd == {"GarbageAssigned"}

(* What poll gives to _forward_match_message; see ServerPeer. *)
MatchMessage == {"GarbageAssigned", "MatchEnd"}

ConnectionState == {"DISCONNECTED", "CONNECTING", "QUEUED", "IN_MATCH", "ENDED"}

(* net: there is a socket; known: the session id is known. *)
Closed ==
  [net |-> FALSE, known |-> FALSE, connection |-> "DISCONNECTED", versus |-> NoSession]

Init == runtime = Closed /\ inbox = << >>

(***************************************************************************)
(* close and connect: a new player, a new socket.                          *)
(***************************************************************************)
Close == runtime' = Closed /\ inbox' = << >>

Connect ==
  /\ runtime' = [Closed EXCEPT !.net = TRUE, !.connection = "CONNECTING"]
  /\ inbox' = << >>

-----------------------------------------------------------------------------

(* Mutant: a session that has played a match does not start another. *)
SessionHandlesOneMatch(versus, m) ==
  IF m.type = "MatchEnd" /\ m.match = versus.match THEN [versus EXCEPT !.running = FALSE]
  ELSE versus

(***************************************************************************)
(* handle_server_message of the versus session; running ends with the      *)
(* result.                                                                 *)
(***************************************************************************)
SessionHandles(versus, m) ==
  IF m.type = "MatchStart" THEN [match |-> m.match, running |-> TRUE]
  ELSE IF m.type = "MatchEnd" /\ m.match = versus.match THEN [versus EXCEPT !.running = FALSE]
  ELSE versus

(* Mutant: a state ConnectionState does not have. *)
ConnectionOfPlayer(versus) == IF versus.running THEN "PLAYING" ELSE "ENDED"

(* The connection a versus session reports. *)
ConnectionOf(versus) == IF versus.running THEN "IN_MATCH" ELSE "ENDED"

Starts(r, m) == m.type = "MatchStart" /\ r.known
Forwards(r, m) == m.type \in MatchMessage /\ r.versus # NoSession

(***************************************************************************)
(* _handle_server_message: r as m leaves it.                               *)
(***************************************************************************)
Handles(r, m) ==
  CASE m.type = "ServerWelcome" -> [r EXCEPT !.known = TRUE, !.connection = "QUEUED"]
    [] m.type = "QueueStatus" -> [r EXCEPT !.connection = "QUEUED"]
    [] m.type = "JoinRejectedRoomFull" -> [r EXCEPT !.connection = "ENDED"]
    [] Starts(r, m) ->
         [r EXCEPT !.connection = "IN_MATCH",
                   !.versus = [match |-> m.match, running |-> TRUE]]
    [] Forwards(r, m) ->
         LET versus == SessionHandles(r.versus, m)
         IN  [r EXCEPT !.versus = versus, !.connection = ConnectionOf(versus)]
    [] OTHER -> r

Arrived(n) == SubSeq(inbox, 1, n)
TakeFromInbox(n) == inbox' = SubSeq(inbox, n + 1, Len(inbox))

(***************************************************************************)
(* poll, when n messages have arrived.  What it returns is about the last  *)
(* of them: a view of the game, or the connection alone.                   *)
(***************************************************************************)
Poll(n) ==
  /\ runtime' = FoldLeft(Handles, runtime, Arrived(n))
  /\ TakeFromInbox(n)

ReturnsView(n) == LET m == inbox[n] IN Starts(runtime', m) \/ Forwards(runtime', m)

(***************************************************************************)
(* tick: the session reads the socket first.                               *)
(***************************************************************************)
Tick(n) ==
  /\ runtime.versus # NoSession
  /\ runtime' = [runtime EXCEPT !.versus = FoldLeft(SessionHandles, @, Arrived(n))]
  /\ TakeFromInbox(n)
=============================================================================
