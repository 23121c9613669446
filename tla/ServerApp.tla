----------------------------- MODULE ServerApp ------------------------------
(***************************************************************************)
(* The headless server: sessions, room and match under the handlers of     *)
(* server/app.py.  One action per datagram the server handles, one for the *)
(* timeouts and one for each timed-out session it then cleans up, one for  *)
(* the end of a match by the clock.  The process has one thread, so a      *)
(* handler is one step; only the loop over the timed-out sessions has a    *)
(* step per session, and nothing else happens in between.                  *)
(***************************************************************************)
EXTENDS Naturals, Sequences, FiniteSets, SequencesExt

CONSTANTS
  Players, NoPlayer, NoMatch,
  ActiveCount, WaitingCapacity, KoTarget, MatchTicks,   \* MatchConfig
  Timeout,        \* NetworkConfig.session_timeout_seconds, in ticks
  MaxSessions,    \* bound: sessions opened in one behaviour
  Leavers,        \* players whose client may send a DisconnectNotice
  Unreliable      \* players whose datagrams may stop, or arrive long after

(* MatchConfig.__post_init__ and NetworkConfig.__post_init__. *)
ASSUME ConfigAssumption ==
  /\ ActiveCount \in Nat \ {0} /\ WaitingCapacity \in Nat
  /\ KoTarget \in Nat \ {0} /\ MatchTicks \in Nat \ {0}
  /\ Timeout \in Nat \ {0} /\ MaxSessions \in Nat
  /\ NoPlayer \notin Players
  /\ Leavers \subseteq Players /\ Unreliable \subseteq Players

(* None is no match record. *)
ASSUME NoMatchAssumption ==
  NoMatch \notin [players : Seq(Players),
                  ko : UNION {[ps -> 0 .. KoTarget] : ps \in SUBSET Players},
                  left : 0 .. MatchTicks]

VARIABLES
  bySession, byPlayer, byEndpoint, issued,   \* SessionManager
  active, waiting,                           \* QueueManager
  match,      \* MatchManager.current_match
  expired,    \* session ids expire_timed_out returned, still to be handled
  told,       \* the position each player of the room was last told
  out         \* what the last step sent, in order

Sessions == INSTANCE SessionManager WITH Endpoints <- Players, closed <- {}
Queue == INSTANCE QueueManager
Match == INSTANCE MatchLifecycle

sessionVars == << bySession, byPlayer, byEndpoint, issued >>
queueVars == << active, waiting >>
vars == << sessionVars, queueVars, match, expired, told, out >>

Queued == Queue!Queued

(* No QueueStatus has reached the player since the player joined. *)
NotTold == WaitingCapacity + 1

MessageType ==
  {"ServerWelcome", "JoinRejectedRoomFull", "PlayerLeft", "MatchEnd", "MatchStart"}

Message ==
  [type : MessageType, about : SUBSET (Players \union {NoPlayer}), to : SUBSET Players]

TypeOK ==
  /\ Sessions!TypeOK /\ Queue!TypeOK
  /\ \/ match = NoMatch
     \/ /\ match.players \in Seq(Players) /\ Len(match.players) = ActiveCount
        /\ match.ko \in [ToSet(match.players) -> 0 .. KoTarget - 1]
        /\ match.left \in 0 .. MatchTicks
  /\ expired \subseteq DOMAIN issued
  /\ told \in [Players -> 0 .. NotTold]
  /\ out \in Seq(Message)

Init ==
  /\ bySession = << >> /\ byPlayer = << >> /\ byEndpoint = << >>
  /\ issued = << >>
  /\ Queue!Init
  /\ match = NoMatch
  /\ expired = {}
  /\ told = [p \in Players |-> NotTold]
  /\ out = << >>

-----------------------------------------------------------------------------
(* What a handler sends.  Every operator is read in the state it leaves.   *)

(***************************************************************************)
(* _send_to_player: only a player with a session has an address.           *)
(***************************************************************************)
Sent(type, about, to) ==
  << [type |-> type, about |-> about,
      to |-> {p \in to : Sessions!HasSession(p)'}] >>

(* _send: the answer to a hello goes to the address it came from. *)
Direct(type, p) == << [type |-> type, about |-> {p}, to |-> {p}] >>

(***************************************************************************)
(* _broadcast_one: the players in the room and those of the running match. *)
(***************************************************************************)
Everyone(room, m) == room \union Match!InMatch(m)

(***************************************************************************)
(* _broadcast_queue_status: each player of the room is told the position.  *)
(***************************************************************************)
Told ==
  [p \in Players |->
     IF p \notin Queued' THEN NotTold
     ELSE IF Sessions!HasSession(p)' THEN Queue!Position(p)' ELSE told[p]]

NotBroadcast == [p \in Players |-> IF p \in Queued' THEN told[p] ELSE NotTold]

(***************************************************************************)
(* start_if_ready and the MatchStart it returns, sent to the two players.  *)
(***************************************************************************)
StartIfReady(m) ==
  /\ match' = Match!StartIfReady(m, active')
  /\ told' = Told

MatchStartSent(m) ==
  LET ps == Match!InMatch(match')
  IN  IF m = match' THEN << >> ELSE Sent("MatchStart", ps, ps)

-----------------------------------------------------------------------------
(* The handlers. *)

Idle == expired = {}

(***************************************************************************)
(* _handle_hello.  A full room answers with a rejection and forgets the    *)
(* client; a player who has a session is welcomed but not queued again.    *)
(***************************************************************************)
HelloRejected(p) ==
  /\ ~Queue!WouldAccept(p)
  /\ out' = Direct("JoinRejectedRoomFull", p)
  /\ UNCHANGED << sessionVars, queueVars, match, expired, told >>

HelloAccepted(p) ==
  /\ Queue!WouldAccept(p)
  /\ Sessions!HandleClientHello(p, p)
  /\ IF Sessions!HasSession(p) THEN UNCHANGED queueVars ELSE Queue!Join(p)
  /\ StartIfReady(match)
  /\ out' = Direct("ServerWelcome", p) \o MatchStartSent(match)
  /\ UNCHANGED expired

(* A client says hello once, with an id of its own; the network may repeat *)
(* the datagram, long after the session only for an unreliable player.     *)
MaySayHello(p) ==
  p \notin ToSet(issued) \/ Sessions!HasSession(p) \/ p \in Unreliable

Hello(p) == Idle /\ MaySayHello(p) /\ (HelloRejected(p) \/ HelloAccepted(p))

(***************************************************************************)
(* _handle_heartbeat.                                                      *)
(***************************************************************************)
Heartbeat(s) ==
  /\ Idle
  /\ s \in DOMAIN bySession /\ bySession[s].idle > 0
  /\ Sessions!HandleHeartbeat(s, issued[s], issued[s])
  /\ out' = << >>
  /\ UNCHANGED << queueVars, match, expired, told >>

(* Mutant: the match goes on without the player. *)
PlayerGoneMatchGoesOn(p) ==
  /\ Queue!Leave(p)
  /\ match' = match
  /\ out' = Sent("PlayerLeft", {p}, Everyone(Queued', match))

(***************************************************************************)
(* queue.leave and handle_player_left: the match of a player who goes is   *)
(* over, and the opponent has won it.  The room has closed up by then.     *)
(***************************************************************************)
PlayerGone(p) ==
  /\ Queue!Leave(p)
  /\ IF p \in Match!InMatch(match)
     THEN /\ match' = NoMatch
          /\ out' = Sent("PlayerLeft", {p}, Queued')
                    \o Sent("MatchEnd", {Match!OpponentOf(match, p)}, Queued')
     ELSE /\ match' = match
          /\ out' = Sent("PlayerLeft", {p}, Everyone(Queued', match))

(***************************************************************************)
(* _handle_disconnect: tells the room, but starts no match.                *)
(***************************************************************************)
Disconnect(s) ==
  /\ Idle
  /\ issued[s] \in Leavers
  /\ Sessions!Disconnect(s, issued[s])
  /\ PlayerGone(issued[s])
  /\ told' = Told
  /\ UNCHANGED expired

(* Mutants: only the first timed-out player is cleaned up; a match is      *)
(* started as soon as the place of one is filled.                          *)
ExpireSessionsFirstOnly ==
  /\ Idle
  /\ Sessions!ExpireTimedOut
  /\ expired' = {Min(Sessions!TimedOut)}
  /\ out' = << >>
  /\ UNCHANGED << queueVars, match, told >>

ExpireOneStarts ==
  /\ ~Idle
  /\ UNCHANGED sessionVars
  /\ LET s == Min(expired)
     IN  /\ Queue!Leave(issued[s])
         /\ expired' = expired \ {s}
         /\ StartIfReady(IF issued[s] \in Match!InMatch(match) THEN NoMatch ELSE match)
         /\ out' = IF match' = match THEN << >>
                   ELSE Sent("MatchEnd", {Match!OpponentOf(match, issued[s])}, Queued')
                        \o MatchStartSent(NoMatch)

(***************************************************************************)
(* _expire_sessions: the records go at once, then each player's place,     *)
(* in the order of the dict; the room is not told, no match is started.    *)
(***************************************************************************)
ExpireSessions ==
  /\ Idle
  /\ Sessions!ExpireTimedOut
  /\ expired' = Sessions!TimedOut
  /\ out' = << >>
  /\ UNCHANGED << queueVars, match, told >>

ExpireOne ==
  /\ ~Idle
  /\ UNCHANGED sessionVars
  /\ LET s == Min(expired)
     IN  /\ PlayerGone(issued[s])
         /\ expired' = expired \ {s}
  /\ told' = NotBroadcast

(* Mutants: the queue is rotated before the broadcast; the next match is   *)
(* left to the next hello.                                                 *)
MatchOverRotatedFirst(winner) ==
  /\ UNCHANGED << sessionVars, expired >>
  /\ Queue!RotateAfterMatch(winner)
  /\ StartIfReady(NoMatch)
  /\ out' = Sent("MatchEnd", {winner}, Queued') \o MatchStartSent(NoMatch)

MatchOverNoNextMatch(winner) ==
  /\ UNCHANGED << sessionVars, expired >>
  /\ Queue!RotateAfterMatch(winner)
  /\ match' = NoMatch
  /\ told' = Told
  /\ out' = Sent("MatchEnd", {winner}, Queued)

(***************************************************************************)
(* The end of a match that was played out: MatchEnd to all, then the next  *)
(* line-up, its positions, and the next match if there are enough players. *)
(***************************************************************************)
MatchOver(winner) ==
  /\ UNCHANGED << sessionVars, expired >>
  /\ Queue!RotateAfterMatch(winner)
  /\ StartIfReady(NoMatch)
  /\ out' = Sent("MatchEnd", {winner}, Queued) \o MatchStartSent(NoMatch)

(***************************************************************************)
(* _handle_reliable, for a KO report of the running match that was not     *)
(* seen before.                                                            *)
(***************************************************************************)
KOScored(victim) ==
  /\ ~Match!KoTargetReached(match, victim)
  /\ match' = Match!KoScored(match, victim)
  /\ out' = << >>
  /\ UNCHANGED << sessionVars, queueVars, expired, told >>

KOReported(victim) ==
  /\ Idle
  /\ victim \in Match!InMatch(match)
  /\ Match!OpponentOf(match, victim) # NoPlayer
  /\ \/ KOScored(victim)
     \/ /\ Match!KoTargetReached(match, victim)
        /\ MatchOver(Match!OpponentOf(match, victim))

(***************************************************************************)
(* _tick_match.                                                            *)
(***************************************************************************)
TickMatch ==
  /\ Idle
  /\ Match!TimeIsUp(match)
  /\ \E winner \in Match!PossibleWinners(match) : MatchOver(winner)

(***************************************************************************)
(* The clock.  A client that is not unreliable is heard of before its      *)
(* session times out: it sends four heartbeats in that time.               *)
(***************************************************************************)
Advance ==
  /\ Idle
  /\ \A s \in DOMAIN bySession :
       issued[s] \notin Unreliable => bySession[s].idle + 1 < Timeout
  /\ Sessions!Advance
  /\ match' = Match!Aged(match)
  /\ out' = << >>
  /\ UNCHANGED << queueVars, expired, told >>

Next ==
  \/ \E p \in Players : Hello(p) \/ KOReported(p)
  \/ \E s \in DOMAIN issued : Heartbeat(s) \/ Disconnect(s)
  \/ ExpireSessions \/ ExpireOne
  \/ TickMatch
  \/ Advance

Spec == Init /\ [][Next]_vars

(***************************************************************************)
(* The server polls for ever, time passes, and the heartbeats of a client  *)
(* are handled in time (client/network.py sends one every half second).    *)
(* Nobody has to say hello, to score or to go.                             *)
(***************************************************************************)
Fairness ==
  /\ WF_vars(ExpireSessions) /\ WF_vars(ExpireOne) /\ WF_vars(TickMatch)
  /\ WF_vars(Advance)
  /\ \A s \in 1 .. MaxSessions : WF_vars(s \in DOMAIN issued /\ Heartbeat(s))

FairSpec == Spec /\ Fairness

-----------------------------------------------------------------------------

(***************************************************************************)
(* The players of the running match are exactly the active players of the  *)
(* room, in order: no join, departure, timeout or rotation changes the     *)
(* line-up under a match that goes on.                                     *)
(***************************************************************************)
MatchIsTheLineUp == match # NoMatch => match.players = active

(***************************************************************************)
(* Whoever has a place in the room has a session, or is a timed-out player *)
(* whose place the server is about to take away.  A place without a        *)
(* session would never be freed: only the end of a session frees one.      *)
(***************************************************************************)
PlacesHaveSessions ==
  \A p \in Queued :
    Sessions!HasSession(p) \/ \E s \in expired : issued[s] = p

(***************************************************************************)
(* Between two handlers, what a player of the room was last told of the    *)
(* position is still true: every change of the room is announced to        *)
(* everyone it concerns.                                                   *)
(***************************************************************************)
AnnouncedPositions ==
  Idle => \A p \in Queued : told[p] = Queue!Position(p)

(* The match of the last state is over: gone, or replaced by another. *)
Ended == match # NoMatch /\ match' # match /\ Match!InMatch(match') # Match!InMatch(match)

Announced(type) == {i \in DOMAIN out' : out'[i].type = type}

(***************************************************************************)
(* A match ends with one MatchEnd, which reaches each of its players who   *)
(* still has a session, and comes before any MatchStart; no other step     *)
(* sends one.  (The queue is rotated after the broadcast, which goes to    *)
(* the queue.)                                                             *)
(***************************************************************************)
MatchEndReachesPlayers ==
  [][IF Ended
     THEN \E i \in DOMAIN out' :
            /\ Announced("MatchEnd") = {i}
            /\ \A p \in Match!InMatch(match) :
                 Sessions!HasSession(p)' => p \in out'[i].to
            /\ \A j \in Announced("MatchStart") : i < j
     ELSE Announced("MatchEnd") = {}]_vars

(***************************************************************************)
(* The winner stays on, at the head of the line-up; everybody else who     *)
(* played is out of the room, however the match ended, and nobody of them  *)
(* stays if nobody has won.                                                *)
(***************************************************************************)
WinnerStaysOn ==
  [][\A i \in Announced("MatchEnd") :
       \E winner \in Match!InMatch(match) \union {NoPlayer} :
         /\ out'[i].about = {winner}
         /\ Match!InMatch(match) \intersect Queued' = {winner} \ {NoPlayer}
         /\ winner # NoPlayer => active'[1] = winner]_vars

(***************************************************************************)
(* A new match is announced to every one of its players: none of them has  *)
(* lost the session on the way, and none plays without knowing it.         *)
(***************************************************************************)
MatchStartReachesPlayers ==
  [][match' # NoMatch /\ Match!InMatch(match') # Match!InMatch(match) =>
       \E i \in Announced("MatchStart") :
         out'[i].to = Match!InMatch(match') /\ Cardinality(out'[i].to) = ActiveCount]_vars

(***************************************************************************)
(* Those who wait get to play, unless they go: the server does not get     *)
(* stuck.                                                                  *)
(***************************************************************************)
WaitersPlay ==
  \A p \in Players : p \in ToSet(waiting) ~> p \notin ToSet(waiting)

(***************************************************************************)
(* A match comes to its end, if only by the clock: two players who play    *)
(* each other stop doing so.  (They cannot meet twice in a row, for the    *)
(* loser is out.)                                                          *)
(***************************************************************************)
MatchesEnd ==
  \A p, q \in Players :
    p # q =>
      ({p, q} \subseteq Match!InMatch(match)
         ~> ~({p, q} \subseteq Match!InMatch(match)))
=============================================================================
