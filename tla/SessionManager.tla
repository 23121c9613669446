--------------------------- MODULE SessionManager ---------------------------
(***************************************************************************)
(* The sessions of the server.  Models server/sessions.py: three indexes   *)
(* of the same records, kept in step by every handler.                     *)
(*                                                                         *)
(* A session id is the number of its hello (uuids in the code: fresh, and  *)
(* in the order in which the records entered the dict).  The clock is kept *)
(* as the age of each record, capped at the timeout.  Datagrams arrive     *)
(* late and more than once: a heartbeat or a disconnect notice may carry   *)
(* any session id that was ever given out.                                 *)
(***************************************************************************)
EXTENDS Naturals, Sequences, FiniteSets, Functions, TLC

CONSTANTS
  Players,       \* player ids
  Endpoints,     \* UDP addresses
  Timeout,       \* session_timeout_seconds, in ticks of the clock
  MaxSessions    \* bound: sessions opened in one behaviour

ASSUME TimeoutAssumption == Timeout \in Nat \ {0}
ASSUME MaxSessionsAssumption == MaxSessions \in Nat

VARIABLES
  bySession,   \* _by_session: session id -> record
  byPlayer,    \* _by_player: player -> session id
  byEndpoint,  \* _by_endpoint: address -> session id
  issued,      \* the player of each session id given out so far
  closed       \* session ids whose client has sent its DisconnectNotice

sessionVars == << bySession, byPlayer, byEndpoint, issued >>
vars == << sessionVars, closed >>

SessionIds == 1 .. MaxSessions
SessionRecord == [player : Players, endpoint : Endpoints, idle : 0 .. Timeout]
Issued == DOMAIN issued

TypeOK ==
  /\ issued \in Seq(Players) /\ Len(issued) <= MaxSessions
  /\ DOMAIN bySession \subseteq Issued
  /\ \A s \in DOMAIN bySession : bySession[s] \in SessionRecord
  /\ DOMAIN byPlayer \subseteq Players
  /\ \A p \in DOMAIN byPlayer : byPlayer[p] \in Issued
  /\ DOMAIN byEndpoint \subseteq Endpoints
  /\ \A e \in DOMAIN byEndpoint : byEndpoint[e] \in Issued
  /\ closed \subseteq Issued

Init ==
  /\ bySession = << >> /\ byPlayer = << >> /\ byEndpoint = << >>
  /\ issued = << >>
  /\ closed = {}

-----------------------------------------------------------------------------

(* dict.pop(key, None) for a set of keys, and dict[key] = value. *)
Without(f, keys) == Restrict(f, DOMAIN f \ keys)
With(f, key, value) == [k \in DOMAIN f \union {key} |-> IF k = key THEN value ELSE f[k]]

(***************************************************************************)
(* find_by_player goes through both indexes.                               *)
(***************************************************************************)
HasSession(p) == p \in DOMAIN byPlayer /\ byPlayer[p] \in DOMAIN bySession

(***************************************************************************)
(* _store: a record just seen enters the three indexes; endpoints is the   *)
(* endpoint index without the entry the record is leaving, if any.         *)
(***************************************************************************)
Store(s, p, e, endpoints) ==
  /\ bySession' = With(bySession, s, [player |-> p, endpoint |-> e, idle |-> 0])
  /\ byPlayer' = With(byPlayer, p, s)
  /\ byEndpoint' = With(endpoints, e, s)

(* Mutant of _replace_record: the old address stays in the index. *)
ReplaceRecordKeepingAddress(s, e) == Store(s, bySession[s].player, e, byEndpoint)

(***************************************************************************)
(* _replace_record: the session is seen again, perhaps from elsewhere.     *)
(***************************************************************************)
ReplaceRecord(s, e) ==
  Store(s, bySession[s].player, e, Without(byEndpoint, {bySession[s].endpoint}))

(***************************************************************************)
(* handle_client_hello: a player with a session keeps it.                  *)
(***************************************************************************)
HelloAgain(p, e) ==
  /\ HasSession(p)
  /\ ReplaceRecord(byPlayer[p], e)
  /\ UNCHANGED issued

(* Mutant of handle_client_hello: two arguments of the record swapped. *)
HelloNewSwapped(p, e) ==
  /\ ~HasSession(p)
  /\ Len(issued) < MaxSessions
  /\ Store(Len(issued) + 1, e, p, byEndpoint)
  /\ issued' = Append(issued, p)

HelloNew(p, e) ==
  /\ ~HasSession(p)
  /\ Len(issued) < MaxSessions
  /\ Store(Len(issued) + 1, p, e, byEndpoint)
  /\ issued' = Append(issued, p)

HandleClientHello(p, e) == HelloAgain(p, e) \/ HelloNew(p, e)

(* Mutant of handle_heartbeat: an ended session comes back to life. *)
HeartbeatReopens(s, p, e) ==
  /\ Store(s, p, e, byEndpoint)
  /\ UNCHANGED issued

(***************************************************************************)
(* handle_heartbeat: refreshes the session it names, if that is still open *)
(* and belongs to the player it names.                                     *)
(***************************************************************************)
HandleHeartbeat(s, p, e) ==
  /\ s \in DOMAIN bySession /\ bySession[s].player = p
  /\ ReplaceRecord(s, e)
  /\ UNCHANGED issued

(* Mutants of remove_player: an index keeps what the others forget. *)
RemovePlayersKeepingIndex(ps) ==
  LET gone == {byPlayer[p] : p \in ps \intersect DOMAIN byPlayer}
  IN  /\ bySession' = Without(bySession, gone)
      /\ UNCHANGED << byPlayer, byEndpoint >>

RemovePlayersKeepingRecords(ps) ==
  /\ byPlayer' = Without(byPlayer, ps)
  /\ UNCHANGED << bySession, byEndpoint >>

(***************************************************************************)
(* remove_player for each of a set of players: it goes from the player to  *)
(* the session, and from the record to the address.                        *)
(***************************************************************************)
RemovePlayers(ps) ==
  LET gone == {byPlayer[p] : p \in ps \intersect DOMAIN byPlayer}
      left == {bySession[s].endpoint : s \in gone \intersect DOMAIN bySession}
  IN  /\ byPlayer' = Without(byPlayer, ps)
      /\ bySession' = Without(bySession, gone)
      /\ byEndpoint' = Without(byEndpoint, left)

(* Mutant of disconnect: the notice ends whatever session the player has. *)
DisconnectByPlayer(s, p) ==
  /\ HasSession(p)
  /\ RemovePlayers({p})
  /\ UNCHANGED issued

(***************************************************************************)
(* disconnect: only the session the notice names, and only for its player. *)
(***************************************************************************)
Disconnect(s, p) ==
  /\ s \in DOMAIN bySession /\ bySession[s].player = p
  /\ RemovePlayers({p})
  /\ UNCHANGED issued

(***************************************************************************)
(* expire_timed_out: every record not seen for the timeout, at once.       *)
(***************************************************************************)
TimedOut == {s \in DOMAIN bySession : bySession[s].idle >= Timeout}

ExpireTimedOut ==
  /\ TimedOut # {}
  /\ RemovePlayers({bySession[s].player : s \in TimedOut})
  /\ UNCHANGED issued

(***************************************************************************)
(* The clock moves on: what is not refreshed gets older.                   *)
(***************************************************************************)
Older(r) == IF r.idle < Timeout THEN [r EXCEPT !.idle = @ + 1] ELSE r

Advance ==
  /\ bySession' = [s \in DOMAIN bySession |-> Older(bySession[s])]
  /\ UNCHANGED << byPlayer, byEndpoint, issued >>

(***************************************************************************)
(* The clients: a client ends its session once; the notice is delivered    *)
(* any number of times from then on.  A notice and a heartbeat name the    *)
(* player to whom the session was given.                                   *)
(***************************************************************************)
CloseSession(s) ==
  /\ s \notin closed
  /\ closed' = closed \union {s}
  /\ UNCHANGED sessionVars

Next ==
  \/ \E p \in Players, e \in Endpoints :
       HandleClientHello(p, e) /\ UNCHANGED closed
  \/ \E s \in Issued, e \in Endpoints :
       HandleHeartbeat(s, issued[s], e) /\ UNCHANGED closed
  \/ \E s \in closed : Disconnect(s, issued[s]) /\ UNCHANGED closed
  \/ ExpireTimedOut /\ UNCHANGED closed
  \/ Advance /\ UNCHANGED closed
  \/ \E s \in Issued : CloseSession(s)

Spec == Init /\ [][Next]_vars

(* poll_once is called for ever, and the clock does not stop. *)
FairSpec ==
  /\ Spec
  /\ WF_vars(ExpireTimedOut /\ UNCHANGED closed)
  /\ WF_vars(Advance /\ UNCHANGED closed)

-----------------------------------------------------------------------------

(***************************************************************************)
(* The player index and the records name each other: nobody has two        *)
(* sessions, and no record is out of reach of remove_player, which is how  *)
(* disconnect and expire_timed_out take a record away.                     *)
(***************************************************************************)
PlayerIndexExact ==
  /\ \A p \in DOMAIN byPlayer :
       byPlayer[p] \in DOMAIN bySession /\ bySession[byPlayer[p]].player = p
  /\ \A s \in DOMAIN bySession :
       LET p == bySession[s].player IN p \in DOMAIN byPlayer /\ byPlayer[p] = s

(***************************************************************************)
(* An address in the endpoint index leads to an open session that was last *)
(* seen there, although clients move and share addresses (_replace_record  *)
(* and remove_player pop the old address whoever holds it).                *)
(***************************************************************************)
EndpointIndexSound ==
  \A e \in DOMAIN byEndpoint :
    /\ byEndpoint[e] \in DOMAIN bySession
    /\ bySession[byEndpoint[e]].endpoint = e

(***************************************************************************)
(* A session ends only because its own client has ended it or because it   *)
(* was not heard of for the timeout: neither a notice of an earlier        *)
(* session of the same player nor the end of another session ends it.      *)
(***************************************************************************)
NoLiveSessionLost ==
  [][\A s \in DOMAIN bySession \ (DOMAIN bySession)' :
       s \in closed \/ bySession[s].idle >= Timeout]_vars

(***************************************************************************)
(* A session id is never open again once its session has ended: late       *)
(* heartbeats of it change nothing.                                        *)
(***************************************************************************)
EndedStaysEnded ==
  [][\A s \in (DOMAIN bySession)' \ DOMAIN bySession : s \notin Issued]_vars

(***************************************************************************)
(* A session that is not heard of is heard of again or ends.               *)
(***************************************************************************)
SilenceEnds ==
  \A s \in SessionIds :
    (s \in DOMAIN bySession /\ bySession[s].idle > 0)
      ~> (s \notin DOMAIN bySession \/ bySession[s].idle = 0)
=============================================================================
