--------------------------- MODULE ServerAppProofs ---------------------------
(***************************************************************************)
(* Proofs about the server: room, sessions and match agree after every     *)
(* handler, and the messages of a match reach those they concern. What     *)
(* sessions and room do is taken from the proofs of SessionManager and     *)
(* QueueManager.                                                           *)
(***************************************************************************)
EXTENDS ServerApp, SequenceTheorems, FiniteSetTheorems, TLAPS

(***************************************************************************)
(* The sessions of the server are those of SessionManagerProofs: one       *)
(* address for each player, and nothing is known of how a session was      *)
(* closed.                                                                 *)
(***************************************************************************)
SP == INSTANCE SessionManagerProofs WITH Endpoints <- Players, closed <- {}

(* The room of the server is that of QueueManagerProofs. *)
QP == INSTANCE QueueManagerProofs

-----------------------------------------------------------------------------
(* The invariant. *)

(* The invariants of the sessions (SessionManager). *)
SessionsSound ==
  Sessions!TypeOK /\ Sessions!PlayerIndexExact /\ Sessions!EndpointIndexSound

(* The invariants of the room (QueueManager). *)
RoomSound == Queue!TypeOK /\ Queue!NoIdlePlace /\ Queue!NobodyTwice

(***************************************************************************)
(* No match, or a whole record of a match between the players of this      *)
(* line-up.                                                                *)
(***************************************************************************)
MatchOf(m, line) ==
  \/ m = NoMatch
  \/ /\ m = [players |-> m.players, ko |-> m.ko, left |-> m.left]
     /\ m.players = line /\ Len(line) = ActiveCount
     /\ m.ko \in [ToSet(line) -> 0 .. KoTarget - 1]
     /\ m.left \in 0 .. MatchTicks

(* The match is one between the active players of the room. *)
MatchOK == MatchOf(match, active)

(* A session belongs to whom it was given. *)
RecordsAsIssued == \A s \in DOMAIN bySession : bySession[s].player = issued[s]

(* Whoever has timed out and still has a place has no session any more. *)
ExpiredAreGone == \A s \in expired : ~Sessions!HasSession(issued[s])

(***************************************************************************)
(* The inductive invariant. MatchIsTheLineUp is in MatchOK;                *)
(* PlacesHaveSessions needs the index of the players (SessionsSound) to    *)
(* know that an end of a session is that of its player, and ExpiredAreGone *)
(* to know that the player is still to be taken out.                       *)
(***************************************************************************)
IInv ==
  /\ SessionsSound /\ RecordsAsIssued
  /\ RoomSound /\ MatchOK
  /\ expired \subseteq DOMAIN issued /\ ExpiredAreGone /\ PlacesHaveSessions
  /\ told \in [Players -> 0 .. NotTold] /\ out \in Seq(Message)

-----------------------------------------------------------------------------
(* The sessions. *)

(* The sessions of the server have the invariant of SessionManagerProofs. *)
LEMMA SameSessions ==
  /\ SP!IInv <=> SessionsSound
  /\ SP!IInv' <=> SessionsSound'
BY DEF SessionsSound, SP!IInv, SP!Indexes, SP!TypeOK, Sessions!TypeOK,
       SP!PlayerIndexExact, Sessions!PlayerIndexExact,
       SP!EndpointIndexSound, Sessions!EndpointIndexSound,
       SP!Issued, Sessions!Issued, SP!SessionRecord, Sessions!SessionRecord

(***************************************************************************)
(* The operations on sessions are those of SessionManagerProofs, which     *)
(* INSTANCE keeps as different operators.                                  *)
(***************************************************************************)
LEMMA SameSessionActions ==
  /\ \A p : SP!HasSession(p) <=> Sessions!HasSession(p)
  /\ \A p : SP!HasSession(p)' <=> Sessions!HasSession(p)'
  /\ \A p, e : SP!HelloNew(p, e) <=> Sessions!HelloNew(p, e)
  /\ \A s, e : SP!ReplaceRecord(s, e) <=> Sessions!ReplaceRecord(s, e)
  /\ \A ps : SP!RemovePlayers(ps) <=> Sessions!RemovePlayers(ps)
  /\ SP!Advance <=> Sessions!Advance
BY DEF SP!HasSession, Sessions!HasSession, SP!HelloNew, Sessions!HelloNew,
       SP!ReplaceRecord, Sessions!ReplaceRecord, SP!RemovePlayers, Sessions!RemovePlayers,
       SP!Advance, Sessions!Advance, SP!Older, Sessions!Older,
       SP!Store, Sessions!Store, SP!With, Sessions!With, SP!Without, Sessions!Without,
       SP!Restrict, Sessions!Restrict

(* Whoever has a session has a record. *)
LEMMA WhoHasSession ==
  /\ SessionsSound =>
       \A p : Sessions!HasSession(p) <=> \E s \in DOMAIN bySession : bySession[s].player = p
  /\ SessionsSound' =>
       \A p : Sessions!HasSession(p)' <=> \E s \in DOMAIN bySession' : bySession'[s].player = p
BY ConfigAssumption, SameSessions, SameSessionActions, SP!HasSessionMeans
   DEF SP!IInv, SP!Indexes

(* Sessions in use have been given out, to players. *)
LEMMA RecordsAreIssued ==
  ASSUME SessionsSound
  PROVE  /\ issued \in Seq(Players) /\ Len(issued) \in Nat /\ DOMAIN issued = 1 .. Len(issued)
         /\ DOMAIN bySession \subseteq DOMAIN issued
         /\ \A s \in DOMAIN issued : issued[s] \in Players
BY LenProperties, ElementOfSeq DEF SessionsSound, Sessions!TypeOK, Sessions!Issued

(* Nobody has lost a session, and only players of p have got one. *)
SessionsKept(p) ==
  /\ SessionsSound' /\ RecordsAsIssued'
  /\ DOMAIN issued \subseteq DOMAIN issued'
  /\ \A s \in DOMAIN issued : issued'[s] = issued[s]
  /\ \A q : Sessions!HasSession(q)' <=> Sessions!HasSession(q) \/ q \in p

(***************************************************************************)
(* A heartbeat, or a hello of a player who has a session, keeps everyone's *)
(* session.                                                                *)
(***************************************************************************)
LEMMA ReplaceRecordKeepsSessions ==
  ASSUME SessionsSound, RecordsAsIssued, NEW s \in DOMAIN bySession, NEW e \in Players,
         Sessions!ReplaceRecord(s, e), issued' = issued
  PROVE  SessionsKept({})
<1>1. SP!IInv /\ SP!ReplaceRecord(s, e)
  BY SameSessions, SameSessionActions
<1>2. SessionsSound'
  BY <1>1, ConfigAssumption, SameSessions, SP!ReplaceRecordKeepsIInv
<1>3. /\ DOMAIN bySession' = DOMAIN bySession
      /\ \A t \in DOMAIN bySession : bySession'[t].player = bySession[t].player
  BY <1>1, ConfigAssumption, SP!ReplaceRecordOwners
<1> QED  BY <1>2, <1>3, WhoHasSession DEF SessionsKept, RecordsAsIssued

(***************************************************************************)
(* A hello leaves its player with a session, and takes none away: nobody   *)
(* else is at the address.                                                 *)
(***************************************************************************)
LEMMA HelloKeepsSessions ==
  ASSUME SessionsSound, RecordsAsIssued, NEW p \in Players, Sessions!HandleClientHello(p, p)
  PROVE  SessionsKept({p})
<1>1. CASE Sessions!HelloAgain(p, p)
  <2>1. /\ byPlayer[p] \in DOMAIN bySession /\ Sessions!HasSession(p)
        /\ Sessions!ReplaceRecord(byPlayer[p], p) /\ issued' = issued
    BY <1>1 DEF Sessions!HelloAgain, Sessions!HasSession
  <2>2. SessionsKept({})
    BY <2>1, ReplaceRecordKeepsSessions
  <2> QED  BY <2>1, <2>2 DEF SessionsKept
<1>2. CASE Sessions!HelloNew(p, p)
  <2>1. SP!IInv /\ SP!HelloNew(p, p)
    BY <1>2, SameSessions, SameSessionActions
  <2>2. SessionsSound'
    BY <2>1, ConfigAssumption, SameSessions, SP!HelloNewKeepsIInv
  <2> DEFINE n == Len(issued) + 1
  <2>3. /\ DOMAIN bySession' = DOMAIN bySession \union {n} /\ bySession'[n].player = p
        /\ \A t \in DOMAIN bySession \ {n} : bySession'[t].player = bySession[t].player
    BY <2>1, ConfigAssumption, SP!HelloNewOwners
  <2>4. /\ n \notin DOMAIN bySession /\ n \notin DOMAIN issued
        /\ DOMAIN issued' = DOMAIN issued \union {n}
        /\ issued'[n] = p /\ \A s \in DOMAIN issued : issued'[s] = issued[s]
    <3>1. /\ issued \in Seq(Players) /\ Len(issued) \in Nat /\ DOMAIN issued = 1 .. Len(issued)
          /\ DOMAIN bySession \subseteq DOMAIN issued
      BY RecordsAreIssued
    <3>2. issued' = Append(issued, p)
      BY <1>2 DEF Sessions!HelloNew
    <3>3. /\ issued' \in Seq(Players) /\ Len(issued') = n /\ issued'[n] = p
          /\ \A s \in 1 .. Len(issued) : issued'[s] = issued[s]
      BY <3>1, <3>2, AppendProperties
    <3>4. DOMAIN issued' = 1 .. n
      BY <3>3, LenProperties
    <3> QED  BY <3>1, <3>3, <3>4
  <2> HIDE DEF n
  <2>5. RecordsAsIssued'
    <3>1. DOMAIN bySession \subseteq DOMAIN issued
      BY RecordsAreIssued
    <3> QED  BY <2>3, <2>4, <3>1 DEF RecordsAsIssued
  <2>6. \A q : Sessions!HasSession(q)' <=> Sessions!HasSession(q) \/ q = p
    BY <2>2, <2>3, <2>4, WhoHasSession
  <2> QED  BY <2>2, <2>4, <2>5, <2>6 DEF SessionsKept
<1> QED  BY <1>1, <1>2 DEF Sessions!HandleClientHello

(* The clock takes no session away. *)
LEMMA AdvanceKeepsSessions ==
  ASSUME SessionsSound, RecordsAsIssued, Sessions!Advance
  PROVE  SessionsKept({}) /\ issued' = issued
<1>1. SP!IInv /\ SP!Advance
  BY SameSessions, SameSessionActions
<1>2. SessionsSound' /\ issued' = issued
  BY <1>1, ConfigAssumption, SameSessions, SP!AdvanceKeepsIInv DEF Sessions!Advance
<1>3. /\ DOMAIN bySession' = DOMAIN bySession
      /\ \A t \in DOMAIN bySession : bySession'[t].player = bySession[t].player
  BY <1>1, ConfigAssumption, SP!AdvanceOwners DEF SP!IInv
<1> QED  BY <1>2, <1>3, WhoHasSession DEF SessionsKept, RecordsAsIssued

(* remove_player takes the sessions of these players and of nobody else. *)
LEMMA RemovePlayersEndsSessions ==
  ASSUME SessionsSound, RecordsAsIssued, NEW ps, Sessions!RemovePlayers(ps), issued' = issued
  PROVE  /\ SessionsSound' /\ RecordsAsIssued'
         /\ \A q : Sessions!HasSession(q)' <=> Sessions!HasSession(q) /\ q \notin ps
<1>1. SP!IInv /\ SP!RemovePlayers(ps)
  BY SameSessions, SameSessionActions
<1>2. SessionsSound'
  BY <1>1, ConfigAssumption, SameSessions, SP!RemovePlayersKeepsIInv
<1>3. /\ \A t : t \in DOMAIN bySession' <=>
                  t \in DOMAIN bySession /\ bySession[t].player \notin ps
      /\ \A t \in DOMAIN bySession' : bySession'[t].player = bySession[t].player
  BY <1>1, ConfigAssumption, SP!RemovePlayersOwners DEF SP!IInv, SP!Indexes
<1> QED  BY <1>2, <1>3, WhoHasSession DEF RecordsAsIssued

-----------------------------------------------------------------------------
(* The room. *)

(* The room of the server has the invariant of QueueManagerProofs. *)
LEMMA SameRoom ==
  /\ QP!IInv <=> RoomSound
  /\ QP!IInv' <=> RoomSound'
  /\ QP!Queued = Queued /\ (QP!Queued)' = Queued'
  /\ \A s : QP!ToSet(s) = ToSet(s)
BY DEF RoomSound, QP!IInv, QP!TypeOK, Queue!TypeOK, QP!NoIdlePlace, Queue!NoIdlePlace,
       QP!NobodyTwice, Queue!NobodyTwice, QP!IsInjective, Queue!IsInjective,
       Queued, QP!Queued, Queue!Queued, QP!ToSet, Queue!ToSet, ToSet

(* The operations on the room are those of QueueManagerProofs. *)
LEMMA SameRoomActions ==
  /\ \A p : QP!Join(p) <=> Queue!Join(p)
  /\ \A p : QP!Leave(p) <=> Queue!Leave(p)
  /\ \A w : QP!RotateAfterMatch(w) <=> Queue!RotateAfterMatch(w)
<1> USE DEF QP!Queued, Queue!Queued, QP!ToSet, Queue!ToSet, QP!queueVars, Queue!queueVars,
            QP!PromoteWaiting, Queue!PromoteWaiting, QP!Promoted, Queue!Promoted
<1>1. \A p : QP!Join(p) <=> Queue!Join(p)
  BY DEF QP!Join, QP!JoinActive, QP!JoinWaiting, QP!JoinUnchanged,
         Queue!Join, Queue!JoinActive, Queue!JoinWaiting, Queue!JoinUnchanged
<1>2. \A s, p : QP!RemoveFirst(s, p) = Queue!RemoveFirst(s, p)
  BY DEF QP!RemoveFirst, Queue!RemoveFirst, QP!SelectInSeq, Queue!SelectInSeq,
         QP!RemoveAt, Queue!RemoveAt, QP!Min, Queue!Min
<1>3. \A p : QP!Leave(p) <=> Queue!Leave(p)
  BY <1>2 DEF QP!Leave, QP!LeaveActive, QP!LeaveWaiting, QP!LeaveUnchanged,
              Queue!Leave, Queue!LeaveActive, Queue!LeaveWaiting, Queue!LeaveUnchanged
<1>4. \A w : QP!RotateAfterMatch(w) <=> Queue!RotateAfterMatch(w)
  BY DEF QP!RotateAfterMatch, QP!Kept, Queue!RotateAfterMatch, Queue!Kept
<1> QED  BY <1>1, <1>3, <1>4

(* join adds at most its player, and does not change a full line-up. *)
LEMMA JoinKeepsRoom ==
  ASSUME RoomSound, NEW p \in Players, Queue!Join(p)
  PROVE  /\ RoomSound'
         /\ Queued' \subseteq Queued \union {p}
         /\ Len(active) = ActiveCount => active' = active
<1>1. QP!IInv /\ QP!Join(p)
  BY SameRoom, SameRoomActions
<1>2. QP!Next
  BY <1>1 DEF QP!Next
<1>3. QP!IInv'
  BY <1>1, <1>2, ConfigAssumption, QP!NextStep
<1>4. /\ QP!Queued' \subseteq QP!Queued \union {p}
      /\ Len(active) = ActiveCount => active' = active
  BY <1>1, ConfigAssumption, QP!JoinEffect
<1> QED  BY <1>3, <1>4, SameRoom

(***************************************************************************)
(* leave takes out its player, does not change a line-up the player is not *)
(* in, and puts the other one of two at the head.                          *)
(***************************************************************************)
LEMMA LeaveKeepsRoom ==
  ASSUME RoomSound, NEW p \in Players, Queue!Leave(p)
  PROVE  /\ RoomSound'
         /\ Queued' = Queued \ {p}
         /\ p \notin ToSet(active) => active' = active
         /\ \A q \in ToSet(active) :
              p \in ToSet(active) /\ q # p /\ Len(active) = 2 => active'[1] = q
<1>1. QP!IInv /\ QP!Leave(p)
  BY SameRoom, SameRoomActions
<1>2. QP!Next
  BY <1>1 DEF QP!Next
<1>3. QP!IInv'
  BY <1>1, <1>2, ConfigAssumption, QP!NextStep
<1>4. /\ QP!Queued' = QP!Queued \ {p}
      /\ p \notin QP!ToSet(active) => active' = active
      /\ \A q \in QP!ToSet(active) :
           p \in QP!ToSet(active) /\ q # p /\ Len(active) = 2 => active'[1] = q
  BY <1>1, ConfigAssumption, QP!LeaveEffect
<1> QED  BY <1>3, <1>4, SameRoom

(***************************************************************************)
(* rotate_after_match keeps nobody who played but the winner, who heads    *)
(* the new line-up.                                                        *)
(***************************************************************************)
LEMMA RotateKeepsRoom ==
  ASSUME RoomSound, NEW w \in Players \union {NoPlayer}, Queue!RotateAfterMatch(w)
  PROVE  /\ RoomSound'
         /\ Queued' \subseteq Queued
         /\ ToSet(active) \intersect Queued' \subseteq {w}
         /\ w \in ToSet(active) => w \in Queued' /\ active'[1] = w
<1>1. QP!IInv /\ QP!RotateAfterMatch(w)
  BY SameRoom, SameRoomActions
<1>2. QP!Next
  BY <1>1 DEF QP!Next
<1>3. QP!IInv'
  BY <1>1, <1>2, ConfigAssumption, QP!NextStep
<1>4. /\ QP!Queued' \subseteq QP!Queued
      /\ QP!ToSet(active) \intersect QP!Queued' \subseteq {w}
      /\ w \in QP!ToSet(active) => w \in QP!Queued' /\ active'[1] = w
  BY <1>1, ConfigAssumption, QP!RotateEffect
<1> QED  BY <1>3, <1>4, SameRoom

(* The active list of a sound room, before and after a step. *)
LEMMA RoomTypes ==
  /\ RoomSound =>
       /\ active \in Seq(Players) /\ DOMAIN active = 1 .. Len(active)
       /\ Len(active) \in Nat /\ Len(active) <= ActiveCount
       /\ ToSet(active) \subseteq Queued /\ Queued \subseteq Players
       /\ \A i, j \in DOMAIN active : active[i] = active[j] => i = j
  /\ RoomSound' =>
       /\ active' \in Seq(Players) /\ DOMAIN active' = 1 .. Len(active')
       /\ Len(active') \in Nat /\ Len(active') <= ActiveCount
       /\ ToSet(active') \subseteq Queued' /\ Queued' \subseteq Players
       /\ \A i, j \in DOMAIN active' : active'[i] = active'[j] => i = j
<1>1. ASSUME NEW a \in Seq(Players), NEW w \in Seq(Players), Queue!IsInjective(a \o w)
      PROVE  /\ DOMAIN a = 1 .. Len(a) /\ Len(a) \in Nat
             /\ \A i, j \in DOMAIN a : a[i] = a[j] => i = j
             /\ ToSet(a) \subseteq Players /\ ToSet(w) \subseteq Players
  <2>1. /\ DOMAIN a = 1 .. Len(a) /\ Len(a) \in Nat
        /\ DOMAIN w = 1 .. Len(w) /\ Len(w) \in Nat
    BY LenProperties
  <2> DEFINE l == a \o w
  <2>2. /\ l \in Seq(Players) /\ Len(l) = Len(a) + Len(w)
        /\ \A i \in 1 .. Len(a) + Len(w) : l[i] = IF i <= Len(a) THEN a[i] ELSE w[i - Len(a)]
    BY ConcatProperties
  <2>3. DOMAIN l = 1 .. Len(a) + Len(w)
    BY <2>2, LenProperties
  <2>4. \A i, j \in DOMAIN l : l[i] = l[j] => i = j
    BY <1>1 DEF Queue!IsInjective
  <2> HIDE DEF l
  <2>5. \A i, j \in DOMAIN a : a[i] = a[j] => i = j
    BY <2>1, <2>2, <2>3, <2>4
  <2>6. ToSet(a) \subseteq Players /\ ToSet(w) \subseteq Players
    BY <2>1, ElementOfSeq DEF ToSet
  <2> QED  BY <2>1, <2>5, <2>6
<1>2. Queued = ToSet(active) \union ToSet(waiting)
  BY DEF Queued, Queue!Queued, Queue!ToSet, ToSet
<1>3. Queued' = ToSet(active') \union ToSet(waiting')
  BY DEF Queued, Queue!Queued, Queue!ToSet, ToSet
<1>4. ASSUME RoomSound
      PROVE  /\ active \in Seq(Players) /\ waiting \in Seq(Players) /\ Len(active) <= ActiveCount
             /\ Queue!IsInjective(active \o waiting)
  BY <1>4 DEF RoomSound, Queue!TypeOK, Queue!NobodyTwice
<1>5. ASSUME RoomSound'
      PROVE  /\ active' \in Seq(Players) /\ waiting' \in Seq(Players)
             /\ Len(active') <= ActiveCount
             /\ Queue!IsInjective(active' \o waiting')
  BY <1>5 DEF RoomSound, Queue!TypeOK, Queue!NobodyTwice
<1>6. ASSUME RoomSound
      PROVE  /\ active \in Seq(Players) /\ DOMAIN active = 1 .. Len(active)
             /\ Len(active) \in Nat /\ Len(active) <= ActiveCount
             /\ ToSet(active) \subseteq Queued /\ Queued \subseteq Players
             /\ \A i, j \in DOMAIN active : active[i] = active[j] => i = j
  BY <1>1, <1>2, <1>4, <1>6
<1>7. ASSUME RoomSound'
      PROVE  /\ active' \in Seq(Players) /\ DOMAIN active' = 1 .. Len(active')
             /\ Len(active') \in Nat /\ Len(active') <= ActiveCount
             /\ ToSet(active') \subseteq Queued' /\ Queued' \subseteq Players
             /\ \A i, j \in DOMAIN active' : active'[i] = active'[j] => i = j
  BY <1>1, <1>3, <1>5, <1>7
<1> QED  BY <1>6, <1>7

-----------------------------------------------------------------------------
(* The match. *)

(* The least of some indexes is one of them. *)
LEMMA LeastIndex ==
  ASSUME NEW n \in Nat, NEW I \in SUBSET (1 .. n), I # {}
  PROVE  Min(I) \in I
BY ConfigAssumption, QP!LeastIndex DEF QP!Min, Min

(* opponent_of finds another player of the match unless there is none. *)
LEMMA OpponentIs ==
  ASSUME NEW m, NEW p, m.players \in Seq(Players)
  PROVE  \/ Match!OpponentOf(m, p) = NoPlayer /\ ToSet(m.players) \subseteq {p}
         \/ Match!OpponentOf(m, p) \in ToSet(m.players) \ {p}
<1> DEFINE s == m.players
           I == {i \in 1 .. Len(s) : s[i] # p}
<1>1. Len(s) \in Nat /\ DOMAIN s = 1 .. Len(s)
  BY LenProperties
<1>2. Match!OpponentOf(m, p) =
        LET i == IF I # {} THEN Min(I) ELSE 0 IN IF i = 0 THEN NoPlayer ELSE s[i]
  BY DEF Match!OpponentOf, Match!SelectInSeq, Match!Min, Min
<1>3. CASE I = {}
  BY <1>1, <1>2, <1>3 DEF ToSet
<1>4. CASE I # {}
  <2>1. Min(I) \in I
    BY <1>1, <1>4, LeastIndex
  <2> DEFINE k == Min(I)
  <2> HIDE DEF k
  <2>2. k \in 1 .. Len(s) /\ s[k] # p /\ k # 0
    BY <2>1, <1>1 DEF k
  <2>3. Match!OpponentOf(m, p) = s[k]
    BY <1>2, <1>4, <2>2 DEF k
  <2> QED  BY <1>1, <2>2, <2>3 DEF ToSet
<1> QED  BY <1>3, <1>4

(* The players of a match are its line-up. *)
LEMMA InMatchIs ==
  ASSUME NEW m, NEW line, MatchOf(m, line)
  PROVE  Match!InMatch(m) = IF m = NoMatch THEN {} ELSE ToSet(line)
BY DEF MatchOf, Match!InMatch, Match!ToSet, ToSet

(***************************************************************************)
(* start_if_ready leaves a match of the line-up or none, and does not      *)
(* touch one that runs.                                                    *)
(***************************************************************************)
LEMMA StartIsOfLine ==
  ASSUME NEW line \in Seq(Players), Len(line) <= ActiveCount, NEW m, MatchOf(m, line)
  PROVE  /\ MatchOf(Match!StartIfReady(m, line), line)
         /\ m # NoMatch => Match!StartIfReady(m, line) = m
<1>1. CASE m # NoMatch \/ Len(line) < ActiveCount
  BY <1>1 DEF Match!StartIfReady
<1>2. CASE m = NoMatch /\ Len(line) = ActiveCount
  <2>1. SubSeq(line, 1, ActiveCount) = line
    BY <1>2, SubSeqFull
  <2>2. Match!StartIfReady(m, line) =
          [players |-> line, ko |-> [p \in ToSet(line) |-> 0], left |-> MatchTicks]
    <3>1. m = NoMatch /\ ~(Len(line) < ActiveCount)
      BY <1>2, ConfigAssumption
    <3>2. Match!StartIfReady(m, line) = Match!Fresh(line)
      BY <2>1, <3>1 DEF Match!StartIfReady
    <3>3. Match!ToSet(line) = ToSet(line)
      BY DEF Match!ToSet, ToSet
    <3> QED  BY <3>2, <3>3 DEF Match!Fresh
  <2> DEFINE ko == [p \in ToSet(line) |-> 0]
             n == [players |-> line, ko |-> ko, left |-> MatchTicks]
  <2>3. ko \in [ToSet(line) -> 0 .. KoTarget - 1]
    BY ConfigAssumption
  <2> HIDE DEF ko
  <2>4. /\ n.players = line /\ n.ko = ko /\ n.left = MatchTicks
        /\ n = [players |-> n.players, ko |-> n.ko, left |-> n.left]
    OBVIOUS
  <2>5. MatchTicks \in 0 .. MatchTicks
    BY ConfigAssumption
  <2> HIDE DEF n
  <2>6. MatchOf(n, line)
    BY <1>2, <2>3, <2>4, <2>5 DEF MatchOf
  <2> QED  BY <1>2, <2>2, <2>6 DEF n, ko
<1>3. Len(line) < ActiveCount \/ Len(line) = ActiveCount
  BY LenProperties, ConfigAssumption
<1> QED  BY <1>1, <1>2, <1>3

(***************************************************************************)
(* Two players of a line-up are not one: the line-up as a set is as large  *)
(* as the line.                                                            *)
(***************************************************************************)
LEMMA LineUpSize ==
  ASSUME NEW line \in Seq(Players), \A i, j \in DOMAIN line : line[i] = line[j] => i = j
  PROVE  Cardinality(ToSet(line)) = Len(line)
<1>1. Len(line) \in Nat /\ DOMAIN line = 1 .. Len(line) /\ line \in [1 .. Len(line) -> Players]
  BY LenProperties
<1>2. line \in Bijection(1 .. Len(line), ToSet(line))
  <2>1. line \in [1 .. Len(line) -> ToSet(line)]
    BY <1>1 DEF ToSet
  <2>2. \A t \in ToSet(line) : \E s \in 1 .. Len(line) : line[s] = t
    BY <1>1 DEF ToSet
  <2> QED  BY <1>1, <2>1, <2>2 DEF Bijection, Injection, Surjection, IsInjective
<1>3. ExistsBijection(1 .. Len(line), ToSet(line))
  BY <1>2 DEF ExistsBijection
<1> QED  BY <1>1, <1>3, FS_CountingElements

-----------------------------------------------------------------------------
(* What is sent and told. *)

(* A broadcast reaches those of its recipients who have a session. *)
LEMMA SentIs ==
  ASSUME NEW type \in MessageType, NEW about \in SUBSET (Players \union {NoPlayer}),
         NEW to \in SUBSET Players
  PROVE  /\ Sent(type, about, to) \in Seq(Message) /\ Len(Sent(type, about, to)) = 1
         /\ Sent(type, about, to)[1] =
              [type |-> type, about |-> about, to |-> {p \in to : Sessions!HasSession(p)'}]
<1> DEFINE heard == {p \in to : Sessions!HasSession(p)'}
           m == [type |-> type, about |-> about, to |-> heard]
<1>1. heard \in SUBSET Players
  OBVIOUS
<1> HIDE DEF heard
<1>2. m \in Message
  BY <1>1 DEF Message
<1>3. Sent(type, about, to) = << m >>
  BY DEF Sent, heard
<1> HIDE DEF m
<1>4. << m >> \in Seq(Message) /\ Len(<< m >>) = 1 /\ << m >>[1] = m
  BY <1>2
<1> QED  BY <1>3, <1>4 DEF m, heard

(* A reply reaches the player it is for. *)
LEMMA DirectIs ==
  ASSUME NEW type \in MessageType, NEW p \in Players
  PROVE  /\ Direct(type, p) \in Seq(Message) /\ Len(Direct(type, p)) = 1
         /\ Direct(type, p)[1] = [type |-> type, about |-> {p}, to |-> {p}]
<1> DEFINE m == [type |-> type, about |-> {p}, to |-> {p}]
<1>1. m \in Message
  BY DEF Message
<1>2. Direct(type, p) = << m >>
  BY DEF Direct
<1> HIDE DEF m
<1>3. << m >> \in Seq(Message) /\ Len(<< m >>) = 1 /\ << m >>[1] = m
  BY <1>1
<1> QED  BY <1>2, <1>3 DEF m

(* One message, and perhaps one after it. *)
LEMMA TwoSent ==
  ASSUME NEW s \in Seq(Message), NEW t \in Seq(Message), Len(s) = 1, Len(t) \in {0, 1}
  PROVE  /\ s \o t \in Seq(Message) /\ DOMAIN (s \o t) = 1 .. (1 + Len(t))
         /\ (s \o t)[1] = s[1]
         /\ Len(t) = 1 => (s \o t)[2] = t[1]
<1>1. /\ s \o t \in Seq(Message) /\ Len(s \o t) = 1 + Len(t)
      /\ \A i \in 1 .. 1 + Len(t) : (s \o t)[i] = IF i <= 1 THEN s[i] ELSE t[i - 1]
  BY ConcatProperties
<1>2. DOMAIN (s \o t) = 1 .. Len(s \o t)
  BY <1>1, LenProperties
<1> HIDE DEF Message
<1> DEFINE u == s \o t
<1>3. /\ u \in Seq(Message) /\ DOMAIN u = 1 .. (1 + Len(t))
      /\ \A i \in 1 .. 1 + Len(t) : u[i] = IF i <= 1 THEN s[i] ELSE t[i - 1]
  BY <1>1, <1>2
<1> HIDE DEF u
<1>4. u[1] = s[1] /\ (Len(t) = 1 => u[2] = t[1])
  BY <1>3
<1> QED  BY <1>3, <1>4 DEF u

(* Players are told positions in the room, or none. *)
LEMMA PositionsInRange ==
  ASSUME RoomSound', told \in [Players -> 0 .. NotTold]
  PROVE  Told \in [Players -> 0 .. NotTold] /\ NotBroadcast \in [Players -> 0 .. NotTold]
<1>1. NotTold \in Nat /\ NotTold = WaitingCapacity + 1 /\ WaitingCapacity \in Nat
  BY ConfigAssumption DEF NotTold
<1>2. waiting' \in Seq(Players) /\ Len(waiting') <= WaitingCapacity /\ Len(waiting') \in Nat
  BY LenProperties DEF RoomSound, Queue!TypeOK
<1>3. ASSUME NEW p \in Players
      PROVE  Queue!Position(p)' \in 0 .. NotTold
  <2> DEFINE I == {i \in 1 .. Len(waiting') : waiting'[i] = p}
  <2>1. Queue!Position(p)' =
          IF p \in ToSet(active') THEN 0 ELSE IF I # {} THEN Min(I) ELSE 0
    BY DEF Queue!Position, Queue!SelectInSeq, Queue!Min, Min, Queue!ToSet, ToSet
  <2>2. I # {} => Min(I) \in 1 .. Len(waiting')
    BY <1>2, LeastIndex
  <2> HIDE DEF I
  <2> QED  BY <1>1, <1>2, <2>1, <2>2
<1> QED  BY <1>1, <1>3 DEF Told, NotBroadcast

-----------------------------------------------------------------------------
(* What a step announces. *)

(* What MatchEndReachesPlayers says of a step. *)
EndsTold ==
  IF Ended
  THEN \E i \in DOMAIN out' :
         /\ Announced("MatchEnd") = {i}
         /\ \A p \in Match!InMatch(match) : Sessions!HasSession(p)' => p \in out'[i].to
         /\ \A j \in Announced("MatchStart") : i < j
  ELSE Announced("MatchEnd") = {}

(* What WinnerStaysOn says of a step. *)
WinnerFirst ==
  \A i \in Announced("MatchEnd") :
    \E winner \in Match!InMatch(match) \union {NoPlayer} :
      /\ out'[i].about = {winner}
      /\ Match!InMatch(match) \intersect Queued' = {winner} \ {NoPlayer}
      /\ winner # NoPlayer => active'[1] = winner

(* What MatchStartReachesPlayers says of a step. *)
StartsTold ==
  match' # NoMatch /\ Match!InMatch(match') # Match!InMatch(match) =>
    \E i \in Announced("MatchStart") :
      out'[i].to = Match!InMatch(match') /\ Cardinality(out'[i].to) = ActiveCount

(***************************************************************************)
(* What a step announces. A match of one player has nobody to win it, and  *)
(* of three active players one who is not the opponent may stay in the     *)
(* line-up when another leaves.                                            *)
(***************************************************************************)
Announcements ==
  /\ ActiveCount # 1 => EndsTold
  /\ ActiveCount <= 2 => WinnerFirst
  /\ StartsTold

(***************************************************************************)
(* A step that leaves the players of the match alone has nothing to        *)
(* announce.                                                               *)
(***************************************************************************)
LEMMA QuietStep ==
  ASSUME \A i \in DOMAIN out' : out'[i].type \notin {"MatchEnd", "MatchStart"},
         Match!InMatch(match') = Match!InMatch(match)
  PROVE  Announcements
<1>1. Announced("MatchEnd") = {} /\ Announced("MatchStart") = {}
  BY DEF Announced
<1> QED  BY <1>1 DEF Announcements, EndsTold, WinnerFirst, StartsTold, Ended

(* A step that sends nothing. *)
LEMMA SilentStep ==
  ASSUME out' = << >>
  PROVE  out' \in Seq(Message) /\ \A i \in DOMAIN out' : FALSE
<1>1. << >> \in Seq(Message) /\ Len(<< >>) = 0
  OBVIOUS
<1>2. DOMAIN << >> = {}
  OBVIOUS
<1> QED  BY <1>1, <1>2

(* A step that sends one message. *)
LEMMA OneMessage ==
  ASSUME NEW s \in Seq(Message), Len(s) = 1, NEW t, s[1].type = t
  PROVE  \A i \in DOMAIN s : s[i].type = t
<1>1. DOMAIN s = 1 .. 1
  BY LenProperties
<1> QED  BY <1>1

(* A step that leaves the sessions alone keeps them. *)
LEMMA SameSessionsKept ==
  ASSUME UNCHANGED sessionVars, SessionsSound, RecordsAsIssued
  PROVE  SessionsKept({}) /\ issued' = issued
<1>1. /\ bySession' = bySession /\ byPlayer' = byPlayer
      /\ byEndpoint' = byEndpoint /\ issued' = issued
  BY DEF sessionVars
<1>2. SessionsSound'
  BY <1>1 DEF SessionsSound, Sessions!TypeOK, Sessions!PlayerIndexExact,
              Sessions!EndpointIndexSound, Sessions!Issued
<1>3. RecordsAsIssued'
  BY <1>1 DEF RecordsAsIssued
<1>4. \A q : Sessions!HasSession(q)' <=> Sessions!HasSession(q)
  BY <1>1 DEF Sessions!HasSession
<1> QED  BY <1>1, <1>2, <1>3, <1>4 DEF SessionsKept

(* A step that leaves the room alone keeps it sound. *)
LEMMA SameRoomKept ==
  ASSUME UNCHANGED queueVars, RoomSound
  PROVE  RoomSound' /\ Queued' = Queued /\ active' = active
<1>1. active' = active /\ waiting' = waiting
  BY DEF queueVars
<1> QED  BY <1>1 DEF RoomSound, Queue!TypeOK, Queue!NoIdlePlace, Queue!NobodyTwice,
                     Queued, Queue!Queued

(* The record of a match is not taken for none. *)
LEMMA RecordIsNoMatch ==
  ASSUME NEW ps \in Seq(Players), NEW ko \in [ToSet(ps) -> 0 .. KoTarget - 1],
         NEW left \in 0 .. MatchTicks
  PROVE  [players |-> ps, ko |-> ko, left |-> left] # NoMatch
<1>1. ToSet(ps) \in SUBSET Players
  BY LenProperties, ElementOfSeq DEF ToSet
<1>2. ko \in [ToSet(ps) -> 0 .. KoTarget]
  BY ConfigAssumption
<1> DEFINE kos == UNION {[qs -> 0 .. KoTarget] : qs \in SUBSET Players}
<1>3. ko \in kos
  BY <1>1, <1>2
<1>4. NoMatch \notin [players : Seq(Players), ko : kos, left : 0 .. MatchTicks]
  BY NoMatchAssumption
<1> HIDE DEF kos
<1> QED  BY <1>3, <1>4

(***************************************************************************)
(* What start_if_ready sends after a match m: one MatchStart, if there is  *)
(* a new match, to its players who have a session.                         *)
(***************************************************************************)
LEMMA MatchStartIs ==
  ASSUME NEW m, Match!InMatch(match') \in SUBSET Players
  PROVE  /\ MatchStartSent(m) \in Seq(Message)
         /\ m = match' => Len(MatchStartSent(m)) = 0
         /\ m # match' => /\ Len(MatchStartSent(m)) = 1
                          /\ MatchStartSent(m)[1].type = "MatchStart"
                          /\ MatchStartSent(m)[1].to =
                               {p \in Match!InMatch(match') : Sessions!HasSession(p)'}
<1> DEFINE ps == Match!InMatch(match')
<1>1. ps \in SUBSET Players /\ ps \in SUBSET (Players \union {NoPlayer})
  OBVIOUS
<1>2. MatchStartSent(m) = IF m = match' THEN << >> ELSE Sent("MatchStart", ps, ps)
  BY DEF MatchStartSent
<1> HIDE DEF ps
<1>3. "MatchStart" \in MessageType
  BY DEF MessageType
<1>4. /\ Sent("MatchStart", ps, ps) \in Seq(Message) /\ Len(Sent("MatchStart", ps, ps)) = 1
      /\ Sent("MatchStart", ps, ps)[1] =
           [type |-> "MatchStart", about |-> ps, to |-> {p \in ps : Sessions!HasSession(p)'}]
  BY <1>1, <1>3, SentIs
<1>5. CASE m = match'
  BY <1>2, <1>5
<1>6. CASE m # match'
  <2>1. MatchStartSent(m) = Sent("MatchStart", ps, ps)
    BY <1>2, <1>6
  <2> QED  BY <1>4, <1>6, <2>1 DEF ps
<1> QED  BY <1>5, <1>6

(***************************************************************************)
(* When everyone in the room has a session, start_if_ready announces the   *)
(* match it starts to every player of it.                                  *)
(***************************************************************************)
LEMMA StartStep ==
  ASSUME RoomSound', NEW m, MatchOf(m, active'), StartIfReady(m),
         told \in [Players -> 0 .. NotTold], \A q \in Queued' : Sessions!HasSession(q)'
  PROVE  /\ MatchOK' /\ told' \in [Players -> 0 .. NotTold]
         /\ Match!InMatch(match') = IF match' = NoMatch THEN {} ELSE ToSet(active')
         /\ m # NoMatch => match' = m
         /\ MatchStartSent(m) \in Seq(Message)
         /\ m = match' => Len(MatchStartSent(m)) = 0
         /\ m # match' =>
              /\ Len(MatchStartSent(m)) = 1 /\ MatchStartSent(m)[1].type = "MatchStart"
              /\ match' # NoMatch =>
                   /\ MatchStartSent(m)[1].to = Match!InMatch(match')
                   /\ Cardinality(Match!InMatch(match')) = ActiveCount
<1>1. /\ active' \in Seq(Players) /\ Len(active') <= ActiveCount
      /\ ToSet(active') \subseteq Queued' /\ Queued' \subseteq Players
      /\ \A i, j \in DOMAIN active' : active'[i] = active'[j] => i = j
  BY RoomTypes
<1>2. match' = Match!StartIfReady(m, active') /\ told' = Told
  BY DEF StartIfReady
<1>3. MatchOf(match', active') /\ (m # NoMatch => match' = m)
  BY <1>1, <1>2, StartIsOfLine
<1>4. MatchOK'
  BY <1>3 DEF MatchOK, MatchOf
<1>5. told' \in [Players -> 0 .. NotTold]
  BY <1>2, PositionsInRange
<1>6. Match!InMatch(match') = IF match' = NoMatch THEN {} ELSE ToSet(active')
  BY <1>3, InMatchIs
<1>7. Match!InMatch(match') \in SUBSET Players
  BY <1>1, <1>6
<1>8. /\ MatchStartSent(m) \in Seq(Message)
      /\ m = match' => Len(MatchStartSent(m)) = 0
      /\ m # match' => /\ Len(MatchStartSent(m)) = 1
                       /\ MatchStartSent(m)[1].type = "MatchStart"
                       /\ MatchStartSent(m)[1].to =
                            {p \in Match!InMatch(match') : Sessions!HasSession(p)'}
  BY <1>7, MatchStartIs
<1>9. {p \in Match!InMatch(match') : Sessions!HasSession(p)'} = Match!InMatch(match')
  BY <1>1, <1>6
<1>10. match' # NoMatch => Cardinality(Match!InMatch(match')) = ActiveCount
  BY <1>1, <1>3, <1>6, LineUpSize DEF MatchOf
<1> QED  BY <1>3, <1>4, <1>5, <1>6, <1>8, <1>9, <1>10

-----------------------------------------------------------------------------
(* The handlers. *)

(* A hello to a full room changes nothing. *)
LEMMA HelloRejectedStep ==
  ASSUME IInv, NEW p \in Players, HelloRejected(p)
  PROVE  IInv' /\ Announcements
<1>1. /\ out' = Direct("JoinRejectedRoomFull", p) /\ UNCHANGED sessionVars
      /\ UNCHANGED queueVars /\ match' = match /\ expired' = expired /\ told' = told
  BY DEF HelloRejected
<1>2. SessionsKept({}) /\ issued' = issued
  BY <1>1, SameSessionsKept DEF IInv
<1>3. RoomSound' /\ Queued' = Queued /\ active' = active
  BY <1>1, SameRoomKept DEF IInv
<1>4. "JoinRejectedRoomFull" \in MessageType
  BY DEF MessageType
<1>5. /\ out' \in Seq(Message) /\ Len(out') = 1
      /\ out'[1] = [type |-> "JoinRejectedRoomFull", about |-> {p}, to |-> {p}]
  BY <1>1, <1>4, DirectIs
<1>6. \A i \in DOMAIN out' : out'[i].type = "JoinRejectedRoomFull"
  <2>1. out'[1].type = "JoinRejectedRoomFull"
    BY <1>5
  <2> QED  BY <1>5, <2>1, OneMessage
<1>7. Announcements
  BY <1>1, <1>6, QuietStep
<1>8. MatchOK'
  BY <1>1, <1>3 DEF IInv, MatchOK, MatchOf
<1>9. ExpiredAreGone' /\ PlacesHaveSessions'
  BY <1>1, <1>2, <1>3 DEF IInv, SessionsKept, ExpiredAreGone, PlacesHaveSessions
<1>10. IInv'
  BY <1>1, <1>2, <1>3, <1>5, <1>8, <1>9 DEF IInv, SessionsKept
<1> QED  BY <1>7, <1>10

(***************************************************************************)
(* A hello gives its player a session before a place, so the place has a   *)
(* session, and may complete the line-up of a match, which is announced.   *)
(***************************************************************************)
LEMMA HelloAcceptedStep ==
  ASSUME IInv, NEW p \in Players, Idle, HelloAccepted(p)
  PROVE  IInv' /\ Announcements
<1>1. /\ Sessions!HandleClientHello(p, p)
      /\ IF Sessions!HasSession(p) THEN UNCHANGED queueVars ELSE Queue!Join(p)
      /\ StartIfReady(match)
      /\ out' = Direct("ServerWelcome", p) \o MatchStartSent(match)
      /\ expired' = expired /\ expired = {}
  BY DEF HelloAccepted, Idle
<1>2. SessionsKept({p})
  BY <1>1, HelloKeepsSessions DEF IInv
<1>3. /\ RoomSound' /\ Queued' \subseteq Queued \union {p}
      /\ Len(active) = ActiveCount => active' = active
  <2>1. CASE UNCHANGED queueVars
    BY <2>1, SameRoomKept DEF IInv
  <2>2. CASE Queue!Join(p)
    BY <2>2, JoinKeepsRoom DEF IInv
  <2> QED  BY <1>1, <2>1, <2>2
<1>4. \A q \in Queued' : Sessions!HasSession(q)'
  BY <1>1, <1>2, <1>3 DEF IInv, PlacesHaveSessions, SessionsKept
<1>5. MatchOf(match, active')
  BY <1>3 DEF IInv, MatchOK, MatchOf
<1>6. told \in [Players -> 0 .. NotTold]
  BY DEF IInv
<1>7. /\ MatchOK' /\ told' \in [Players -> 0 .. NotTold]
      /\ match # NoMatch => match' = match
      /\ MatchStartSent(match) \in Seq(Message)
      /\ match = match' => Len(MatchStartSent(match)) = 0
      /\ match # match' =>
           /\ Len(MatchStartSent(match)) = 1 /\ MatchStartSent(match)[1].type = "MatchStart"
           /\ match' # NoMatch =>
                /\ MatchStartSent(match)[1].to = Match!InMatch(match')
                /\ Cardinality(Match!InMatch(match')) = ActiveCount
  BY <1>1, <1>3, <1>4, <1>5, <1>6, StartStep
<1>8. "ServerWelcome" \in MessageType
  BY DEF MessageType
<1>9. /\ Direct("ServerWelcome", p) \in Seq(Message) /\ Len(Direct("ServerWelcome", p)) = 1
      /\ Direct("ServerWelcome", p)[1].type = "ServerWelcome"
  <2>1. /\ Direct("ServerWelcome", p) \in Seq(Message) /\ Len(Direct("ServerWelcome", p)) = 1
        /\ Direct("ServerWelcome", p)[1] =
             [type |-> "ServerWelcome", about |-> {p}, to |-> {p}]
    BY <1>8, DirectIs
  <2> QED  BY <2>1
<1>10. /\ out' \in Seq(Message) /\ DOMAIN out' = 1 .. (1 + Len(MatchStartSent(match)))
       /\ out'[1].type = "ServerWelcome"
       /\ Len(MatchStartSent(match)) = 1 => out'[2] = MatchStartSent(match)[1]
  BY <1>1, <1>7, <1>9, TwoSent
<1>11. CASE match' = match
  <2>1. \A i \in DOMAIN out' : out'[i].type \notin {"MatchEnd", "MatchStart"}
    BY <1>7, <1>10, <1>11
  <2> QED  BY <1>1, <1>2, <1>3, <1>4, <1>7, <1>10, <1>11, <2>1, QuietStep
           DEF IInv, SessionsKept, ExpiredAreGone, PlacesHaveSessions
<1>12. CASE match' # match
  <2>1. match = NoMatch /\ Len(MatchStartSent(match)) = 1
    BY <1>7, <1>12
  <2>2. DOMAIN out' = {1, 2} /\ out'[2].type = "MatchStart"
    BY <1>7, <1>10, <1>12, <2>1
  <2>3. Announced("MatchEnd") = {} /\ Announced("MatchStart") = {2}
    BY <1>10, <2>2 DEF Announced
  <2>4. ~Ended
    BY <2>1 DEF Ended
  <2>5. match' # NoMatch => out'[2].to = Match!InMatch(match')
                            /\ Cardinality(out'[2].to) = ActiveCount
    BY <1>7, <1>10, <1>12, <2>1
  <2>6. Announcements
    BY <2>3, <2>4, <2>5 DEF Announcements, EndsTold, WinnerFirst, StartsTold
  <2> QED  BY <1>1, <1>2, <1>3, <1>4, <1>7, <1>10, <2>6
           DEF IInv, SessionsKept, ExpiredAreGone, PlacesHaveSessions
<1> QED  BY <1>11, <1>12

(* A heartbeat changes nothing but the age of a session. *)
LEMMA HeartbeatStep ==
  ASSUME IInv, NEW s \in DOMAIN issued, Heartbeat(s)
  PROVE  IInv' /\ Announcements
<1>1. /\ s \in DOMAIN bySession /\ Sessions!ReplaceRecord(s, issued[s]) /\ issued' = issued
      /\ out' = << >>
      /\ UNCHANGED queueVars /\ match' = match /\ expired' = expired /\ told' = told
  BY DEF Heartbeat, Sessions!HandleHeartbeat
<1>2. issued[s] \in Players
  BY RecordsAreIssued DEF IInv
<1>3. SessionsKept({})
  BY <1>1, <1>2, ReplaceRecordKeepsSessions DEF IInv
<1>4. RoomSound' /\ Queued' = Queued /\ active' = active
  BY <1>1, SameRoomKept DEF IInv
<1>5. out' \in Seq(Message) /\ \A i \in DOMAIN out' : FALSE
  BY <1>1, SilentStep
<1>6. Announcements
  BY <1>1, <1>5, QuietStep
<1>7. MatchOK'
  BY <1>1, <1>4 DEF IInv, MatchOK, MatchOf
<1>8. ExpiredAreGone' /\ PlacesHaveSessions'
  BY <1>1, <1>3, <1>4 DEF IInv, SessionsKept, ExpiredAreGone, PlacesHaveSessions
<1>9. IInv'
  BY <1>1, <1>3, <1>4, <1>5, <1>7, <1>8 DEF IInv, SessionsKept
<1> QED  BY <1>6, <1>9

(***************************************************************************)
(* A player who is gone, by notice or by silence, takes nobody else out of *)
(* the room; if the player was in the match, it ends, and is announced     *)
(* before the room moves up.                                               *)
(***************************************************************************)
LEMMA PlayerGoneStep ==
  ASSUME RoomSound, MatchOK, NEW p \in Players, PlayerGone(p), ~Sessions!HasSession(p)'
  PROVE  /\ RoomSound' /\ Queued' = Queued \ {p}
         /\ MatchOK' /\ out' \in Seq(Message) /\ Announcements
<1>1. /\ RoomSound' /\ Queued' = Queued \ {p}
      /\ p \notin ToSet(active) => active' = active
      /\ \A q \in ToSet(active) :
           p \in ToSet(active) /\ q # p /\ Len(active) = 2 => active'[1] = q
  BY LeaveKeepsRoom DEF PlayerGone
<1>2. /\ active \in Seq(Players) /\ ToSet(active) \subseteq Queued /\ Queued \subseteq Players
      /\ DOMAIN active = 1 .. Len(active) /\ Len(active) \in Nat
      /\ \A i, j \in DOMAIN active : active[i] = active[j] => i = j
  BY RoomTypes
<1>3. Match!InMatch(match) = IF match = NoMatch THEN {} ELSE ToSet(active)
  BY InMatchIs DEF MatchOK
<1>4. {p} \in SUBSET (Players \union {NoPlayer}) /\ "PlayerLeft" \in MessageType
      /\ "MatchEnd" \in MessageType
  BY DEF MessageType
<1>5. Queued' \in SUBSET Players
  BY <1>1, <1>2
<1>6. CASE p \notin Match!InMatch(match)
  <2>1. match' = match /\ out' = Sent("PlayerLeft", {p}, Everyone(Queued', match))
    BY <1>6 DEF PlayerGone
  <2>2. Everyone(Queued', match) \in SUBSET Players
    BY <1>2, <1>3, <1>5 DEF Everyone
  <2>3. /\ out' \in Seq(Message) /\ Len(out') = 1
        /\ out'[1] = [type |-> "PlayerLeft", about |-> {p},
                      to |-> {q \in Everyone(Queued', match) : Sessions!HasSession(q)'}]
    BY <1>4, <2>1, <2>2, SentIs
  <2>4. out'[1].type = "PlayerLeft"
    BY <2>3
  <2>5. \A i \in DOMAIN out' : out'[i].type = "PlayerLeft"
    BY <2>3, <2>4, OneMessage
  <2>6. Announcements
    BY <2>1, <2>5, QuietStep
  <2>7. MatchOK'
    BY <1>1, <1>3, <1>6, <2>1 DEF MatchOK, MatchOf
  <2> QED  BY <1>1, <2>3, <2>6, <2>7
<1>7. CASE p \in Match!InMatch(match)
  <2> DEFINE opponent == Match!OpponentOf(match, p)
             left == Sent("PlayerLeft", {p}, Queued')
             end == Sent("MatchEnd", {opponent}, Queued')
  <2>1. /\ match # NoMatch /\ p \in ToSet(active) /\ match.players = active
        /\ Len(active) = ActiveCount /\ Match!InMatch(match) = ToSet(active)
    BY <1>3, <1>7 DEF MatchOK, MatchOf
  <2>2. \/ opponent = NoPlayer /\ ToSet(active) \subseteq {p}
        \/ opponent \in ToSet(active) \ {p}
    BY <1>2, <2>1, OpponentIs
  <2>3. {opponent} \in SUBSET (Players \union {NoPlayer})
    BY <1>2, <2>2
  <2>4. match' = NoMatch /\ out' = left \o end
    BY <1>7 DEF PlayerGone
  <2> HIDE DEF opponent
  <2>5. /\ left \in Seq(Message) /\ Len(left) = 1
        /\ left[1] = [type |-> "PlayerLeft", about |-> {p},
                      to |-> {q \in Queued' : Sessions!HasSession(q)'}]
    BY <1>4, <1>5, SentIs
  <2>6. /\ end \in Seq(Message) /\ Len(end) = 1
        /\ end[1] = [type |-> "MatchEnd", about |-> {opponent},
                     to |-> {q \in Queued' : Sessions!HasSession(q)'}]
    BY <1>4, <1>5, <2>3, SentIs
  <2> HIDE DEF left, end
  <2>7. /\ out' \in Seq(Message) /\ DOMAIN out' = 1 .. 2
        /\ out'[1] = left[1] /\ out'[2] = end[1]
    <3>1. /\ left \o end \in Seq(Message) /\ DOMAIN (left \o end) = 1 .. (1 + Len(end))
          /\ (left \o end)[1] = left[1]
          /\ Len(end) = 1 => (left \o end)[2] = end[1]
      BY <2>5, <2>6, TwoSent
    <3> QED  BY <2>4, <2>6, <3>1
  <2>8. /\ out'[1].type = "PlayerLeft" /\ out'[2].type = "MatchEnd"
        /\ out'[2].about = {opponent}
        /\ out'[2].to = {q \in Queued' : Sessions!HasSession(q)'}
    BY <2>5, <2>6, <2>7
  <2>9. Announced("MatchEnd") = {2} /\ Announced("MatchStart") = {}
    BY <2>7, <2>8 DEF Announced
  <2>10. EndsTold
    <3>1. \A q \in Match!InMatch(match) : Sessions!HasSession(q)' => q \in out'[2].to
      BY <1>1, <1>2, <2>1, <2>8
    <3>2. 2 \in DOMAIN out'
      BY <2>7
    <3>3. Ended
      BY <1>7, <2>1, <2>4 DEF Ended, Match!InMatch
    <3> QED  BY <2>9, <3>1, <3>2, <3>3 DEF EndsTold
  <2>11. ASSUME ActiveCount <= 2
         PROVE  WinnerFirst
    <3>1. CASE opponent = NoPlayer
      <4>1. ToSet(active) \intersect Queued' = {}
        BY <1>1, <1>2, <2>2, <3>1, ConfigAssumption
      <4> QED  BY <2>1, <2>8, <2>9, <3>1, <4>1 DEF WinnerFirst
    <3>2. CASE opponent # NoPlayer
      <4>1. opponent \in ToSet(active) /\ opponent # p
        BY <2>2, <3>2
      <4>2. PICK i \in DOMAIN active, j \in DOMAIN active : active[i] = p /\ active[j] = opponent
        BY <2>1, <4>1 DEF ToSet
      <4>3. ActiveCount \in Nat
        BY ConfigAssumption
      <4>4. Len(active) = 2 /\ {i, j} = {1, 2}
        BY <1>2, <2>1, <2>11, <4>1, <4>2, <4>3
      <4>5. ToSet(active) = {p, opponent}
        BY <1>2, <4>2, <4>4 DEF ToSet
      <4>6. ToSet(active) \intersect Queued' = {opponent}
        BY <1>1, <1>2, <4>1, <4>5
      <4>7. active'[1] = opponent
        BY <1>1, <2>1, <4>1, <4>4
      <4> QED  BY <2>1, <2>8, <2>9, <3>2, <4>1, <4>6, <4>7 DEF WinnerFirst
    <3> QED  BY <3>1, <3>2
  <2>12. Announcements
    BY <2>4, <2>10, <2>11 DEF Announcements, StartsTold
  <2>13. MatchOK'
    BY <2>4 DEF MatchOK, MatchOf
  <2> QED  BY <1>1, <2>7, <2>12, <2>13
<1> QED  BY <1>6, <1>7

(* A notice ends the session and frees the place in one step. *)
LEMMA DisconnectStep ==
  ASSUME IInv, NEW s \in DOMAIN issued, Disconnect(s)
  PROVE  IInv' /\ Announcements
<1> DEFINE p == issued[s]
<1>1. /\ Sessions!RemovePlayers({p}) /\ issued' = issued
      /\ PlayerGone(p) /\ told' = Told /\ expired' = expired /\ expired = {}
  BY DEF Disconnect, Sessions!Disconnect, Idle
<1>2. p \in Players
  BY RecordsAreIssued DEF IInv
<1> HIDE DEF p
<1>3. /\ SessionsSound' /\ RecordsAsIssued'
      /\ \A q : Sessions!HasSession(q)' <=> Sessions!HasSession(q) /\ q \notin {p}
  BY <1>1, RemovePlayersEndsSessions DEF IInv
<1>4. /\ RoomSound' /\ Queued' = Queued \ {p}
      /\ MatchOK' /\ out' \in Seq(Message) /\ Announcements
  BY <1>1, <1>2, <1>3, PlayerGoneStep DEF IInv
<1>5. told' \in [Players -> 0 .. NotTold]
  BY <1>1, <1>4, PositionsInRange DEF IInv
<1>6. ExpiredAreGone' /\ PlacesHaveSessions'
  BY <1>1, <1>3, <1>4 DEF IInv, ExpiredAreGone, PlacesHaveSessions
<1>7. IInv'
  BY <1>1, <1>3, <1>4, <1>5, <1>6 DEF IInv
<1> QED  BY <1>4, <1>7

(***************************************************************************)
(* Silent sessions end; the places of their players are freed in the steps *)
(* that follow.                                                            *)
(***************************************************************************)
LEMMA ExpireSessionsStep ==
  ASSUME IInv, ExpireSessions
  PROVE  IInv' /\ Announcements
<1> DEFINE late == Sessions!TimedOut
           ps == {bySession[s].player : s \in late}
<1>1. /\ Sessions!RemovePlayers(ps) /\ issued' = issued
      /\ expired = {} /\ expired' = late /\ out' = << >>
      /\ UNCHANGED queueVars /\ match' = match /\ told' = told
  BY DEF ExpireSessions, Sessions!ExpireTimedOut, Idle
<1>2. late \subseteq DOMAIN bySession
  BY DEF Sessions!TimedOut
<1> HIDE DEF late
<1>3. ps = {issued[s] : s \in late}
  BY <1>2 DEF IInv, RecordsAsIssued
<1> HIDE DEF ps
<1>4. /\ SessionsSound' /\ RecordsAsIssued'
      /\ \A q : Sessions!HasSession(q)' <=> Sessions!HasSession(q) /\ q \notin ps
  BY <1>1, RemovePlayersEndsSessions DEF IInv
<1>5. RoomSound' /\ Queued' = Queued /\ active' = active
  BY <1>1, SameRoomKept DEF IInv
<1>6. out' \in Seq(Message) /\ \A i \in DOMAIN out' : FALSE
  BY <1>1, SilentStep
<1>7. Announcements
  BY <1>1, <1>6, QuietStep
<1>8. MatchOK'
  BY <1>1, <1>5 DEF IInv, MatchOK, MatchOf
<1>9. expired' \subseteq DOMAIN issued'
  BY <1>1, <1>2, RecordsAreIssued DEF IInv
<1>10. ExpiredAreGone' /\ PlacesHaveSessions'
  BY <1>1, <1>3, <1>4, <1>5 DEF IInv, ExpiredAreGone, PlacesHaveSessions
<1>11. IInv'
  BY <1>1, <1>4, <1>5, <1>6, <1>8, <1>9, <1>10 DEF IInv
<1> QED  BY <1>7, <1>11

(* One of those who were silent loses the place. *)
LEMMA ExpireOneStep ==
  ASSUME IInv, ExpireOne
  PROVE  IInv' /\ Announcements
<1> DEFINE s == Min(expired)
<1>1. /\ UNCHANGED sessionVars /\ PlayerGone(issued[s]) /\ expired' = expired \ {s}
      /\ told' = NotBroadcast /\ expired # {}
  BY DEF ExpireOne, Idle
<1>2. SessionsKept({}) /\ issued' = issued
  BY <1>1, SameSessionsKept DEF IInv
<1>3. s \in expired
  BY <1>1, RecordsAreIssued, LeastIndex DEF IInv
<1> HIDE DEF s
<1>4. PICK p \in Players : p = issued[s]
  BY <1>3, RecordsAreIssued DEF IInv
<1>5. ~Sessions!HasSession(p)'
  BY <1>2, <1>3, <1>4 DEF IInv, ExpiredAreGone, SessionsKept
<1>6. /\ RoomSound' /\ Queued' = Queued \ {p}
      /\ MatchOK' /\ out' \in Seq(Message) /\ Announcements
  BY <1>1, <1>4, <1>5, PlayerGoneStep DEF IInv
<1>7. told' \in [Players -> 0 .. NotTold]
  BY <1>1, <1>6, PositionsInRange DEF IInv
<1>8. ExpiredAreGone'
  BY <1>1, <1>2 DEF IInv, ExpiredAreGone, SessionsKept
<1>9. PlacesHaveSessions'
  <2> SUFFICES ASSUME NEW q \in Queued'
               PROVE  Sessions!HasSession(q)' \/ \E t \in expired' : issued'[t] = q
    BY DEF PlacesHaveSessions
  <2>1. q \in Queued /\ q # issued[s]
    BY <1>4, <1>6
  <2>2. Sessions!HasSession(q) \/ \E t \in expired : issued[t] = q
    BY <2>1 DEF IInv, PlacesHaveSessions
  <2> QED  BY <1>1, <1>2, <2>1, <2>2 DEF SessionsKept
<1>10. IInv'
  BY <1>1, <1>2, <1>6, <1>7, <1>8, <1>9 DEF IInv, SessionsKept
<1> QED  BY <1>6, <1>10

(* A step that only counts points or time changes nothing else. *)
LEMMA SameMatchStep ==
  ASSUME IInv, NEW ko \in [ToSet(active) -> 0 .. KoTarget - 1], NEW left \in 0 .. MatchTicks,
         match # NoMatch, match' = [players |-> match.players, ko |-> ko, left |-> left],
         SessionsKept({}), issued' = issued, UNCHANGED << queueVars, expired, told >>,
         out' = << >>
  PROVE  IInv' /\ Announcements
<1>1. RoomSound' /\ Queued' = Queued /\ active' = active
  BY SameRoomKept DEF IInv
<1>2. /\ match.players = active /\ Len(active) = ActiveCount
      /\ Match!InMatch(match) = ToSet(active)
  BY InMatchIs DEF IInv, MatchOK, MatchOf
<1>3. active \in Seq(Players)
  BY RoomTypes DEF IInv
<1>4. match' # NoMatch
  BY <1>2, <1>3, RecordIsNoMatch
<1>5. match'.players = match.players /\ match'.ko = ko /\ match'.left = left
  OBVIOUS
<1>6. match' = [players |-> match'.players, ko |-> match'.ko, left |-> match'.left]
  BY <1>5
<1>7. MatchOf(match', active)
  BY <1>2, <1>5, <1>6 DEF MatchOf
<1>8. MatchOK'
  BY <1>1, <1>7 DEF MatchOK, MatchOf
<1>9. Match!InMatch(match') = Match!InMatch(match)
  BY <1>2, <1>4, <1>7, InMatchIs
<1>10. out' \in Seq(Message) /\ \A i \in DOMAIN out' : FALSE
  BY SilentStep
<1>11. Announcements
  BY <1>9, <1>10, QuietStep
<1>12. ExpiredAreGone' /\ PlacesHaveSessions'
  BY <1>1 DEF IInv, SessionsKept, ExpiredAreGone, PlacesHaveSessions
<1>13. IInv'
  BY <1>1, <1>8, <1>10, <1>12 DEF IInv, SessionsKept
<1> QED  BY <1>11, <1>13

(* A point that is not the last. *)
LEMMA KOScoredStep ==
  ASSUME IInv, NEW victim, victim \in Match!InMatch(match),
         Match!OpponentOf(match, victim) # NoPlayer, KOScored(victim)
  PROVE  IInv' /\ Announcements
<1> DEFINE scorer == Match!OpponentOf(match, victim)
<1>1. /\ match # NoMatch /\ match.players = active
      /\ match = [players |-> match.players, ko |-> match.ko, left |-> match.left]
      /\ match.ko \in [ToSet(active) -> 0 .. KoTarget - 1] /\ match.left \in 0 .. MatchTicks
  BY DEF IInv, MatchOK, MatchOf, Match!InMatch
<1>2. scorer \in ToSet(active)
  BY <1>1, RoomTypes, OpponentIs DEF IInv
<1>3. /\ ~(match.ko[scorer] + 1 >= KoTarget) /\ match' = [match EXCEPT !.ko[scorer] = @ + 1]
      /\ out' = << >> /\ UNCHANGED sessionVars /\ UNCHANGED << queueVars, expired, told >>
  BY DEF KOScored, Match!KoTargetReached, Match!KoScored
<1> HIDE DEF scorer
<1> DEFINE ko == [match.ko EXCEPT ![scorer] = @ + 1]
<1>4. ko \in [ToSet(active) -> 0 .. KoTarget - 1]
  <2>1. match.ko[scorer] + 1 \in 0 .. KoTarget - 1
    BY <1>1, <1>2, <1>3, ConfigAssumption
  <2> QED  BY <1>1, <2>1
<1>5. match' = [match EXCEPT !.ko = ko]
  BY <1>3
<1> HIDE DEF ko
<1>6. match' = [players |-> match.players, ko |-> ko, left |-> match.left]
  BY <1>1, <1>5
<1>7. SessionsKept({}) /\ issued' = issued
  BY <1>3, SameSessionsKept DEF IInv
<1> QED  BY <1>1, <1>3, <1>4, <1>6, <1>7, SameMatchStep

(* A tick of the clock. *)
LEMMA AdvanceStep ==
  ASSUME IInv, Advance
  PROVE  IInv' /\ Announcements
<1>1. /\ Sessions!Advance /\ match' = Match!Aged(match) /\ out' = << >>
      /\ UNCHANGED << queueVars, expired, told >>
  BY DEF Advance
<1>2. SessionsKept({}) /\ issued' = issued
  BY <1>1, AdvanceKeepsSessions DEF IInv
<1>3. CASE match' = match
  <2>1. RoomSound' /\ Queued' = Queued /\ active' = active
    BY <1>1, SameRoomKept DEF IInv
  <2>2. out' \in Seq(Message) /\ \A i \in DOMAIN out' : FALSE
    BY <1>1, SilentStep
  <2>3. Announcements
    BY <1>3, <2>2, QuietStep
  <2>4. MatchOK'
    BY <1>3, <2>1 DEF IInv, MatchOK, MatchOf
  <2>5. ExpiredAreGone' /\ PlacesHaveSessions'
    BY <1>1, <1>2, <2>1 DEF IInv, SessionsKept, ExpiredAreGone, PlacesHaveSessions
  <2>6. IInv'
    BY <1>1, <1>2, <2>1, <2>2, <2>4, <2>5 DEF IInv, SessionsKept
  <2> QED  BY <2>3, <2>6
<1>4. CASE match # NoMatch /\ match.left # 0 /\ match' = [match EXCEPT !.left = @ - 1]
  <2>1. /\ match = [players |-> match.players, ko |-> match.ko, left |-> match.left]
        /\ match.ko \in [ToSet(active) -> 0 .. KoTarget - 1] /\ match.left \in 0 .. MatchTicks
        /\ match.players = active
    BY <1>4 DEF IInv, MatchOK, MatchOf
  <2> DEFINE left == match.left - 1
  <2>2. left \in 0 .. MatchTicks
    BY <1>4, <2>1, ConfigAssumption
  <2>3. match' = [match EXCEPT !.left = left]
    BY <1>4
  <2> HIDE DEF left
  <2>4. match' = [players |-> match.players, ko |-> match.ko, left |-> left]
    BY <2>1, <2>3
  <2> QED  BY <1>1, <1>2, <1>4, <2>1, <2>2, <2>4, SameMatchStep
<1> QED  BY <1>1, <1>3, <1>4 DEF Match!Aged

(***************************************************************************)
(* The end of a match by points or by time: MatchEnd to the old line-up,   *)
(* rotation, and the start of the next match, for whose players sessions   *)
(* are known to exist because nobody is being expired.                     *)
(***************************************************************************)
LEMMA MatchOverStep ==
  ASSUME IInv, Idle, match # NoMatch, NEW winner \in ToSet(active) \union {NoPlayer},
         MatchOver(winner)
  PROVE  IInv' /\ Announcements
<1> DEFINE end == Sent("MatchEnd", {winner}, Queued)
           start == MatchStartSent(NoMatch)
<1>1. /\ UNCHANGED sessionVars /\ expired' = expired /\ expired = {}
      /\ Queue!RotateAfterMatch(winner) /\ StartIfReady(NoMatch) /\ out' = end \o start
  BY DEF MatchOver, Idle
<1>2. /\ ToSet(active) \subseteq Queued /\ Queued \subseteq Players
      /\ DOMAIN active = 1 .. Len(active) /\ Len(active) \in Nat
      /\ \A i, j \in DOMAIN active : active[i] = active[j] => i = j
  BY RoomTypes DEF IInv
<1>3. Len(active) = ActiveCount /\ Match!InMatch(match) = ToSet(active)
  BY InMatchIs DEF IInv, MatchOK, MatchOf
<1>4. SessionsKept({}) /\ issued' = issued
  BY <1>1, SameSessionsKept DEF IInv
<1>5. /\ RoomSound' /\ Queued' \subseteq Queued
      /\ ToSet(active) \intersect Queued' \subseteq {winner}
      /\ winner \in ToSet(active) => winner \in Queued' /\ active'[1] = winner
  BY <1>1, <1>2, RotateKeepsRoom DEF IInv
<1>6. \A q \in Queued' : Sessions!HasSession(q)'
  BY <1>1, <1>4, <1>5 DEF IInv, SessionsKept, PlacesHaveSessions
<1>7. MatchOf(NoMatch, active') /\ told \in [Players -> 0 .. NotTold]
  BY DEF MatchOf, IInv
<1>8. /\ MatchOK' /\ told' \in [Players -> 0 .. NotTold]
      /\ Match!InMatch(match') = IF match' = NoMatch THEN {} ELSE ToSet(active')
      /\ start \in Seq(Message)
      /\ NoMatch = match' => Len(start) = 0
      /\ NoMatch # match' =>
           /\ Len(start) = 1 /\ start[1].type = "MatchStart"
           /\ match' # NoMatch =>
                /\ start[1].to = Match!InMatch(match')
                /\ Cardinality(Match!InMatch(match')) = ActiveCount
  BY <1>1, <1>5, <1>6, <1>7, StartStep
<1>9. /\ "MatchEnd" \in MessageType /\ {winner} \in SUBSET (Players \union {NoPlayer})
      /\ Queued \in SUBSET Players
  BY <1>2 DEF MessageType
<1>10. /\ end \in Seq(Message) /\ Len(end) = 1
       /\ end[1] = [type |-> "MatchEnd", about |-> {winner},
                    to |-> {p \in Queued : Sessions!HasSession(p)'}]
  BY <1>9, SentIs
<1> HIDE DEF end, start
<1>11. /\ end[1].type = "MatchEnd" /\ end[1].about = {winner}
       /\ end[1].to = {p \in Queued : Sessions!HasSession(p)'}
  BY <1>10
<1>12. /\ out' \in Seq(Message) /\ DOMAIN out' = 1 .. (1 + Len(start)) /\ out'[1] = end[1]
       /\ Len(start) = 1 => out'[2] = start[1]
  BY <1>1, <1>8, <1>10, TwoSent
<1>13. /\ Announced("MatchEnd") = {1}
       /\ Announced("MatchStart") = IF match' = NoMatch THEN {} ELSE {2}
  <2>1. CASE match' = NoMatch
    <3>1. DOMAIN out' = {1}
      BY <1>8, <1>12, <2>1
    <3> QED  BY <1>11, <1>12, <2>1, <3>1 DEF Announced
  <2>2. CASE match' # NoMatch
    <3>1. DOMAIN out' = {1, 2} /\ out'[2].type = "MatchStart"
      <4>1. Len(start) = 1 /\ start[1].type = "MatchStart"
        BY <1>8, <2>2
      <4>2. DOMAIN out' = 1 .. 2 /\ out'[2] = start[1]
        BY <1>12, <4>1
      <4> QED  BY <4>1, <4>2
    <3> QED  BY <1>11, <1>12, <2>2, <3>1 DEF Announced
  <2> QED  BY <2>1, <2>2
<1>14. ASSUME ActiveCount # 1
       PROVE  EndsTold
  <2>1. 1 \in DOMAIN active /\ 2 \in DOMAIN active /\ active[1] # active[2]
    BY <1>2, <1>3, <1>14, ConfigAssumption
  <2>2. ~(ToSet(active) \subseteq {winner}) /\ ToSet(active) # {}
    BY <2>1 DEF ToSet
  <2>3. ToSet(active') \subseteq Queued'
    BY <1>5, RoomTypes
  <2>4. Match!InMatch(match') # Match!InMatch(match)
    BY <1>3, <1>5, <1>8, <2>2, <2>3
  <2>5. Ended
    BY <2>4 DEF Ended
  <2>6. \A p \in Match!InMatch(match) : Sessions!HasSession(p)' => p \in out'[1].to
    BY <1>2, <1>3, <1>11, <1>12
  <2>7. 1 \in DOMAIN out' /\ \A j \in Announced("MatchStart") : 1 < j
    BY <1>11, <1>12, <1>13 DEF Announced
  <2> QED  BY <1>13, <2>5, <2>6, <2>7 DEF EndsTold
<1>15. WinnerFirst
  <2>1. NoPlayer \notin Players
    BY ConfigAssumption
  <2>2. ToSet(active) \intersect Queued' = {winner} \ {NoPlayer}
    BY <1>2, <1>5, <2>1
  <2>3. winner # NoPlayer => active'[1] = winner
    BY <1>5
  <2> QED  BY <1>3, <1>11, <1>12, <1>13, <2>2, <2>3 DEF WinnerFirst
<1>16. StartsTold
  BY <1>8, <1>12, <1>13 DEF StartsTold
<1>17. ExpiredAreGone' /\ PlacesHaveSessions'
  BY <1>1, <1>6 DEF ExpiredAreGone, PlacesHaveSessions
<1>18. IInv'
  BY <1>1, <1>4, <1>5, <1>8, <1>12, <1>17 DEF IInv, SessionsKept
<1> QED  BY <1>14, <1>15, <1>16, <1>18 DEF Announcements

(* The KO and the tick that may end a match. *)
LEMMA PlayedOutStep ==
  ASSUME IInv, Idle
  PROVE  /\ \A victim : KOReported(victim) => IInv' /\ Announcements
         /\ TickMatch => IInv' /\ Announcements
<1>1. match # NoMatch => /\ Match!InMatch(match) = ToSet(active) /\ match.players = active
                         /\ active \in Seq(Players)
  BY InMatchIs, RoomTypes DEF IInv, MatchOK, MatchOf
<1>2. ASSUME NEW victim, KOReported(victim)
      PROVE  IInv' /\ Announcements
  <2>1. /\ victim \in Match!InMatch(match) /\ match # NoMatch
        /\ Match!OpponentOf(match, victim) # NoPlayer
    BY <1>2 DEF KOReported, Match!InMatch
  <2>2. Match!OpponentOf(match, victim) \in ToSet(active) \union {NoPlayer}
    BY <1>1, <2>1, OpponentIs
  <2>3. CASE KOScored(victim)
    BY <2>1, <2>3, KOScoredStep
  <2>4. CASE MatchOver(Match!OpponentOf(match, victim))
    BY <2>1, <2>2, <2>4, MatchOverStep
  <2> QED  BY <1>2, <2>3, <2>4 DEF KOReported
<1>3. ASSUME TickMatch
      PROVE  IInv' /\ Announcements
  <2>1. match # NoMatch
    BY <1>3 DEF TickMatch, Match!TimeIsUp
  <2>2. PICK winner \in Match!PossibleWinners(match) : MatchOver(winner)
    BY <1>3 DEF TickMatch
  <2>3. winner \in ToSet(active) \union {NoPlayer}
    BY <1>1, <2>1 DEF Match!PossibleWinners, Match!Leaders
  <2> QED  BY <2>1, <2>2, <2>3, MatchOverStep
<1> QED  BY <1>2, <1>3

(* The invariant holds of the empty server. *)
LEMMA InitStep == Init => IInv
<1> SUFFICES ASSUME Init
             PROVE  IInv
  OBVIOUS
<1>1. /\ bySession = << >> /\ byPlayer = << >> /\ byEndpoint = << >> /\ issued = << >>
      /\ active = << >> /\ waiting = << >> /\ match = NoMatch /\ expired = {}
      /\ told = [p \in Players |-> NotTold] /\ out = << >>
  BY DEF Init, Queue!Init
<1>2. << >> \in Seq(Players) /\ Len(<< >>) = 0 /\ DOMAIN << >> = {}
  OBVIOUS
<1>3. SessionsSound /\ RecordsAsIssued
  BY <1>1, <1>2, ConfigAssumption
     DEF SessionsSound, Sessions!TypeOK, Sessions!PlayerIndexExact,
         Sessions!EndpointIndexSound, RecordsAsIssued
<1>4. RoomSound
  <2>1. QP!Init
    BY <1>1 DEF QP!Init
  <2>2. QP!IInv
    BY <2>1, ConfigAssumption, QP!InitStep
  <2> QED  BY <2>2, SameRoom
<1>5. MatchOK /\ expired \subseteq DOMAIN issued /\ ExpiredAreGone
  BY <1>1 DEF MatchOK, MatchOf, ExpiredAreGone
<1>6. PlacesHaveSessions
  <2>1. Queued = {}
    BY <1>1, <1>2 DEF Queued, Queue!Queued, Queue!ToSet
  <2> QED  BY <2>1 DEF PlacesHaveSessions
<1>7. told \in [Players -> 0 .. NotTold] /\ out \in Seq(Message)
  <2>1. NotTold \in 0 .. NotTold
    BY ConfigAssumption DEF NotTold
  <2>2. << >> \in Seq(Message)
    OBVIOUS
  <2> QED  BY <1>1, <2>1, <2>2
<1> QED  BY <1>3, <1>4, <1>5, <1>6, <1>7 DEF IInv

(* The invariant survives a step in which nothing changes. *)
LEMMA StutterStep == IInv /\ UNCHANGED vars => IInv'
<1> SUFFICES ASSUME IInv, UNCHANGED vars
             PROVE  IInv'
  OBVIOUS
<1>1. /\ UNCHANGED sessionVars /\ UNCHANGED queueVars
      /\ UNCHANGED << match, expired, told, out >>
  BY DEF vars
<1>2. SessionsKept({}) /\ issued' = issued
  BY <1>1, SameSessionsKept DEF IInv
<1>3. RoomSound' /\ Queued' = Queued /\ active' = active
  BY <1>1, SameRoomKept DEF IInv
<1>4. MatchOK'
  BY <1>1, <1>3 DEF IInv, MatchOK, MatchOf
<1>5. ExpiredAreGone' /\ PlacesHaveSessions'
  BY <1>1, <1>2, <1>3 DEF IInv, SessionsKept, ExpiredAreGone, PlacesHaveSessions
<1> QED  BY <1>1, <1>2, <1>3, <1>4, <1>5 DEF IInv, SessionsKept

(* The invariant survives every step, and each announces what it should. *)
LEMMA NextStep == IInv /\ Next => IInv' /\ Announcements
<1> SUFFICES ASSUME IInv, Next
             PROVE  IInv' /\ Announcements
  OBVIOUS
<1>1. CASE \E p \in Players : Hello(p)
  BY <1>1, HelloRejectedStep, HelloAcceptedStep DEF Hello
<1>2. CASE \E p \in Players : KOReported(p)
  BY <1>2, PlayedOutStep DEF KOReported
<1>3. CASE \E s \in DOMAIN issued : Heartbeat(s)
  BY <1>3, HeartbeatStep
<1>4. CASE \E s \in DOMAIN issued : Disconnect(s)
  BY <1>4, DisconnectStep
<1>5. CASE ExpireSessions
  BY <1>5, ExpireSessionsStep
<1>6. CASE ExpireOne
  BY <1>6, ExpireOneStep
<1>7. CASE TickMatch
  BY <1>7, PlayedOutStep DEF TickMatch
<1>8. CASE Advance
  BY <1>8, AdvanceStep
<1> QED  BY <1>1, <1>2, <1>3, <1>4, <1>5, <1>6, <1>7, <1>8 DEF Next

(* The inductive invariant holds of every behaviour. *)
LEMMA Invariance == Spec => []IInv
<1>1. IInv /\ [Next]_vars => IInv'
  BY NextStep, StutterStep
<1> QED  BY InitStep, <1>1, PTL DEF Spec

(* What the run checks follows from the inductive invariant. *)
LEMMA IInvImplies == IInv => TypeOK /\ MatchIsTheLineUp /\ PlacesHaveSessions
<1> SUFFICES ASSUME IInv
             PROVE  TypeOK /\ MatchIsTheLineUp
  BY DEF IInv
<1>1. Sessions!TypeOK /\ Queue!TypeOK /\ expired \subseteq DOMAIN issued
      /\ told \in [Players -> 0 .. NotTold] /\ out \in Seq(Message)
  BY DEF IInv, SessionsSound, RoomSound
<1>2. match # NoMatch =>
        /\ match.players = active /\ Len(active) = ActiveCount
        /\ match.ko \in [ToSet(active) -> 0 .. KoTarget - 1] /\ match.left \in 0 .. MatchTicks
  BY DEF IInv, MatchOK, MatchOf
<1> QED  BY <1>1, <1>2 DEF TypeOK, MatchIsTheLineUp, Queue!TypeOK

(* Every step of every behaviour announces what it should. *)
LEMMA EveryStepAnnounces == Spec => [][Announcements]_vars
<1>1. IInv /\ [Next]_vars => [Announcements]_vars
  BY NextStep
<1> QED  BY <1>1, Invariance, PTL DEF Spec

-----------------------------------------------------------------------------
(* The theorems. *)

(***************************************************************************)
(* Sessions, room, match and what is told stay in their types, for any     *)
(* number of players, places and sessions.                                 *)
(***************************************************************************)
THEOREM TypeCorrect == Spec => []TypeOK
BY Invariance, IInvImplies, PTL

(***************************************************************************)
(* The players of the running match are the active players of the room, in *)
(* order, whoever joins, leaves or times out.                              *)
(***************************************************************************)
THEOREM MatchIsTheLineUpHolds == Spec => []MatchIsTheLineUp
BY Invariance, IInvImplies, PTL

(***************************************************************************)
(* Whoever has a place in the room has a session or is about to lose the   *)
(* place, so no place is lost for good.                                    *)
(***************************************************************************)
THEOREM PlacesHaveSessionsHolds == Spec => []PlacesHaveSessions
BY Invariance, IInvImplies, PTL

(***************************************************************************)
(* However a match ends, one MatchEnd reaches each of its players who has  *)
(* a session, before any MatchStart. (With one active player the same one  *)
(* plays on, and the end cannot be told from the players.)                 *)
(***************************************************************************)
THEOREM MatchEndReachesPlayersHolds ==
  ASSUME ActiveCount # 1
  PROVE  Spec => MatchEndReachesPlayers
<1>1. Announcements => EndsTold
  BY DEF Announcements
<1>2. Spec => [][EndsTold]_vars
  BY <1>1, EveryStepAnnounces, PTL
<1> QED  BY <1>2 DEF MatchEndReachesPlayers, EndsTold

(***************************************************************************)
(* The winner of a match that ends is still in the room, first in the      *)
(* line-up, and nobody else of the match is. It takes at most two active   *)
(* players: of three, the one who leaves names one winner, and the other,  *)
(* too, keeps the place.                                                   *)
(***************************************************************************)
THEOREM WinnerStaysOnHolds ==
  ASSUME ActiveCount <= 2
  PROVE  Spec => WinnerStaysOn
<1>1. Announcements => WinnerFirst
  BY DEF Announcements
<1>2. Spec => [][WinnerFirst]_vars
  BY <1>1, EveryStepAnnounces, PTL
<1> QED  BY <1>2 DEF WinnerStaysOn, WinnerFirst

(***************************************************************************)
(* Whenever a match starts, every player of it has a session and is sent   *)
(* the MatchStart.                                                         *)
(***************************************************************************)
THEOREM MatchStartReachesPlayersHolds == Spec => MatchStartReachesPlayers
<1>1. Announcements => StartsTold
  BY DEF Announcements
<1>2. Spec => [][StartsTold]_vars
  BY <1>1, EveryStepAnnounces, PTL
<1> QED  BY <1>2 DEF MatchStartReachesPlayers, StartsTold
=============================================================================
