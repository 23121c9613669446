------------------------ MODULE SessionManagerProofs ------------------------
(***************************************************************************)
(* Proofs about SessionManager, for any players, addresses and timeout.    *)
(* The three indexes hold one another up, so none of the invariants is     *)
(* inductive alone: that a record can be taken away needs the player       *)
(* index, that its address goes with it needs the endpoint index, and that *)
(* a new session is a new key needs the types.                             *)
(***************************************************************************)
EXTENDS SessionManager, SequenceTheorems, TLAPS

-----------------------------------------------------------------------------

(* What the three indexes promise one another. *)
Indexes == PlayerIndexExact /\ EndpointIndexSound

(* The inductive invariant. *)
IInv == TypeOK /\ Indexes

(***************************************************************************)
(* The session ids given out are the numbers of the hellos so far.         *)
(***************************************************************************)
LEMMA IssuedIsInterval ==
  ASSUME TypeOK
  PROVE  Issued = 1 .. Len(issued) /\ Len(issued) \in Nat
BY LenProperties DEF TypeOK, Issued

(***************************************************************************)
(* A server that has just started has empty indexes.                       *)
(***************************************************************************)
LEMMA InitIInv == Init => IInv
<1> SUFFICES ASSUME Init
             PROVE  IInv
  OBVIOUS
<1> USE DEF Init
<1>1. DOMAIN << >> = {}
  OBVIOUS
<1>2. TypeOK
  BY <1>1, EmptySeq, MaxSessionsAssumption DEF TypeOK, Issued
<1>3. Indexes
  BY <1>1 DEF Indexes, PlayerIndexExact, EndpointIndexSound
<1> QED  BY <1>2, <1>3 DEF IInv

(***************************************************************************)
(* A record of a player without a session enters the indexes under a new   *)
(* session id (handle_client_hello).                                       *)
(***************************************************************************)
LEMMA HelloNewKeepsIInv ==
  ASSUME IInv, NEW p \in Players, NEW e \in Endpoints, HelloNew(p, e), UNCHANGED closed
  PROVE  /\ IInv'
         /\ DOMAIN bySession \subseteq DOMAIN bySession'
         /\ \A s \in DOMAIN bySession' \ DOMAIN bySession : s \notin Issued
<1> DEFINE s == Len(issued) + 1
           r == [player |-> p, endpoint |-> e, idle |-> 0]
<1>1. /\ Issued = 1 .. Len(issued) /\ Len(issued) \in Nat
      /\ s \notin Issued /\ s \notin DOMAIN bySession
  BY IssuedIsInterval DEF IInv, TypeOK
<1>2. /\ issued' \in Seq(Players) /\ Len(issued') = s
      /\ Issued' = Issued \union {s} /\ s <= MaxSessions
  <2>1. issued' \in Seq(Players) /\ Len(issued') = s
    BY AppendProperties DEF HelloNew, IInv, TypeOK
  <2>2. Issued' = 1 .. s
    BY <2>1, LenProperties DEF Issued
  <2> QED  BY <1>1, <2>1, <2>2, MaxSessionsAssumption DEF HelloNew
<1>3. p \notin DOMAIN byPlayer
  BY DEF HelloNew, HasSession, IInv, Indexes, PlayerIndexExact
<1>4. /\ DOMAIN bySession' = DOMAIN bySession \union {s}
      /\ bySession'[s] = r
      /\ \A t \in DOMAIN bySession : bySession'[t] = bySession[t]
  BY <1>1 DEF HelloNew, Store, With
<1>5. /\ DOMAIN byPlayer' = DOMAIN byPlayer \union {p}
      /\ byPlayer'[p] = s
      /\ \A q \in DOMAIN byPlayer : byPlayer'[q] = byPlayer[q]
  <2>1. byPlayer' = With(byPlayer, p, s)
    BY DEF HelloNew, Store
  <2> QED  BY <1>3, <2>1 DEF With
<1>6. /\ DOMAIN byEndpoint' = DOMAIN byEndpoint \union {e}
      /\ byEndpoint'[e] = s
      /\ \A a \in DOMAIN byEndpoint \ {e} : byEndpoint'[a] = byEndpoint[a]
  <2>1. byEndpoint' = With(byEndpoint, e, s)
    BY DEF HelloNew, Store
  <2> QED  BY <2>1 DEF With
<1>7. r \in SessionRecord /\ r.player = p /\ r.endpoint = e
  BY TimeoutAssumption DEF SessionRecord
<1> HIDE DEF s, r
<1>8. TypeOK'
  <2>1. DOMAIN bySession' \subseteq Issued' /\ closed' \subseteq Issued'
    BY <1>2, <1>4 DEF IInv, TypeOK
  <2>2. \A t \in DOMAIN bySession' : bySession'[t] \in SessionRecord
    BY <1>4, <1>7 DEF IInv, TypeOK
  <2>3. DOMAIN byPlayer' \subseteq Players /\ \A q \in DOMAIN byPlayer' : byPlayer'[q] \in Issued'
    BY <1>2, <1>5 DEF IInv, TypeOK
  <2>4. /\ DOMAIN byEndpoint' \subseteq Endpoints
        /\ \A a \in DOMAIN byEndpoint' : byEndpoint'[a] \in Issued'
    BY <1>2, <1>6 DEF IInv, TypeOK
  <2> QED  BY <1>2, <2>1, <2>2, <2>3, <2>4 DEF TypeOK
<1>9. PlayerIndexExact'
  BY <1>1, <1>3, <1>4, <1>5, <1>7 DEF IInv, Indexes, PlayerIndexExact
<1>10. EndpointIndexSound'
  BY <1>1, <1>4, <1>6, <1>7 DEF IInv, Indexes, EndpointIndexSound
<1> QED  BY <1>1, <1>4, <1>8, <1>9, <1>10 DEF IInv, Indexes

(***************************************************************************)
(* A session that is seen again stays the session of its player, and       *)
(* leaves the address where it was (_replace_record).                      *)
(***************************************************************************)
LEMMA ReplaceRecordKeepsIInv ==
  ASSUME IInv, NEW s \in DOMAIN bySession, NEW e \in Endpoints, ReplaceRecord(s, e),
         UNCHANGED << issued, closed >>
  PROVE  IInv' /\ DOMAIN bySession' = DOMAIN bySession
<1> DEFINE p == bySession[s].player
           old == bySession[s].endpoint
           r == [player |-> p, endpoint |-> e, idle |-> 0]
<1>1. /\ bySession[s] \in SessionRecord /\ p \in Players /\ s \in Issued
      /\ p \in DOMAIN byPlayer /\ byPlayer[p] = s
  BY DEF IInv, TypeOK, Indexes, PlayerIndexExact, SessionRecord
<1>2. /\ bySession' = With(bySession, s, r)
      /\ byPlayer' = With(byPlayer, p, s)
      /\ byEndpoint' = With(Without(byEndpoint, {old}), e, s)
  BY DEF ReplaceRecord, Store
<1>3. /\ DOMAIN bySession' = DOMAIN bySession
      /\ bySession'[s] = r
      /\ \A t \in DOMAIN bySession \ {s} : bySession'[t] = bySession[t]
  BY <1>2 DEF With
<1>4. /\ DOMAIN byPlayer' = DOMAIN byPlayer
      /\ \A q \in DOMAIN byPlayer : byPlayer'[q] = byPlayer[q]
  BY <1>1, <1>2 DEF With
<1>5. /\ DOMAIN byEndpoint' = (DOMAIN byEndpoint \ {old}) \union {e}
      /\ byEndpoint'[e] = s
      /\ \A a \in DOMAIN byEndpoint \ {old, e} : byEndpoint'[a] = byEndpoint[a]
  <2> DEFINE others == Without(byEndpoint, {old})
  <2>1. /\ DOMAIN others = DOMAIN byEndpoint \ {old}
        /\ \A a \in DOMAIN byEndpoint \ {old} : others[a] = byEndpoint[a]
    BY DEF Without, Restrict
  <2> HIDE DEF others
  <2>2. byEndpoint' = With(others, e, s)
    BY <1>2 DEF others
  <2>3. /\ DOMAIN byEndpoint' = DOMAIN others \union {e}
        /\ byEndpoint'[e] = s
        /\ \A a \in DOMAIN others \ {e} : byEndpoint'[a] = others[a]
    BY <2>2 DEF With
  <2> QED  BY <2>1, <2>3
<1>6. r \in SessionRecord /\ r.player = p /\ r.endpoint = e
  BY <1>1, TimeoutAssumption DEF SessionRecord
<1>7. Issued' = Issued
  BY DEF Issued
<1>8. old = bySession[s].endpoint
  OBVIOUS
<1> HIDE DEF r, old
<1>9. TypeOK'
  <2>1. issued' \in Seq(Players) /\ Len(issued') <= MaxSessions /\ closed' \subseteq Issued'
    BY <1>7 DEF IInv, TypeOK
  <2>2. /\ DOMAIN bySession' \subseteq Issued'
        /\ \A t \in DOMAIN bySession' : bySession'[t] \in SessionRecord
    BY <1>3, <1>6, <1>7 DEF IInv, TypeOK
  <2>3. DOMAIN byPlayer' \subseteq Players /\ \A q \in DOMAIN byPlayer' : byPlayer'[q] \in Issued'
    BY <1>4, <1>7 DEF IInv, TypeOK
  <2>4. /\ DOMAIN byEndpoint' \subseteq Endpoints
        /\ \A a \in DOMAIN byEndpoint' : byEndpoint'[a] \in Issued'
    BY <1>1, <1>5, <1>7 DEF IInv, TypeOK
  <2> QED  BY <2>1, <2>2, <2>3, <2>4 DEF TypeOK
<1>10. PlayerIndexExact'
  BY <1>1, <1>3, <1>4, <1>6 DEF IInv, Indexes, PlayerIndexExact
<1>11. EndpointIndexSound'
  <2> SUFFICES ASSUME NEW a \in DOMAIN byEndpoint'
               PROVE  /\ byEndpoint'[a] \in DOMAIN bySession'
                      /\ bySession'[byEndpoint'[a]].endpoint = a
    BY DEF EndpointIndexSound
  <2>1. CASE a = e
    BY <1>3, <1>5, <1>6, <2>1
  <2>2. CASE a # e
    <3>1. a \in DOMAIN byEndpoint /\ a # old /\ byEndpoint'[a] = byEndpoint[a]
      BY <1>5, <2>2
    <3>2. byEndpoint[a] \in DOMAIN bySession /\ bySession[byEndpoint[a]].endpoint = a
      BY <3>1 DEF IInv, Indexes, EndpointIndexSound
    <3>3. byEndpoint[a] # s
      BY <1>8, <3>1, <3>2
    <3> QED  BY <1>3, <3>1, <3>2, <3>3
  <2> QED  BY <2>1, <2>2
<1> QED  BY <1>3, <1>9, <1>10, <1>11 DEF IInv, Indexes

(***************************************************************************)
(* Players are removed with their records and the addresses of these, and  *)
(* with nobody else's (remove_player).                                     *)
(***************************************************************************)
LEMMA RemovePlayersKeepsIInv ==
  ASSUME IInv, NEW ps, RemovePlayers(ps), UNCHANGED << issued, closed >>
  PROVE  /\ IInv'
         /\ DOMAIN bySession' \subseteq DOMAIN bySession
         /\ \A s \in DOMAIN bySession \ DOMAIN bySession' : bySession[s].player \in ps
<1> DEFINE gone == {byPlayer[p] : p \in ps \intersect DOMAIN byPlayer}
           left == {bySession[s].endpoint : s \in gone \intersect DOMAIN bySession}
<1>1. /\ bySession' = Without(bySession, gone)
      /\ byPlayer' = Without(byPlayer, ps)
      /\ byEndpoint' = Without(byEndpoint, left)
  BY DEF RemovePlayers
<1>2. \A s \in DOMAIN bySession : s \in gone <=> bySession[s].player \in ps
  BY DEF IInv, Indexes, PlayerIndexExact
<1>3. \A p \in DOMAIN byPlayer \ ps : byPlayer[p] \notin gone
  BY DEF IInv, Indexes, PlayerIndexExact
<1>4. \A s \in gone \intersect DOMAIN bySession : bySession[s].endpoint \in left
  OBVIOUS
<1> HIDE DEF gone, left
<1>5. /\ DOMAIN bySession' = DOMAIN bySession \ gone
      /\ \A s \in DOMAIN bySession' : bySession'[s] = bySession[s]
  BY <1>1 DEF Without, Restrict
<1>6. /\ DOMAIN byPlayer' = DOMAIN byPlayer \ ps
      /\ \A p \in DOMAIN byPlayer' : byPlayer'[p] = byPlayer[p]
  BY <1>1 DEF Without, Restrict
<1>7. /\ DOMAIN byEndpoint' = DOMAIN byEndpoint \ left
      /\ \A a \in DOMAIN byEndpoint' : byEndpoint'[a] = byEndpoint[a]
  BY <1>1 DEF Without, Restrict
<1>8. TypeOK'
  <2>1. Issued' = Issued
    BY DEF Issued
  <2> QED  BY <1>5, <1>6, <1>7, <2>1 DEF IInv, TypeOK
<1>9. PlayerIndexExact'
  BY <1>2, <1>3, <1>5, <1>6 DEF IInv, Indexes, PlayerIndexExact
<1>10. EndpointIndexSound'
  BY <1>4, <1>5, <1>7 DEF IInv, Indexes, EndpointIndexSound
<1> QED  BY <1>2, <1>5, <1>8, <1>9, <1>10 DEF IInv, Indexes

(***************************************************************************)
(* Records grow older where they are.                                      *)
(***************************************************************************)
LEMMA AdvanceKeepsIInv ==
  ASSUME IInv, Advance, UNCHANGED closed
  PROVE  IInv' /\ DOMAIN bySession' = DOMAIN bySession
<1>1. DOMAIN bySession' = DOMAIN bySession
  BY DEF Advance
<1>2. ASSUME NEW s \in DOMAIN bySession
      PROVE  /\ bySession'[s] \in SessionRecord
             /\ bySession'[s].player = bySession[s].player
             /\ bySession'[s].endpoint = bySession[s].endpoint
  <2>1. bySession[s] \in SessionRecord /\ bySession'[s] = Older(bySession[s])
    BY DEF Advance, IInv, TypeOK
  <2> QED  BY <2>1, TimeoutAssumption DEF SessionRecord, Older
<1>3. UNCHANGED << byPlayer, byEndpoint, issued, Issued >>
  BY DEF Advance, Issued
<1>4. TypeOK'
  BY <1>1, <1>2, <1>3 DEF IInv, TypeOK
<1>5. PlayerIndexExact' /\ EndpointIndexSound'
  BY <1>1, <1>2, <1>3 DEF IInv, Indexes, PlayerIndexExact, EndpointIndexSound
<1> QED  BY <1>1, <1>4, <1>5 DEF IInv, Indexes

-----------------------------------------------------------------------------

(***************************************************************************)
(* What the two action properties say of a step.                           *)
(***************************************************************************)
EndsForCause ==
  \A s \in DOMAIN bySession \ (DOMAIN bySession)' :
    s \in closed \/ bySession[s].idle >= Timeout

(* A new session has an id that was never given out. *)
OpensNewOnly == \A s \in (DOMAIN bySession)' \ DOMAIN bySession : s \notin Issued

(***************************************************************************)
(* Every step keeps the indexes in step with one another, ends sessions    *)
(* for a cause only, and opens none under an id that was given out.        *)
(***************************************************************************)
LEMMA StepIsSound ==
  ASSUME IInv, [Next]_vars
  PROVE  IInv' /\ EndsForCause /\ OpensNewOnly
<1> USE DEF EndsForCause, OpensNewOnly
<1>1. ASSUME NEW p \in Players, NEW e \in Endpoints, HelloAgain(p, e), UNCHANGED closed
      PROVE  IInv' /\ EndsForCause /\ OpensNewOnly
  <2>1. byPlayer[p] \in DOMAIN bySession /\ ReplaceRecord(byPlayer[p], e) /\ UNCHANGED issued
    BY <1>1 DEF HelloAgain, HasSession
  <2> QED  BY <1>1, <2>1, ReplaceRecordKeepsIInv
<1>2. ASSUME NEW p \in Players, NEW e \in Endpoints, HelloNew(p, e), UNCHANGED closed
      PROVE  IInv' /\ EndsForCause /\ OpensNewOnly
  BY <1>2, HelloNewKeepsIInv
<1>3. ASSUME NEW s \in Issued, NEW e \in Endpoints,
             HandleHeartbeat(s, issued[s], e), UNCHANGED closed
      PROVE  IInv' /\ EndsForCause /\ OpensNewOnly
  <2>1. s \in DOMAIN bySession /\ ReplaceRecord(s, e) /\ UNCHANGED issued
    BY <1>3 DEF HandleHeartbeat
  <2> QED  BY <1>3, <2>1, ReplaceRecordKeepsIInv
<1>4. ASSUME NEW s \in closed, Disconnect(s, issued[s]), UNCHANGED closed
      PROVE  IInv' /\ EndsForCause /\ OpensNewOnly
  <2> DEFINE p == issued[s]
  <2>1. /\ s \in DOMAIN bySession /\ bySession[s].player = p
        /\ RemovePlayers({p}) /\ UNCHANGED issued
    BY <1>4 DEF Disconnect
  <2>2. /\ IInv' /\ DOMAIN bySession' \subseteq DOMAIN bySession
        /\ \A t \in DOMAIN bySession \ DOMAIN bySession' : bySession[t].player \in {p}
    BY <1>4, <2>1, RemovePlayersKeepsIInv
  <2>3. \A t \in DOMAIN bySession : bySession[t].player = p => t = s
    BY <2>1 DEF IInv, Indexes, PlayerIndexExact
  <2> QED  BY <2>2, <2>3
<1>5. ASSUME ExpireTimedOut, UNCHANGED closed
      PROVE  IInv' /\ EndsForCause /\ OpensNewOnly
  <2> DEFINE ps == {bySession[s].player : s \in TimedOut}
  <2>1. RemovePlayers(ps) /\ UNCHANGED issued
    BY <1>5 DEF ExpireTimedOut
  <2>2. \A t \in DOMAIN bySession : bySession[t].player \in ps => bySession[t].idle >= Timeout
    BY DEF IInv, Indexes, PlayerIndexExact, TimedOut
  <2> HIDE DEF ps
  <2>3. /\ IInv' /\ DOMAIN bySession' \subseteq DOMAIN bySession
        /\ \A t \in DOMAIN bySession \ DOMAIN bySession' : bySession[t].player \in ps
    BY <1>5, <2>1, RemovePlayersKeepsIInv
  <2> QED  BY <2>2, <2>3
<1>6. ASSUME Advance, UNCHANGED closed
      PROVE  IInv' /\ EndsForCause /\ OpensNewOnly
  BY <1>6, AdvanceKeepsIInv
<1>7. ASSUME NEW s \in Issued, CloseSession(s)
      PROVE  IInv' /\ EndsForCause /\ OpensNewOnly
  BY <1>7 DEF CloseSession, sessionVars, IInv, TypeOK, Issued, Indexes,
     PlayerIndexExact, EndpointIndexSound
<1>8. ASSUME UNCHANGED vars
      PROVE  IInv' /\ EndsForCause /\ OpensNewOnly
  BY <1>8 DEF vars, sessionVars, IInv, TypeOK, Issued, Indexes,
     PlayerIndexExact, EndpointIndexSound
<1>9. CASE Next
  BY <1>1, <1>2, <1>3, <1>4, <1>5, <1>6, <1>7, <1>9 DEF Next, HandleClientHello
<1> QED  BY <1>8, <1>9

-----------------------------------------------------------------------------
(* Whose sessions are open after an operation, for ServerApp. *)

(***************************************************************************)
(* With an exact player index, who has a session can be read off the       *)
(* records.                                                                *)
(***************************************************************************)
LEMMA HasSessionMeans ==
  /\ PlayerIndexExact =>
       \A p : HasSession(p) <=> \E s \in DOMAIN bySession : bySession[s].player = p
  /\ PlayerIndexExact' =>
       \A p : HasSession(p)' <=> \E s \in DOMAIN bySession' : bySession'[s].player = p
<1>1. ASSUME PlayerIndexExact, NEW p
      PROVE  HasSession(p) <=> \E s \in DOMAIN bySession : bySession[s].player = p
  BY <1>1 DEF PlayerIndexExact, HasSession
<1>2. ASSUME PlayerIndexExact', NEW p
      PROVE  HasSession(p)' <=> \E s \in DOMAIN bySession' : bySession'[s].player = p
  BY <1>2 DEF PlayerIndexExact, HasSession
<1> QED  BY <1>1, <1>2

(***************************************************************************)
(* A hello opens a session of its player, or leaves all with their owners. *)
(***************************************************************************)
LEMMA HelloNewOwners ==
  ASSUME NEW p, NEW e, HelloNew(p, e)
  PROVE  /\ DOMAIN bySession' = DOMAIN bySession \union {Len(issued) + 1}
         /\ bySession'[Len(issued) + 1].player = p
         /\ \A t \in DOMAIN bySession \ {Len(issued) + 1} :
              bySession'[t].player = bySession[t].player
<1> DEFINE s == Len(issued) + 1
           r == [player |-> p, endpoint |-> e, idle |-> 0]
<1>1. bySession' = With(bySession, s, r)
  BY DEF HelloNew, Store
<1>2. r.player = p
  OBVIOUS
<1> HIDE DEF s, r
<1>3. /\ DOMAIN bySession' = DOMAIN bySession \union {s} /\ bySession'[s] = r
      /\ \A t \in DOMAIN bySession \ {s} : bySession'[t] = bySession[t]
  BY <1>1 DEF With
<1> QED  BY <1>2, <1>3 DEF s

(* A record that is replaced stays the record of its player. *)
LEMMA ReplaceRecordOwners ==
  ASSUME NEW s \in DOMAIN bySession, NEW e, ReplaceRecord(s, e)
  PROVE  /\ DOMAIN bySession' = DOMAIN bySession
         /\ \A t \in DOMAIN bySession : bySession'[t].player = bySession[t].player
<1> DEFINE r == [player |-> bySession[s].player, endpoint |-> e, idle |-> 0]
<1>1. bySession' = With(bySession, s, r)
  BY DEF ReplaceRecord, Store
<1>2. r.player = bySession[s].player
  OBVIOUS
<1> HIDE DEF r
<1>3. /\ DOMAIN bySession' = DOMAIN bySession /\ bySession'[s] = r
      /\ \A t \in DOMAIN bySession \ {s} : bySession'[t] = bySession[t]
  BY <1>1 DEF With
<1> QED  BY <1>2, <1>3

(***************************************************************************)
(* remove_player takes away the sessions of its players and no others.     *)
(***************************************************************************)
LEMMA RemovePlayersOwners ==
  ASSUME PlayerIndexExact, NEW ps, RemovePlayers(ps)
  PROVE  /\ \A t : t \in DOMAIN bySession' <=>
                    t \in DOMAIN bySession /\ bySession[t].player \notin ps
         /\ \A t \in DOMAIN bySession' : bySession'[t].player = bySession[t].player
<1> DEFINE gone == {byPlayer[p] : p \in ps \intersect DOMAIN byPlayer}
<1>1. bySession' = Without(bySession, gone)
  BY DEF RemovePlayers
<1>2. \A t \in DOMAIN bySession : t \in gone <=> bySession[t].player \in ps
  BY DEF PlayerIndexExact
<1> HIDE DEF gone
<1>3. /\ DOMAIN bySession' = DOMAIN bySession \ gone
      /\ \A t \in DOMAIN bySession' : bySession'[t] = bySession[t]
  BY <1>1 DEF Without, Restrict
<1> QED  BY <1>2, <1>3

(* The clock changes nobody's session. *)
LEMMA AdvanceOwners ==
  ASSUME Advance, TypeOK
  PROVE  /\ DOMAIN bySession' = DOMAIN bySession
         /\ \A t \in DOMAIN bySession : bySession'[t].player = bySession[t].player
<1>1. /\ DOMAIN bySession' = DOMAIN bySession
      /\ \A t \in DOMAIN bySession : bySession'[t] = Older(bySession[t])
  BY DEF Advance
<1>2. ASSUME NEW t \in DOMAIN bySession
      PROVE  Older(bySession[t]).player = bySession[t].player
  <2>1. bySession[t] \in SessionRecord
    BY DEF TypeOK
  <2> QED  BY <2>1 DEF Older, SessionRecord
<1> QED  BY <1>1, <1>2

-----------------------------------------------------------------------------

(***************************************************************************)
(* The inductive invariant holds of every behaviour of the sessions.       *)
(***************************************************************************)
LEMMA Invariance == Spec => []IInv
<1>1. Init => IInv
  BY InitIInv
<1>2. IInv /\ [Next]_vars => IInv'
  BY StepIsSound
<1> QED  BY <1>1, <1>2, PTL DEF Spec

(***************************************************************************)
(* The three dictionaries stay well-typed, whatever datagrams arrive late, *)
(* repeated and from wherever.                                             *)
(***************************************************************************)
THEOREM TypeCorrect == Spec => []TypeOK
<1>1. IInv => TypeOK
  BY DEF IInv
<1> QED  BY <1>1, Invariance, PTL

(***************************************************************************)
(* Nobody ever has two sessions, and no record is out of reach of          *)
(* remove_player.                                                          *)
(***************************************************************************)
THEOREM PlayerIndexExactHolds == Spec => []PlayerIndexExact
<1>1. IInv => PlayerIndexExact
  BY DEF IInv, Indexes
<1> QED  BY <1>1, Invariance, PTL

(***************************************************************************)
(* No entry of the address index is stale, although players move and share *)
(* addresses.                                                              *)
(***************************************************************************)
THEOREM EndpointIndexSoundHolds == Spec => []EndpointIndexSound
<1>1. IInv => EndpointIndexSound
  BY DEF IInv, Indexes
<1> QED  BY <1>1, Invariance, PTL

(***************************************************************************)
(* A session ends only by its own client's notice or by its own silence:   *)
(* the notice of an earlier session of the player, or the end of a session *)
(* at the same address, does not touch it.                                 *)
(***************************************************************************)
THEOREM NoLiveSessionLostHolds == Spec => NoLiveSessionLost
<1>1. IInv /\ [Next]_vars => [EndsForCause]_vars
  BY StepIsSound
<1>2. Spec => [][EndsForCause]_vars
  BY <1>1, Invariance, PTL DEF Spec
<1> QED  BY <1>2 DEF NoLiveSessionLost, EndsForCause

(***************************************************************************)
(* The id of an ended session opens none again.                            *)
(***************************************************************************)
THEOREM EndedStaysEndedHolds == Spec => EndedStaysEnded
<1>1. IInv /\ [Next]_vars => [OpensNewOnly]_vars
  BY StepIsSound
<1>2. Spec => [][OpensNewOnly]_vars
  BY <1>1, Invariance, PTL DEF Spec
<1> QED  BY <1>2 DEF EndedStaysEnded, OpensNewOnly
=============================================================================
