--------------------------- MODULE DuelScoreProofs ---------------------------
(***************************************************************************)
(* Proofs about the points and the lines of a duel: no top-out counts      *)
(* twice, nobody is left for dead, and the lines of every attack are       *)
(* counted or told as canceled.  Two players are in a match, and the       *)
(* network keeps every message (Repeats), so that the wire is the history  *)
(* of all that was reported and answered.                                  *)
(***************************************************************************)
EXTENDS DuelProofs

-----------------------------------------------------------------------------
(* The counts. *)

(* The reports of p that the server has handled. *)
HandledOf(p, type, id) == {m \in ReportsOf(p, type, id) : ~Channel!IsNew(m)}

(***************************************************************************)
(* While a match runs, a player has exactly as many points as the opponent *)
(* has KOs that were handled.                                              *)
(***************************************************************************)
KoExact ==
  match # NoMatch =>
    \A p, q \in ToSet(active) :
      p # q => match.ko[q] = Cardinality(HandledOf(p, "KOReported", match.id))

(***************************************************************************)
(* The points in every MatchEnd are counts, and no more than the reported  *)
(* KOs.                                                                    *)
(***************************************************************************)
EndsJustified ==
  \A d \in wire : d.msg.type = "MatchEnd" =>
    /\ \A p \in DOMAIN d.msg.ko : d.msg.ko[p] \in Nat
    /\ Justified(d.msg.ko, d.msg.match)

(***************************************************************************)
(* While a match runs, whoever topped out was sent a respawn for each KO   *)
(* that was handled.                                                       *)
(***************************************************************************)
RespawnsSent ==
  match # NoMatch =>
    \A p \in ToSet(active) :
      Cardinality(RespawnsOf(p, match.id)) >= Cardinality(HandledOf(p, "KOReported", match.id))

(* Whoever is dead has said so. *)
DeadHaveReported ==
  \A p \in Players :
    client[p].running /\ ~client[p].alive => ReportsOf(p, "KOReported", client[p].match) # {}

(***************************************************************************)
(* The invariant of the counts, inductive together with IInv. KoExact is   *)
(* the strengthening of KoCountsAreDeaths: an upper bound on the points    *)
(* would not survive the next KO, the exact count does, because a handled  *)
(* number (NumbersFresh) means one report.                                 *)
(***************************************************************************)
CInv ==
  /\ KoExact /\ EndsJustified /\ RespawnsSent /\ DeadHaveReported
  /\ IsFiniteSet(wire) /\ IsFiniteSet(pending)

-----------------------------------------------------------------------------
(* Finite sets. *)

(* What a function makes of a finite set is finite, and not more. *)
LEMMA FiniteImage ==
  ASSUME NEW S, IsFiniteSet(S), NEW f, NEW T, T = {f[x] : x \in S}
  PROVE  IsFiniteSet(T)
<1> DEFINE g == [x \in S |-> f[x]]
<1>1. g \in Surjection(S, T)
  BY DEF Surjection
<1> QED  BY <1>1, FS_Surjection

(* Finitely many messages are finitely many datagrams. *)
LEMMA FiniteDatagrams ==
  ASSUME IInv, NEW ms, ServerMoves(ms), IsFiniteSet(ms)
  PROVE  IsFiniteSet(Datagrams(ms))
<1> DEFINE S == Players \X ms
           f == [x \in S |-> [to |-> x[1], msg |-> x[2]]]
           T == {f[x] : x \in S}
<1>1. IsFiniteSet(S)
  BY RoomAssumption, FS_Product
<1>2. IsFiniteSet(T)
  <2> HIDE DEF S, f
  <2> QED  BY <1>1, FiniteImage
<1>3. \A d \in Datagrams(ms) : d \in T
  <2> SUFFICES ASSUME NEW d \in Datagrams(ms) PROVE d \in T
    OBVIOUS
  <2>1. d.to \in Players /\ d.msg \in ms /\ d = [to |-> d.to, msg |-> d.msg]
    BY NewOnWire
  <2>2. << d.to, d.msg >> \in S /\ f[<< d.to, d.msg >>] = d
    BY <2>1
  <2> HIDE DEF S, f
  <2> QED  BY <2>2
<1> HIDE DEF T
<1> QED  BY <1>2, <1>3, FS_Subset

(* The messages that went over the wire are finitely many. *)
LEMMA FiniteMessages ==
  ASSUME NEW W, IsFiniteSet(W), NEW Ms, \A m \in Ms : \E d \in W : m = d.msg
  PROVE  IsFiniteSet(Ms)
<1> DEFINE f == [d \in W |-> d.msg]
           T == {f[d] : d \in W}
<1>1. IsFiniteSet(T)
  <2> HIDE DEF f
  <2> QED  BY FiniteImage
<1>2. Ms \subseteq T
  OBVIOUS
<1> HIDE DEF T
<1> QED  BY <1>1, <1>2, FS_Subset

-----------------------------------------------------------------------------
(* What the wire has seen. *)

(* A report on the wire is one of a match that has been started. *)
LEMMA ReportsAre ==
  ASSUME IInv, NEW p, NEW type, NEW id, NEW m \in ReportsOf(p, type, id)
  PROVE  /\ m \in ReportSet /\ m.type = type /\ m.sender = p /\ m.match = id
         /\ id \in 1 .. lastId
         /\ \E d \in wire : d.to = Server /\ d.msg = m
<1>1. PICK d \in wire : d.to = Server /\ d.msg = m /\ m.type = type /\ m.sender = p /\ m.match = id
  BY DEF ReportsOf
<1> QED  BY <1>1, OldMatches

(***************************************************************************)
(* The reports of a player in a match are finitely many, those that were   *)
(* handled among them.                                                     *)
(***************************************************************************)
LEMMA FiniteReports ==
  ASSUME IsFiniteSet(wire), NEW p, NEW type, NEW id
  PROVE  /\ IsFiniteSet(ReportsOf(p, type, id)) /\ IsFiniteSet(HandledOf(p, type, id))
         /\ Cardinality(ReportsOf(p, type, id)) \in Nat
         /\ Cardinality(HandledOf(p, type, id)) \in Nat
         /\ Cardinality(HandledOf(p, type, id)) <= Cardinality(ReportsOf(p, type, id))
<1>1. \A m \in ReportsOf(p, type, id) : \E d \in wire : m = d.msg
  BY DEF ReportsOf
<1>2. IsFiniteSet(ReportsOf(p, type, id))
  BY <1>1, FiniteMessages
<1>3. HandledOf(p, type, id) \subseteq ReportsOf(p, type, id)
  BY DEF HandledOf
<1>4. /\ IsFiniteSet(HandledOf(p, type, id))
      /\ Cardinality(HandledOf(p, type, id)) <= Cardinality(ReportsOf(p, type, id))
  BY <1>2, <1>3, FS_Subset
<1> QED  BY <1>2, <1>4, FS_CardinalityType

(* The respawns of a player in a match are finitely many. *)
LEMMA FiniteRespawns ==
  ASSUME IsFiniteSet(wire), NEW p, NEW id
  PROVE  /\ IsFiniteSet(RespawnsOf(p, id)) /\ Cardinality(RespawnsOf(p, id)) \in Nat
<1>1. \A m \in RespawnsOf(p, id) : \E d \in wire : m = d.msg
  BY DEF RespawnsOf, Sent
<1> QED  BY <1>1, FiniteMessages, FS_CardinalityType

(* Nothing but a MatchStart is taken from the wire. *)
WireGrows ==
  /\ \A d \in wire : d.msg.type # "MatchStart" => d \in wire'
  /\ IsFiniteSet(wire')

(* No report and no respawn is ever forgotten. *)
LEMMA ReportsGrow ==
  ASSUME WireGrows, NEW p, NEW type \in ReportType, NEW id
  PROVE  /\ ReportsOf(p, type, id) \subseteq ReportsOf(p, type, id)'
         /\ Cardinality(ReportsOf(p, type, id)) <= Cardinality(ReportsOf(p, type, id)')
         /\ Cardinality(ReportsOf(p, type, id)') \in Nat
         /\ RespawnsOf(p, id) \subseteq RespawnsOf(p, id)'
         /\ Cardinality(RespawnsOf(p, id)) <= Cardinality(RespawnsOf(p, id)')
         /\ Cardinality(RespawnsOf(p, id)') \in Nat
<1>1. \A d \in wire : d.msg.type # "MatchStart" => d \in wire'
  BY DEF WireGrows
<1>2. ReportsOf(p, type, id) \subseteq ReportsOf(p, type, id)'
  BY <1>1 DEF ReportsOf, ReportType
<1>3. RespawnsOf(p, id) \subseteq RespawnsOf(p, id)'
  BY <1>1 DEF RespawnsOf, Sent
<1>4. /\ IsFiniteSet(ReportsOf(p, type, id)') /\ IsFiniteSet(RespawnsOf(p, id)')
  <2>1. \A m \in ReportsOf(p, type, id)' : \E d \in wire' : m = d.msg
    BY DEF ReportsOf
  <2>2. \A m \in RespawnsOf(p, id)' : \E d \in wire' : m = d.msg
    BY DEF RespawnsOf, Sent
  <2>3. IsFiniteSet(wire')
    BY DEF WireGrows
  <2> QED  BY <2>1, <2>2, <2>3, FiniteMessages
<1> QED  BY <1>2, <1>3, <1>4, FS_Subset, FS_CardinalityType

-----------------------------------------------------------------------------
(* The steps of the server and the wire. *)

(* Of what the server does, as far as the points go: it sends ms. *)
ServerSends(ms) ==
  /\ ServerMoves(ms) /\ IsFiniteSet(ms) /\ wire' = wire \union Datagrams(ms)
  /\ IsFiniteSet(pending')

(* With a network that repeats, an answer takes no report from the wire. *)
LEMMA AnswersKeepWire ==
  ASSUME Repeats = TRUE, IInv, NEW d \in wire, d.to = Server, NEW ms, Answers(d, ms)
  PROVE  wire' = wire \union Datagrams(ms)
<1>1. d.msg.type # "MatchStart"
  <2>1. d.msg \in ReportSet
    BY ReportIs
  <2> QED  BY <2>1 DEF ReportSet, ReportType
<1> QED  BY <1>1 DEF Answers, Remaining

(* What is resent stays finite. *)
LEMMA FinitePending ==
  ASSUME IsFiniteSet(pending), NEW ms, IsFiniteSet(ms), ServerMoves(ms)
  PROVE  IsFiniteSet(pending')
<1>1. pending' \subseteq pending \union ms
  BY DEF ServerMoves
<1> QED  BY <1>1, FS_Union, FS_Subset

(* Sets that are written out are finite. *)
LEMMA FiniteOutputs ==
  /\ \A a : IsFiniteSet({a})
  /\ \A a, b : IsFiniteSet({a, b})
  /\ IsFiniteSet({})
<1>1. \A a : IsFiniteSet({a})
  BY FS_Singleton
<1>2. ASSUME NEW a, NEW b PROVE IsFiniteSet({a, b})
  <2>1. IsFiniteSet({a} \union {b})
    BY <1>1, FS_AddElement
  <2>2. {a} \union {b} = {a, b}
    OBVIOUS
  <2> QED  BY <2>1, <2>2
<1> QED  BY <1>1, <1>2, FS_EmptySet

(* At most one MatchStart goes out in a step. *)
LEMMA FiniteStarts == IsFiniteSet(StartOutputs)
<1>1. StartOutputs = {} \/ \E m : StartOutputs = {m}
  BY DEF StartOutputs
<1> QED  BY <1>1, FiniteOutputs

(* A report of another match, or a copy, sends nothing. *)
LEMMA StaleSends ==
  ASSUME Repeats = TRUE, IInv, IsFiniteSet(pending), NEW d \in wire, HandleStale(d) \/ HandleCopy(d)
  PROVE  ServerSends({})
<1>1. ServerMoves({})
  BY HandleStaleStep
<1>2. Answers(d, {}) /\ d.to = Server
  BY DEF HandleStale, HandleCopy, Handles
<1> QED  BY <1>1, <1>2, AnswersKeepWire, FinitePending, FiniteOutputs DEF ServerSends

(* An attack sends finitely many messages. *)
LEMMA AttackSendsFew ==
  ASSUME Repeats = TRUE, IInv, IsFiniteSet(pending), NEW d \in wire, HandleAttack(d)
  PROVE  ServerSends(Matches!AttackOutputs(d.msg))
<1> DEFINE ms == Matches!AttackOutputs(d.msg)
<1>1. ServerMoves(ms)
  BY HandleAttackStep
<1>2. Answers(d, ms) /\ d.to = Server
  BY DEF HandleAttack, Handles
<1>3. IsFiniteSet(ms)
  <2>1. PICK a, b : ms \subseteq {a, b}
    <3> DEFINE x == Matches!Assigned("GarbageAssigned", d.msg.sender, d.msg.sender,
                                     match.nextSeq, 0, Matches!Canceled(d.msg))
               y == Matches!Assigned("GarbageAssigned", d.msg.sender, d.msg.target,
                                     Matches!OutgoingSeq(d.msg), Matches!Outgoing(d.msg), 0)
    <3>1. ms \subseteq {x, y}
      BY DEF Matches!AttackOutputs
    <3> QED  BY <3>1
  <2> QED  BY <2>1, FiniteOutputs, FS_Subset
<1> HIDE DEF ms
<1>4. ServerSends(ms)
  BY <1>1, <1>2, <1>3, AnswersKeepWire, FinitePending DEF ServerSends
<1> QED  BY <1>4 DEF ms

(* A KO sends finitely many messages. *)
LEMMA KOSendsFew ==
  ASSUME Repeats = TRUE, IInv, IsFiniteSet(pending), NEW d \in wire, HandleKO(d)
  PROVE  \/ /\ ~Matches!KoTargetReached(d.msg)
            /\ ServerSends(Matches!KOOutputs(d.msg))
         \/ /\ Matches!KoTargetReached(d.msg)
            /\ ServerSends(Matches!KOOutputs(d.msg) \union StartOutputs)
            /\ \A id \in 0 .. lastId : ~Running(id)'
<1> DEFINE ms == Matches!KOOutputs(d.msg)
<1>1. IsFiniteSet(ms) /\ IsFiniteSet(ms \union StartOutputs)
  <2>1. \E a, b : ms = {a} \/ ms = {a, b}
    BY DEF Matches!KOOutputs, Matches!KOEnds
  <2> HIDE DEF ms
  <2>2. IsFiniteSet(ms)
    <3>1. PICK a, b : ms = {a} \/ ms = {a, b}
      BY <2>1
    <3>2. IsFiniteSet({a}) /\ IsFiniteSet({a, b})
      BY FiniteOutputs
    <3> QED  BY <3>1, <3>2
  <2> QED  BY <2>2, FiniteStarts, FS_Union
<1>2. d.to = Server
  BY DEF HandleKO, Handles
<1>3. \/ /\ ~Matches!KoTargetReached(d.msg)
         /\ ServerMoves(ms) /\ Answers(d, ms)
      \/ /\ Matches!KoTargetReached(d.msg)
         /\ ServerMoves(ms \union StartOutputs) /\ Answers(d, ms \union StartOutputs)
         /\ \A id \in 0 .. lastId : ~Running(id)'
  BY HandleKOStep DEF HandleKO
<1> HIDE DEF ms
<1>4. \/ /\ ~Matches!KoTargetReached(d.msg)
         /\ ServerSends(ms)
      \/ /\ Matches!KoTargetReached(d.msg)
         /\ ServerSends(ms \union StartOutputs)
         /\ \A id \in 0 .. lastId : ~Running(id)'
  BY <1>1, <1>2, <1>3, AnswersKeepWire, FinitePending DEF ServerSends
<1> QED  BY <1>4 DEF ms

(* The end of a match by the clock sends finitely many messages. *)
LEMMA TickSends ==
  ASSUME IInv, IsFiniteSet(pending), TickMatch
  PROVE  /\ \A id \in 0 .. lastId : ~Running(id)'
         /\ match # NoMatch
         /\ \E winner \in Players \union {NoPlayer} :
              /\ ServerSends({Matches!MatchEnd(winner, match.ko)} \union StartOutputs)
              /\ Rotate(winner) /\ match' = NextMatch
<1>1. /\ \A id \in 0 .. lastId : ~Running(id)'
      /\ \E winner \in Players \union {NoPlayer} :
           /\ ServerMoves({Matches!MatchEnd(winner, match.ko)} \union StartOutputs)
           /\ wire' = wire \union
                      Datagrams({Matches!MatchEnd(winner, match.ko)} \union StartOutputs)
           /\ Rotate(winner) /\ match' = NextMatch
  BY TickMatchStep DEF Sends
<1>2. \A winner : IsFiniteSet({Matches!MatchEnd(winner, match.ko)} \union StartOutputs)
  BY FiniteOutputs, FiniteStarts, FS_Union
<1> QED  BY <1>1, <1>2, FinitePending DEF ServerSends, TickMatch

(* A resend sends one message. *)
LEMMA ResendSends ==
  ASSUME IInv, IsFiniteSet(pending), Resend
  PROVE  \E m \in pending : ServerSends({m})
BY ResendStep, FinitePending, FiniteOutputs DEF ServerSends, Sends

(* A step of the server only adds to the wire, and adds no reports. *)
LEMMA ServerSendsGrows ==
  ASSUME IInv, IsFiniteSet(wire), NEW ms, ServerSends(ms)
  PROVE  /\ WireGrows
         /\ \A p, type, id : ReportsOf(p, type, id)' = ReportsOf(p, type, id)
<1>1. wire' = wire \union Datagrams(ms) /\ ServerMoves(ms) /\ IsFiniteSet(ms)
  BY DEF ServerSends
<1>2. IsFiniteSet(wire')
  BY <1>1, FiniteDatagrams, FS_Union
<1>3. \A d \in Datagrams(ms) : d.to # Server
  BY <1>1, NewOnWire
<1>4. \A p, type, id : ReportsOf(p, type, id)' = ReportsOf(p, type, id)
  BY <1>1, <1>3 DEF ReportsOf
<1> QED  BY <1>1, <1>2, <1>4 DEF WireGrows

-----------------------------------------------------------------------------
(* The points while the match goes on, and those of the next one. *)

(* The reports of match id that have been handled are those that had been. *)
HandledKept(type, id) ==
  \A p : HandledOf(p, type, id)' = HandledOf(p, type, id)

(* The match is over, goes on as it is, or is a new one without points. *)
ScoreKept ==
  \/ match' = NoMatch
  \/ /\ match # NoMatch /\ match'.id = match.id /\ match'.ko = match.ko
     /\ active' = active /\ \A id : id = match.id => HandledKept("KOReported", id)
  \/ /\ match'.id = lastId' /\ lastId' > lastId
     /\ \A p, id : ReportsOf(p, "KOReported", id)' = ReportsOf(p, "KOReported", id)
     /\ \A q \in ToSet(active') : match'.ko[q] = 0

(***************************************************************************)
(* Where the points are kept, the counts stay exact, and so does the count *)
(* of respawns.                                                            *)
(***************************************************************************)
LEMMA ScoreStep ==
  ASSUME IInv, CInv, WireGrows, ScoreKept
  PROVE  KoExact' /\ RespawnsSent'
<1>1. lastId \in Nat /\ "KOReported" \in ReportType
  BY DEF IInv, MatchSound, ReportType
<1>2. CASE match' = NoMatch
  BY <1>2 DEF KoExact, RespawnsSent
<1>3. CASE /\ match # NoMatch /\ match'.id = match.id /\ match'.ko = match.ko
           /\ active' = active /\ \A id : id = match.id => HandledKept("KOReported", id)
  <2>1. PICK id : id = match.id
    OBVIOUS
  <2>2. \A p : HandledOf(p, "KOReported", id)' = HandledOf(p, "KOReported", id)
    BY <1>3, <2>1 DEF HandledKept
  <2>3. match'.id = id
    BY <1>3, <2>1
  <2>4. ASSUME NEW p \in ToSet(active), NEW q \in ToSet(active), p # q
        PROVE  match'.ko[q] = Cardinality(HandledOf(p, "KOReported", id)')
    <3>1. match.ko[q] = Cardinality(HandledOf(p, "KOReported", id))
      BY <1>3, <2>1, <2>4 DEF CInv, KoExact
    <3> QED  BY <1>3, <2>2, <3>1
  <2>5. ASSUME NEW p \in ToSet(active)
        PROVE  Cardinality(RespawnsOf(p, id)') >= Cardinality(HandledOf(p, "KOReported", id)')
    <3>1. Cardinality(RespawnsOf(p, id)) >= Cardinality(HandledOf(p, "KOReported", id))
      BY <1>3, <2>1 DEF CInv, RespawnsSent
    <3>2. /\ Cardinality(RespawnsOf(p, id)) <= Cardinality(RespawnsOf(p, id)')
          /\ Cardinality(RespawnsOf(p, id)') \in Nat
      BY <1>1, ReportsGrow
    <3>3. /\ Cardinality(RespawnsOf(p, id)) \in Nat
          /\ Cardinality(HandledOf(p, "KOReported", id)) \in Nat
      BY FiniteReports, FiniteRespawns DEF CInv
    <3> QED  BY <2>2, <3>1, <3>2, <3>3
  <2> QED  BY <1>3, <2>3, <2>4, <2>5 DEF KoExact, RespawnsSent
<1>4. CASE /\ match'.id = lastId' /\ lastId' > lastId
           /\ \A p, id : ReportsOf(p, "KOReported", id)' = ReportsOf(p, "KOReported", id)
           /\ \A q \in ToSet(active') : match'.ko[q] = 0
  <2>1. PICK id : id = lastId'
    OBVIOUS
  <2>2. \A p : ReportsOf(p, "KOReported", id) = {}
    <3> SUFFICES ASSUME NEW p, NEW m \in ReportsOf(p, "KOReported", id)
                 PROVE  FALSE
      OBVIOUS
    <3>1. id \in 1 .. lastId
      BY ReportsAre
    <3> QED  BY <1>1, <1>4, <2>1, <3>1
  <2>3. \A p : HandledOf(p, "KOReported", id)' = {}
    BY <1>4, <2>1, <2>2 DEF HandledOf
  <2>4. Cardinality({}) = 0
    BY FS_EmptySet
  <2>5. \A p : Cardinality(RespawnsOf(p, id)') \in Nat
    BY <1>1, ReportsGrow
  <2> QED  BY <1>4, <2>1, <2>3, <2>4, <2>5 DEF KoExact, RespawnsSent
<1> QED  BY <1>2, <1>3, <1>4 DEF ScoreKept

(* The match that follows one that has ended has no points yet. *)
LEMMA NextMatchScore ==
  ASSUME IInv, NEW w \in Players \union {NoPlayer}, Rotate(w), match' = NextMatch,
         \A p, type, id : ReportsOf(p, type, id)' = ReportsOf(p, type, id)
  PROVE  ScoreKept
<1>1. RoomSound' /\ lastId \in Nat /\ lastId' = lastId + Cardinality(StartOutputs)
  BY RotateKeepsRoom DEF IInv, MatchSound, Rotate
<1>2. CASE NextMatch = NoMatch
  BY <1>2 DEF ScoreKept
<1>3. CASE NextMatch # NoMatch
  <2>1. /\ lastId' = lastId + 1 /\ match' = Matches!MatchOf(lastId + 1, active')
        /\ MatchShape(match', active', lastId + 1)
    BY <1>1, <1>3, NextMatchIs
  <2>2. match'.id = lastId'
    BY <1>3, <2>1 DEF MatchShape
  <2>3. match'.ko = [p \in ToSet(active') |-> 0]
    BY <2>1 DEF Matches!MatchOf, Matches!ToSet, ToSet
  <2> QED  BY <1>1, <2>1, <2>2, <2>3 DEF ScoreKept
<1> QED  BY <1>2, <1>3

(***************************************************************************)
(* Which reports have been handled: a step that marks nothing, or a report *)
(* of another match or another type, leaves those of a type as they are.   *)
(***************************************************************************)
LEMMA HandledStay ==
  ASSUME IInv, NEW type, NEW id, NEW d \in wire, d.to = Server,
         received' = received \/ Channel!MarkReceived(d.msg),
         received' # received => d.msg.match # id \/ d.msg.type # type,
         \A p, t, i : ReportsOf(p, t, i)' = ReportsOf(p, t, i)
  PROVE  HandledKept(type, id)
<1> SUFFICES ASSUME NEW p, NEW m \in ReportsOf(p, type, id)
             PROVE  Channel!IsNew(m)' <=> Channel!IsNew(m)
  BY DEF HandledKept, HandledOf
<1>1. /\ m.type = type /\ m.match = id
      /\ \E e \in wire : e.to = Server /\ e.msg = m
  BY ReportsAre
<1>2. CASE received' = received
  BY <1>2 DEF Channel!IsNew, Channel!Key
<1>3. CASE received' # received
  <2>1. Channel!Key(m) # Channel!Key(d.msg)
    <3> SUFFICES ASSUME Channel!Key(m) = Channel!Key(d.msg) PROVE FALSE
      OBVIOUS
    <3>1. m = d.msg
      BY <1>1 DEF IInv, NumbersFresh
    <3> QED  BY <1>1, <1>3, <3>1
  <2>2. received' = received \union {Channel!Key(d.msg)}
    BY <1>3 DEF Channel!MarkReceived
  <2> QED  BY <2>1, <2>2 DEF Channel!IsNew, Channel!Key
<1> QED  BY <1>2, <1>3

(***************************************************************************)
(* A report that is handled for the first time is one more of its type     *)
(* that has been, and the only one.                                        *)
(***************************************************************************)
LEMMA ReportHandled ==
  ASSUME IInv, NEW d \in wire, d.to = Server, Channel!IsNew(d.msg),
         Channel!MarkReceived(d.msg),
         \A p, t, i : ReportsOf(p, t, i)' = ReportsOf(p, t, i),
         NEW type, type = d.msg.type, NEW s, s = d.msg.sender, NEW id, id = d.msg.match
  PROVE  /\ HandledOf(s, type, id)' = HandledOf(s, type, id) \union {d.msg}
         /\ d.msg \in ReportsOf(s, type, id)
         /\ d.msg \notin HandledOf(s, type, id)
         /\ \A p : p # s => HandledOf(p, type, id)' = HandledOf(p, type, id)
<1>1. received' = received \union {Channel!Key(d.msg)}
  BY DEF Channel!MarkReceived
<1>2. d.msg \in ReportsOf(s, type, id)
  BY DEF ReportsOf
<1>3. d.msg \notin HandledOf(s, type, id)
  BY DEF HandledOf
<1>4. ASSUME NEW p, NEW m \in ReportsOf(p, type, id)
      PROVE  ~Channel!IsNew(m)' <=> ~Channel!IsNew(m) \/ m = d.msg
  <2>1. \E e \in wire : e.to = Server /\ e.msg = m
    BY ReportsAre
  <2>2. Channel!Key(m) = Channel!Key(d.msg) => m = d.msg
    BY <2>1 DEF IInv, NumbersFresh
  <2> QED  BY <1>1, <2>2 DEF Channel!IsNew, Channel!Key
<1>5. ASSUME NEW p
      PROVE  \A m : m \in HandledOf(p, type, id)' <=>
                     \/ m \in HandledOf(p, type, id)
                     \/ m = d.msg /\ m \in ReportsOf(p, type, id)
  BY <1>4 DEF HandledOf
<1>6. \A p : p # s => d.msg \notin ReportsOf(p, type, id)
  BY ReportsAre
<1>7. HandledOf(s, type, id)' = HandledOf(s, type, id) \union {d.msg}
  <2>1. \A m : m \in HandledOf(s, type, id)' <=> m \in HandledOf(s, type, id) \union {d.msg}
    BY <1>2, <1>5
  <2> QED  BY <2>1
<1>8. ASSUME NEW p, p # s
      PROVE  HandledOf(p, type, id)' = HandledOf(p, type, id)
  <2>1. \A m : m \in HandledOf(p, type, id)' <=> m \in HandledOf(p, type, id)
    BY <1>5, <1>6, <1>8
  <2> QED  BY <2>1
<1> QED  BY <1>2, <1>3, <1>7, <1>8

-----------------------------------------------------------------------------
(* Every conjunct of the invariant, after a step of the server. *)

(* The ends on the wire stay justified when reports are only added. *)
LEMMA EndsStay ==
  ASSUME CInv, WireGrows,
         \A d \in wire' : d.msg.type = "MatchEnd" =>
           \/ d \in wire
           \/ /\ \A p \in DOMAIN d.msg.ko : d.msg.ko[p] \in Nat
              /\ Justified(d.msg.ko, d.msg.match)'
  PROVE  EndsJustified'
<1> SUFFICES ASSUME NEW d \in wire', d.msg.type = "MatchEnd"
             PROVE  /\ \A p \in DOMAIN d.msg.ko : d.msg.ko[p] \in Nat
                    /\ Justified(d.msg.ko, d.msg.match)'
  BY DEF EndsJustified
<1>1. CASE d \in wire
  <2>1. /\ \A p \in DOMAIN d.msg.ko : d.msg.ko[p] \in Nat
        /\ Justified(d.msg.ko, d.msg.match)
    BY <1>1 DEF CInv, EndsJustified
  <2>2. ASSUME NEW p \in DOMAIN d.msg.ko, NEW q \in DOMAIN d.msg.ko, p # q
        PROVE  d.msg.ko[q] <= Cardinality(ReportsOf(p, "KOReported", d.msg.match)')
    <3>1. d.msg.ko[q] <= Cardinality(ReportsOf(p, "KOReported", d.msg.match))
      BY <2>1, <2>2 DEF Justified
    <3>2. /\ Cardinality(ReportsOf(p, "KOReported", d.msg.match)) \in Nat
          /\ Cardinality(ReportsOf(p, "KOReported", d.msg.match)')  \in Nat
          /\ Cardinality(ReportsOf(p, "KOReported", d.msg.match))
               <= Cardinality(ReportsOf(p, "KOReported", d.msg.match)')
      BY ReportsGrow, FiniteReports DEF CInv, ReportType
    <3> QED  BY <2>1, <3>1, <3>2
  <2> QED  BY <2>1, <2>2 DEF Justified
<1> QED  BY <1>1

(* The dead have reported, when no client does anything. *)
LEMMA DeadStay ==
  ASSUME IInv, CInv, WireGrows, client' = client
  PROVE  DeadHaveReported'
<1>1. ASSUME NEW p \in Players, client'[p].running, ~client'[p].alive,
             NEW id, id = client'[p].match
      PROVE  ReportsOf(p, "KOReported", id)' # {}
  <2>1. ReportsOf(p, "KOReported", id) # {}
    BY <1>1 DEF CInv, DeadHaveReported
  <2>2. ReportsOf(p, "KOReported", id) \subseteq ReportsOf(p, "KOReported", id)'
    BY ReportsGrow DEF ReportType
  <2> QED  BY <2>1, <2>2
<1> QED  BY <1>1 DEF DeadHaveReported, ReportsOf

(* The ends among the messages of the server tell points that are justified. *)
LEMMA ServerCounts ==
  ASSUME IInv, CInv, NEW ms, ServerSends(ms), KoExact' /\ RespawnsSent',
         \A m \in ms : m.type = "MatchEnd" =>
           /\ \A p \in DOMAIN m.ko : m.ko[p] \in Nat
           /\ Justified(m.ko, m.match)'
  PROVE  CInv'
<1>1. WireGrows
  BY ServerSendsGrows DEF CInv
<1>2. /\ client' = client /\ wire' = wire \union Datagrams(ms) /\ IsFiniteSet(pending')
  BY DEF ServerSends, ServerMoves
<1>3. \A d \in Datagrams(ms) : d.msg \in ms
  BY InDatagrams
<1>4. EndsJustified'
  BY <1>1, <1>2, <1>3, EndsStay
<1>5. DeadHaveReported'
  BY <1>1, <1>2, DeadStay
<1> QED  BY <1>1, <1>2, <1>4, <1>5 DEF CInv, WireGrows

(***************************************************************************)
(* A step of the server that keeps the points and sends no MatchEnd keeps  *)
(* the invariant.                                                          *)
(***************************************************************************)
LEMMA NoEndsCounts ==
  ASSUME IInv, CInv, NEW ms, ServerSends(ms), ScoreKept,
         \A m \in ms : m.type # "MatchEnd"
  PROVE  CInv'
<1>1. WireGrows
  BY ServerSendsGrows DEF CInv
<1>2. KoExact' /\ RespawnsSent'
  BY <1>1, ScoreStep
<1> QED  BY <1>2, ServerCounts

-----------------------------------------------------------------------------
(* The steps of the server. *)

(* Two players are in a match, and each is the only opponent of the other. *)
LEMMA TwoPlay ==
  ASSUME ActiveCount = 2, LineOf(active)
  PROVE  \A p, q, r \in ToSet(active) : p # q /\ r # q => p = r
<1>1. DOMAIN active = {1, 2}
  BY LineHasPlayers DEF LineOf
<1> QED  BY <1>1 DEF ToSet

(* A report of another match, or a copy, counts for nothing. *)
LEMMA StaleCounts ==
  ASSUME Repeats = TRUE, IInv, CInv, NEW d \in wire, HandleStale(d) \/ HandleCopy(d)
  PROVE  CInv'
<1>1. ServerSends({})
  BY StaleSends DEF CInv
<1>2. \A p, type, id : ReportsOf(p, type, id)' = ReportsOf(p, type, id)
  BY <1>1, ServerSendsGrows DEF CInv
<1>3. /\ match' = match /\ active' = active /\ d.to = Server
      /\ received' = received \/ (Channel!MarkReceived(d.msg) /\ ~Current(d.msg))
  BY DEF HandleStale, HandleCopy, Handles, serverVars
<1>4. ASSUME match # NoMatch, NEW id, id = match.id
      PROVE  HandledKept("KOReported", id)
  <2>1. received' # received => d.msg.match # id
    BY <1>3, <1>4 DEF Current
  <2> QED  BY <1>2, <1>3, <2>1, HandledStay
<1>5. ScoreKept
  BY <1>3, <1>4 DEF ScoreKept
<1> QED  BY <1>1, <1>5, NoEndsCounts

(* A resend counts for nothing. *)
LEMMA ResendCounts ==
  ASSUME IInv, CInv, Resend
  PROVE  CInv'
<1>1. PICK m \in pending : ServerSends({m})
  BY ResendSends DEF CInv
<1>2. \A p, type, id : ReportsOf(p, type, id)' = ReportsOf(p, type, id)
  BY <1>1, ServerSendsGrows DEF CInv
<1>3. match' = match /\ active' = active /\ received' = received
  BY DEF Resend, serverVars
<1>4. \A id : HandledKept("KOReported", id)
  BY <1>2, <1>3 DEF HandledKept, HandledOf, Channel!IsNew, Channel!Key
<1>5. ScoreKept
  BY <1>3, <1>4 DEF ScoreKept
<1>6. m.type # "MatchEnd"
  BY DEF IInv, ChannelSound, IsAssigned, AssignedType
<1> QED  BY <1>1, <1>5, <1>6, NoEndsCounts

(***************************************************************************)
(* An attack counts for nothing, even though it marks a number as          *)
(* received: no KO has it.                                                 *)
(***************************************************************************)
LEMMA AttackCounts ==
  ASSUME Repeats = TRUE, IInv, CInv, NEW d \in wire, HandleAttack(d)
  PROVE  CInv'
<1> DEFINE ms == Matches!AttackOutputs(d.msg)
<1>1. ServerSends(ms)
  BY AttackSendsFew DEF CInv
<1>2. \A m \in ms : m.type # "MatchEnd"
  BY AttackSends
<1> HIDE DEF ms
<1>3. \A p, type, id : ReportsOf(p, type, id)' = ReportsOf(p, type, id)
  BY <1>1, ServerSendsGrows DEF CInv
<1>4. /\ Channel!MarkReceived(d.msg) /\ d.to = Server /\ d.msg.type = "AttackReported"
      /\ active' = active /\ match # NoMatch
  BY DEF HandleAttack, Handles, Current
<1>5. match'.id = match.id /\ match'.ko = match.ko
  BY AttackGoesOn
<1>6. \A id : HandledKept("KOReported", id)
  BY <1>3, <1>4, HandledStay
<1>7. ScoreKept
  BY <1>4, <1>5, <1>6 DEF ScoreKept
<1> QED  BY <1>1, <1>2, <1>7, NoEndsCounts

(* The clock ends the match with the points it had. *)
LEMMA TickCounts ==
  ASSUME IInv, CInv, TickMatch
  PROVE  CInv'
<1>1. PICK winner \in Players \union {NoPlayer} :
        /\ ServerSends({Matches!MatchEnd(winner, match.ko)} \union StartOutputs)
        /\ Rotate(winner) /\ match' = NextMatch
  BY TickSends DEF CInv
<1>2. match # NoMatch
  BY TickSends DEF CInv
<1>3. PICK end : end = Matches!MatchEnd(winner, match.ko)
  OBVIOUS
<1>4. /\ ServerSends({end} \union StartOutputs)
      /\ end.match = match.id /\ end.ko = match.ko
  BY <1>1, <1>3 DEF Matches!MatchEnd
<1>5. /\ WireGrows
      /\ \A p, type, id : ReportsOf(p, type, id)' = ReportsOf(p, type, id)
  BY <1>4, ServerSendsGrows DEF CInv
<1>6. KoExact' /\ RespawnsSent'
  BY <1>1, <1>5, NextMatchScore, ScoreStep
<1>7. match.ko \in [ToSet(active) -> 0 .. KoTarget - 1]
  BY <1>2, MatchIs
<1>8. \A p \in ToSet(active) : match.ko[p] \in Nat
  BY <1>7
<1>9. ASSUME NEW p \in ToSet(active), NEW q \in ToSet(active), p # q
      PROVE  end.ko[q] <= Cardinality(ReportsOf(p, "KOReported", end.match)')
  <2>1. match.ko[q] = Cardinality(HandledOf(p, "KOReported", match.id))
    BY <1>2, <1>9 DEF CInv, KoExact
  <2>2. match.ko[q] <= Cardinality(ReportsOf(p, "KOReported", end.match))
    BY <1>4, <2>1, FiniteReports DEF CInv
  <2> QED  BY <1>4, <1>5, <2>2
<1>10. /\ \A p \in DOMAIN end.ko : end.ko[p] \in Nat
       /\ Justified(end.ko, end.match)'
  BY <1>4, <1>7, <1>8, <1>9 DEF Justified
<1>11. \A m \in StartOutputs : m.type # "MatchEnd"
  BY DEF StartOutputs, Matches!MatchStart
<1> QED  BY <1>4, <1>6, <1>10, <1>11, ServerCounts

(***************************************************************************)
(* With two players, a KO that is handled adds one to the count of the     *)
(* victim's KOs and to the points of the opponent, and to nothing else.    *)
(***************************************************************************)
LEMMA KOScores ==
  ASSUME ActiveCount = 2, IInv, CInv, NEW d \in wire, HandleKO(d),
         \A p, type, id : ReportsOf(p, type, id)' = ReportsOf(p, type, id),
         NEW ko, ko = [match.ko EXCEPT ![Matches!OpponentOf(d.msg.sender)] = @ + 1],
         NEW id, id = match.id
  PROVE  /\ \A p, q \in ToSet(active) :
              p # q => ko[q] = Cardinality(HandledOf(p, "KOReported", id)')
         /\ \A p \in ToSet(active) :
              /\ Cardinality(HandledOf(p, "KOReported", id)') \in Nat
              /\ Cardinality(HandledOf(p, "KOReported", id)')
                   <= Cardinality(ReportsOf(p, "KOReported", id)')
              /\ Cardinality(HandledOf(p, "KOReported", id)') =
                   IF p = d.msg.sender
                   THEN Cardinality(HandledOf(p, "KOReported", id)) + 1
                   ELSE Cardinality(HandledOf(p, "KOReported", id))
         /\ DOMAIN ko = ToSet(active)
         /\ \A q \in ToSet(active) : ko[q] \in Nat
<1> DEFINE s == d.msg.sender
           o == Matches!OpponentOf(s)
<1>1. /\ match # NoMatch /\ s \in ToSet(active) /\ d.msg.match = id
      /\ (o = NoPlayer /\ ToSet(active) \subseteq {s}) \/ o \in ToSet(active) \ {s}
  BY KOIs
<1>2. LineOf(active) /\ match.ko \in [ToSet(active) -> 0 .. KoTarget - 1]
  BY <1>1, MatchIs
<1>3. o \in ToSet(active) \ {s}
  BY <1>1, <1>2, LineHasPlayers
<1>4. \A p, q, r \in ToSet(active) : p # q /\ r # q => p = r
  BY <1>2, TwoPlay
<1>5. /\ HandledOf(s, "KOReported", id)' = HandledOf(s, "KOReported", id) \union {d.msg}
      /\ d.msg \in ReportsOf(s, "KOReported", id)
      /\ d.msg \notin HandledOf(s, "KOReported", id)
      /\ \A p : p # s => HandledOf(p, "KOReported", id)' = HandledOf(p, "KOReported", id)
  <2>1. /\ d.to = Server /\ d.msg.type = "KOReported" /\ Channel!IsNew(d.msg)
        /\ Channel!MarkReceived(d.msg)
    BY KOIs DEF HandleKO
  <2>2. PICK type, victim : type = "KOReported" /\ victim = d.msg.sender
    OBVIOUS
  <2>3. /\ HandledOf(victim, type, id)' = HandledOf(victim, type, id) \union {d.msg}
        /\ d.msg \in ReportsOf(victim, type, id)
        /\ d.msg \notin HandledOf(victim, type, id)
        /\ \A p : p # victim => HandledOf(p, type, id)' = HandledOf(p, type, id)
    BY <1>1, <2>1, <2>2, ReportHandled
  <2> QED  BY <2>2, <2>3
<1>6. \A p : /\ IsFiniteSet(ReportsOf(p, "KOReported", id))
             /\ IsFiniteSet(HandledOf(p, "KOReported", id))
             /\ Cardinality(HandledOf(p, "KOReported", id)) \in Nat
             /\ HandledOf(p, "KOReported", id) \subseteq ReportsOf(p, "KOReported", id)
  BY FiniteReports DEF CInv, HandledOf
<1>7. ASSUME NEW p \in ToSet(active)
      PROVE  /\ Cardinality(HandledOf(p, "KOReported", id)') =
                  IF p = s THEN Cardinality(HandledOf(p, "KOReported", id)) + 1
                  ELSE Cardinality(HandledOf(p, "KOReported", id))
             /\ Cardinality(HandledOf(p, "KOReported", id)') \in Nat
             /\ HandledOf(p, "KOReported", id)' \subseteq ReportsOf(p, "KOReported", id)
  <2> HIDE DEF s, o
  <2>1. CASE p = s
    <3>1. Cardinality(HandledOf(s, "KOReported", id) \union {d.msg}) =
            Cardinality(HandledOf(s, "KOReported", id)) + 1
      BY <1>5, <1>6, FS_AddElement
    <3>2. PICK before, after : /\ before = Cardinality(HandledOf(s, "KOReported", id))
                               /\ after = Cardinality(HandledOf(s, "KOReported", id)')
      OBVIOUS
    <3>3. before \in Nat /\ after = before + 1
      BY <1>5, <1>6, <3>1, <3>2
    <3>4. HandledOf(s, "KOReported", id)' \subseteq ReportsOf(s, "KOReported", id)
      BY <1>5, <1>6
    <3>5. after = (IF p = s THEN before + 1 ELSE before) /\ after \in Nat
      BY <2>1, <3>3
    <3> QED  BY <2>1, <3>2, <3>4, <3>5
  <2>2. CASE p # s
    BY <1>5, <1>6, <2>2
  <2> QED  BY <2>1, <2>2
<1>8. ASSUME NEW p \in ToSet(active)
      PROVE  Cardinality(HandledOf(p, "KOReported", id)')
               <= Cardinality(ReportsOf(p, "KOReported", id)')
  BY <1>6, <1>7, FS_Subset
<1> HIDE DEF s, o
<1>9. /\ \A q \in ToSet(active) : match.ko[q] \in Nat
      /\ ko = [match.ko EXCEPT ![o] = @ + 1]
  BY <1>2 DEF o, s
<1>10. /\ DOMAIN ko = ToSet(active)
       /\ \A q \in ToSet(active) : ko[q] = IF q = o THEN match.ko[q] + 1 ELSE match.ko[q]
  BY <1>2, <1>9
<1>11. ASSUME NEW p \in ToSet(active), NEW q \in ToSet(active), p # q
       PROVE  ko[q] = Cardinality(HandledOf(p, "KOReported", id)')
  <2>1. match.ko[q] = Cardinality(HandledOf(p, "KOReported", id))
    BY <1>1, <1>11 DEF CInv, KoExact
  <2>2. q = o <=> p = s
    BY <1>1, <1>3, <1>4, <1>11
  <2> QED  BY <1>7, <1>10, <2>1, <2>2
<1> QED  BY <1>7, <1>8, <1>9, <1>10, <1>11 DEF s

(* A KO short of the target keeps the invariant: a point, and a respawn. *)
LEMMA KOGoesOnCounts ==
  ASSUME Repeats = TRUE, ActiveCount = 2, IInv, CInv, NEW d \in wire, HandleKO(d),
         ~Matches!KoTargetReached(d.msg)
  PROVE  CInv'
<1> DEFINE s == d.msg.sender
<1>1. PICK respawn : respawn = Matches!Assigned("RespawnAssigned", Matches!OpponentOf(s),
                                                s, match.nextSeq, 0, 0)
  OBVIOUS
<1>2. Matches!KOOutputs(d.msg) = {respawn} /\ ServerSends({respawn})
  <2>1. Matches!KOOutputs(d.msg) = {respawn}
    BY <1>1 DEF Matches!KOOutputs, Matches!KOEnds
  <2> QED  BY <2>1, KOSendsFew DEF CInv
<1>3. /\ WireGrows /\ wire' = wire \union Datagrams({respawn})
      /\ \A p, type, id : ReportsOf(p, type, id)' = ReportsOf(p, type, id)
  BY <1>2, ServerSendsGrows DEF CInv, ServerSends
<1>4. PICK ko, id : /\ ko = [match.ko EXCEPT ![Matches!OpponentOf(s)] = @ + 1]
                    /\ id = match.id
  OBVIOUS
<1>5. match'.id = id /\ match'.ko = ko /\ active' = active /\ match' # NoMatch
  BY <1>4, KOGoesOn
<1>6. /\ \A p, q \in ToSet(active) :
           p # q => ko[q] = Cardinality(HandledOf(p, "KOReported", id)')
      /\ \A p \in ToSet(active) :
           /\ Cardinality(HandledOf(p, "KOReported", id)') \in Nat
           /\ Cardinality(HandledOf(p, "KOReported", id)') =
                IF p = s THEN Cardinality(HandledOf(p, "KOReported", id)) + 1
                ELSE Cardinality(HandledOf(p, "KOReported", id))
  BY <1>3, <1>4, KOScores
<1>7. KoExact'
  BY <1>5, <1>6 DEF KoExact
<1>8. /\ respawn.type = "RespawnAssigned" /\ respawn.match = id /\ respawn.target = s
      /\ respawn.seq = match.nextSeq /\ match.nextSeq \in Nat
  BY <1>1, <1>4, RespawnIs
<1>9. respawn \notin RespawnsOf(s, id)
  <2> SUFFICES ASSUME respawn \in Outgoing PROVE FALSE
    BY DEF Outgoing, RespawnsOf, Sent, AssignedType
  <2>1. Running(id)
    BY <1>4, KOIs DEF Running
  <2>2. respawn.seq < match.nextSeq
    BY <1>8, <2>1 DEF IInv, AssignedFresh
  <2> QED  BY <1>8, <2>2
<1>10. RespawnsOf(s, id) \union {respawn} \subseteq RespawnsOf(s, id)'
  <2>1. RespawnsOf(s, id) \subseteq RespawnsOf(s, id)'
    BY <1>3, ReportsGrow DEF ReportType
  <2>2. [to |-> s, msg |-> respawn] \in Datagrams({respawn})
    <3>1. Recipients(respawn) = {s}
      BY <1>8 DEF Recipients
    <3> QED  BY <3>1 DEF Datagrams
  <2>3. respawn \in RespawnsOf(s, id)'
    <3>1. PICK e : e = [to |-> s, msg |-> respawn]
      OBVIOUS
    <3>2. e \in wire' /\ e.msg = respawn
      BY <1>3, <2>2, <3>1
    <3> QED  BY <1>8, <3>2 DEF RespawnsOf, Sent
  <2> QED  BY <2>1, <2>3
<1>11. /\ Cardinality(RespawnsOf(s, id)') >= Cardinality(RespawnsOf(s, id)) + 1
       /\ \A p : /\ Cardinality(RespawnsOf(p, id)) \in Nat
                 /\ Cardinality(RespawnsOf(p, id)') \in Nat
                 /\ Cardinality(RespawnsOf(p, id)) <= Cardinality(RespawnsOf(p, id)')
  <2>1. \A p : /\ IsFiniteSet(RespawnsOf(p, id)) /\ Cardinality(RespawnsOf(p, id)) \in Nat
                /\ Cardinality(RespawnsOf(p, id)') \in Nat
                /\ Cardinality(RespawnsOf(p, id)) <= Cardinality(RespawnsOf(p, id)')
    BY <1>3, FiniteRespawns, ReportsGrow DEF CInv, ReportType
  <2>2. Cardinality(RespawnsOf(s, id) \union {respawn}) = Cardinality(RespawnsOf(s, id)) + 1
    BY <1>9, <2>1, FS_AddElement
  <2>3. IsFiniteSet(RespawnsOf(s, id)')
    <3>1. \A m \in RespawnsOf(s, id)' : \E e \in wire' : m = e.msg
      BY DEF RespawnsOf, Sent
    <3> QED  BY <1>3, <3>1, FiniteMessages DEF WireGrows
  <2>4. Cardinality(RespawnsOf(s, id) \union {respawn}) <= Cardinality(RespawnsOf(s, id)')
    BY <1>10, <2>3, FS_Subset
  <2> QED  BY <2>1, <2>2, <2>4
<1>12. ASSUME NEW p \in ToSet(active)
       PROVE  Cardinality(RespawnsOf(p, id)') >= Cardinality(HandledOf(p, "KOReported", id)')
  <2>1. Cardinality(RespawnsOf(p, id)) >= Cardinality(HandledOf(p, "KOReported", id))
    BY <1>4, KOIs DEF CInv, RespawnsSent
  <2>2. Cardinality(HandledOf(p, "KOReported", id)) \in Nat
    BY FiniteReports DEF CInv
  <2>3. Cardinality(RespawnsOf(s, id)) \in Nat
    BY <1>11
  <2> QED  BY <1>6, <1>11, <2>1, <2>2, <2>3
<1>13. RespawnsSent'
  BY <1>5, <1>12 DEF RespawnsSent
<1> QED  BY <1>2, <1>7, <1>8, <1>13, ServerCounts

(***************************************************************************)
(* A KO at the target keeps the invariant: the MatchEnd carries the last   *)
(* point, too.                                                             *)
(***************************************************************************)
LEMMA KOEndsCounts ==
  ASSUME Repeats = TRUE, ActiveCount = 2, IInv, CInv, NEW d \in wire, HandleKO(d),
         Matches!KoTargetReached(d.msg)
  PROVE  CInv'
<1> DEFINE s == d.msg.sender
           winner == Matches!OpponentOf(s)
           ms == Matches!KOOutputs(d.msg)
<1>1. winner \in Players \union {NoPlayer} /\ match # NoMatch
  BY KOIs
<1>2. Rotate(winner) /\ match' = NextMatch /\ ServerSends(ms \union StartOutputs)
  BY KOSendsFew DEF HandleKO, Matches!HandleKO, CInv
<1>3. /\ WireGrows
      /\ \A p, type, id : ReportsOf(p, type, id)' = ReportsOf(p, type, id)
  BY <1>2, ServerSendsGrows DEF CInv
<1>4. KoExact' /\ RespawnsSent'
  BY <1>1, <1>2, <1>3, NextMatchScore, ScoreStep
<1>5. PICK ko, id : /\ ko = [match.ko EXCEPT ![winner] = @ + 1]
                    /\ id = match.id
  OBVIOUS
<1>6. Matches!Life!KoScored(match, s).ko = ko
  <2>1. Matches!Life!KoScored(match, s) = [match EXCEPT !.ko[winner] = @ + 1]
    BY DEF Matches!Life!KoScored, Matches!OpponentOf
  <2>2. match = [id |-> match.id, players |-> match.players, ko |-> match.ko,
                 sent |-> match.sent, garbage |-> match.garbage, nextSeq |-> match.nextSeq]
    BY <1>1, MatchIs
  <2> HIDE DEF winner
  <2> QED  BY <1>5, <2>1, <2>2
<1>7. PICK end : end = Matches!MatchEnd(winner, ko)
  OBVIOUS
<1>8. end.ko = ko /\ end.match = id
  BY <1>5, <1>7 DEF Matches!MatchEnd
<1>9. \A m \in ms : m.type = "MatchEnd" => m = end
  <2>1. PICK respawn : respawn = Matches!Assigned("RespawnAssigned", winner, s,
                                                  match.nextSeq, 0, 0)
    OBVIOUS
  <2>2. respawn.type # "MatchEnd"
    BY <2>1 DEF Matches!Assigned
  <2>3. ms = {respawn, end}
    BY <1>6, <1>7, <2>1 DEF Matches!KOOutputs, Matches!KOEnds
  <2> QED  BY <2>2, <2>3
<1>10. /\ \A p, q \in ToSet(active) :
            p # q => ko[q] = Cardinality(HandledOf(p, "KOReported", id)')
       /\ \A p \in ToSet(active) :
            Cardinality(HandledOf(p, "KOReported", id)')
              <= Cardinality(ReportsOf(p, "KOReported", id)')
       /\ DOMAIN ko = ToSet(active)
       /\ \A q \in ToSet(active) : ko[q] \in Nat
  BY <1>3, <1>5, KOScores
<1>11. \A p, q \in DOMAIN ko : p # q => ko[q] <= Cardinality(ReportsOf(p, "KOReported", id)')
  BY <1>10
<1>12. /\ \A p \in DOMAIN end.ko : end.ko[p] \in Nat
       /\ Justified(end.ko, end.match)'
  BY <1>8, <1>10, <1>11 DEF Justified
<1>13. \A m \in StartOutputs : m.type # "MatchEnd"
  BY DEF StartOutputs, Matches!MatchStart
<1> HIDE DEF ms
<1> QED  BY <1>2, <1>4, <1>9, <1>12, <1>13, ServerCounts

-----------------------------------------------------------------------------
(* The steps of a client. *)

(* A report that has just been sent has not been handled yet. *)
LEMMA ReportsAreNew ==
  ASSUME IInv, NEW p \in Players, NEW c, NEW ms, ClientGoesOn(p, c, ms), NEW d \in Away(ms)
  PROVE  Channel!Key(d.msg) \notin received
<1> SUFFICES ASSUME Channel!Key(d.msg) \in received PROVE FALSE
  OBVIOUS
<1>1. /\ d.msg \in ReportSet /\ d.msg.sender = p /\ d.msg.match = client[p].match
      /\ client[p].seq <= d.msg.seq
  BY NewReport
<1>2. PICK k \in Used : k = Channel!Key(d.msg)
  BY DEF Used
<1>3. k.sender = p /\ k.match = client[p].match /\ k.seq = d.msg.seq
  BY <1>1, <1>2 DEF Channel!Key
<1>4. k.seq < client[p].seq
  BY <1>3 DEF IInv, NumbersFresh
<1>5. client[p].seq \in Nat /\ d.msg.seq \in Nat
  BY <1>1, ClientIs DEF ReportSet
<1> QED  BY <1>1, <1>3, <1>4, <1>5

(* A client that plays on and reports a top-out when it dies. *)
LEMMA ClientCounts ==
  ASSUME IInv, CInv, NEW p \in Players, NEW c, NEW ms, ClientGoesOn(p, c, ms),
         IsFiniteSet(ms), wire' = wire \union Away(ms),
         client[p].alive => c.alive \/ \E m \in ms : m.type = "KOReported"
  PROVE  CInv'
<1>1. /\ match' = match /\ active' = active /\ received' = received /\ pending' = pending
      /\ client' = [client EXCEPT ![p] = c] /\ c.match = client[p].match
      /\ c.running => client[p].running
  BY DEF ClientGoesOn, serverVars
<1>2. client'[p] = c /\ \A q \in Players \ {p} : client'[q] = client[q]
  BY <1>1, ClientIs
<1>3. WireGrows
  <2> DEFINE f == [m \in ms |-> [to |-> Server, msg |-> m]]
             T == {f[m] : m \in ms}
  <2>1. IsFiniteSet(T)
    <3> HIDE DEF f
    <3> QED  BY FiniteImage
  <2>2. Away(ms) = T
    BY DEF Away
  <2> HIDE DEF T
  <2>3. IsFiniteSet(wire \union Away(ms))
    BY <2>1, <2>2, FS_Union DEF CInv
  <2> QED  BY <2>3 DEF WireGrows
<1>4. \A id : HandledKept("KOReported", id)
  <2> SUFFICES ASSUME NEW id, NEW q
               PROVE  HandledOf(q, "KOReported", id)' = HandledOf(q, "KOReported", id)
    BY DEF HandledKept
  <2>1. \A m : Channel!IsNew(m)' <=> Channel!IsNew(m)
    BY <1>1 DEF Channel!IsNew, Channel!Key
  <2>2. \A d \in Away(ms) : Channel!IsNew(d.msg)
    BY ReportsAreNew DEF Channel!IsNew
  <2> QED  BY <2>1, <2>2 DEF HandledOf, ReportsOf
<1>5. KoExact' /\ RespawnsSent'
  <2>1. ScoreKept
    BY <1>1, <1>4 DEF ScoreKept
  <2> QED  BY <1>3, <2>1, ScoreStep
<1>6. EndsJustified'
  <2>1. \A d \in wire' : d.msg.type = "MatchEnd" => d \in wire
    BY NewReport DEF ReportType
  <2> QED  BY <1>3, <2>1, EndsStay
<1>7. ASSUME NEW q \in Players, client'[q].running, ~client'[q].alive,
             NEW id, id = client'[q].match
      PROVE  ReportsOf(q, "KOReported", id)' # {}
  <2>1. client[q].running /\ id = client[q].match
    BY <1>1, <1>2, <1>7
  <2>2. CASE ~client[q].alive
    <3>1. ReportsOf(q, "KOReported", id) # {}
      BY <2>1, <2>2 DEF CInv, DeadHaveReported
    <3>2. ReportsOf(q, "KOReported", id) \subseteq ReportsOf(q, "KOReported", id)'
      BY <1>3, ReportsGrow DEF ReportType
    <3> QED  BY <3>1, <3>2
  <2>3. CASE client[q].alive
    <3>1. q = p
      BY <1>2, <1>7, <2>3
    <3>2. PICK m \in ms : m.type = "KOReported"
      BY <1>2, <1>7, <2>3, <3>1
    <3>3. PICK d : d \in Away(ms) /\ d = [to |-> Server, msg |-> m]
      BY DEF Away
    <3>4. d.to = Server /\ d.msg = m /\ m.sender = q /\ m.match = id
      BY <2>1, <3>1, <3>3, NewReport
    <3> QED  BY <3>2, <3>3, <3>4 DEF ReportsOf
  <2> QED  BY <2>2, <2>3
<1>8. DeadHaveReported'
  BY <1>7 DEF DeadHaveReported, ReportsOf
<1> QED  BY <1>1, <1>3, <1>5, <1>6, <1>8 DEF CInv, WireGrows

(* A lock keeps the invariant. *)
LEMMA LockCounts ==
  ASSUME IInv, CInv, NEW p \in Players, Lock(p)
  PROVE  CInv'
<1>1. PICK clears, dies, c :
        /\ clears \in Seq(AttackLines) /\ dies \in BOOLEAN
        /\ Versus!Lock(p, clears, dies) /\ Reports(Versus!LockReports(p, clears, dies))
        /\ ClientGoesOn(p, c, Versus!LockReports(p, clears, dies))
        /\ dies \/ c.alive
  BY LockStep
<1>2. PICK ms : ms = Versus!LockReports(p, clears, dies)
  OBVIOUS
<1>3. client[p].running
  BY <1>1 DEF Versus!Lock, Versus!Playing
<1>4. IsFiniteSet(ms) /\ (dies => \E m \in ms : m.type = "KOReported")
  <2>1. PICK last : last = client[p].seq + Len(clears) + IF dies THEN 1 ELSE 0
    OBVIOUS
  <2> QED  BY <1>1, <1>2, <1>3, <2>1, LockReportsAre
<1>5. wire' = wire \union Away(ms)
  BY <1>1, <1>2 DEF Reports, Away
<1>6. ClientGoesOn(p, c, ms)
  BY <1>1, <1>2
<1> QED  BY <1>1, <1>4, <1>5, <1>6, ClientCounts

(* A hold that tops out keeps the invariant. *)
LEMMA HoldTopsOutCounts ==
  ASSUME IInv, CInv, NEW p \in Players, HoldTopsOut(p)
  PROVE  CInv'
<1>1. PICK c, m : ClientGoesOn(p, c, {m}) /\ Reports({m}) /\ m.type = "KOReported"
  BY HoldTopsOutStep
<1>2. wire' = wire \union Away({m})
  BY <1>1 DEF Reports, Away
<1> QED  BY <1>1, <1>2, FiniteOutputs, ClientCounts

(* A MatchStart is taken from the wire, and whoever plays then is alive. *)
LEMMA StartCounts ==
  ASSUME IInv, CInv, NEW d \in wire, Receive(d), d.msg.type = "MatchStart"
  PROVE  CInv'
<1> DEFINE p == d.to
<1>1. /\ p \in Players /\ UNCHANGED serverVars /\ wire' = wire \ {d}
  BY RemainingIs DEF Receive
<1>2. /\ match' = match /\ active' = active /\ received' = received /\ pending' = pending
  BY <1>1 DEF serverVars
<1>3. PICK seq \in {0, client[p].seq} : Versus!HandleMatchStart(p, d.msg, seq)
  BY DEF Receive
<1>4. client'[p].alive /\ \A q \in Players \ {p} : client'[q] = client[q]
  <2>1. PICK c : c = [match |-> d.msg.match,
                      opponent |-> Versus!OpponentIn(d.msg.players, p),
                      running |-> TRUE, alive |-> TRUE, garbage |-> 0, seq |-> seq]
    OBVIOUS
  <2>2. client' = [client EXCEPT ![p] = c]
    BY <1>3, <2>1, StartedIs DEF Versus!HandleMatchStart
  <2>3. client'[p] = c /\ \A q \in Players \ {p} : client'[q] = client[q]
    BY <1>1, <2>2, ClientIs
  <2> QED  BY <2>1, <2>3
<1>5. WireGrows
  <2>1. IsFiniteSet(wire \ {d})
    BY FS_Subset DEF CInv
  <2> QED  BY <1>1, <2>1 DEF WireGrows
<1>6. \A q, id : ReportsOf(q, "KOReported", id)' = ReportsOf(q, "KOReported", id)
  BY <1>1 DEF ReportsOf
<1>7. \A id : HandledKept("KOReported", id)
  BY <1>2, <1>6 DEF HandledKept, HandledOf, Channel!IsNew, Channel!Key
<1>8. KoExact' /\ RespawnsSent'
  <2>1. ScoreKept
    BY <1>2, <1>7 DEF ScoreKept
  <2> QED  BY <1>5, <2>1, ScoreStep
<1>9. EndsJustified'
  BY <1>1, <1>5, EndsStay
<1>10. ASSUME NEW q \in Players, client'[q].running, ~client'[q].alive,
              NEW id, id = client'[q].match
       PROVE  ReportsOf(q, "KOReported", id)' # {}
  BY <1>4, <1>6, <1>10 DEF CInv, DeadHaveReported
<1>11. DeadHaveReported'
  BY <1>10 DEF DeadHaveReported, ReportsOf
<1> QED  BY <1>2, <1>5, <1>8, <1>9, <1>11 DEF CInv, WireGrows

(* The reading of a datagram by a client keeps the invariant. *)
LEMMA ReceiveCounts ==
  ASSUME Repeats = TRUE, IInv, CInv, NEW d \in wire, Receive(d)
  PROVE  CInv'
<1>1. CASE d.msg.type = "MatchStart"
  BY <1>1, StartCounts
<1>2. CASE d.msg.type # "MatchStart"
  <2>1. PICK c : /\ d.to \in Players /\ wire' = Remaining(d)
                 /\ ClientGoesOn(d.to, c, {}) /\ (client[d.to].alive => c.alive)
    BY <1>2, ReceiveGoesOn
  <2>2. wire' = wire \union Away({})
    BY <1>2, <2>1 DEF Remaining, Away
  <2> QED  BY <2>1, <2>2, FiniteOutputs, ClientCounts
<1> QED  BY <1>1, <1>2

-----------------------------------------------------------------------------
(* The initial states and every step. *)

(***************************************************************************)
(* At the beginning nobody has points, nothing is reported and nobody is   *)
(* dead.                                                                   *)
(***************************************************************************)
LEMMA FirstCounts == Init => CInv
<1> SUFFICES ASSUME Init PROVE CInv
  OBVIOUS
<1>1. /\ MatchShape(match, active, 1) /\ match # NoMatch
      /\ \A p \in ToSet(active) : match.ko[p] = 0
      /\ pending = {} /\ received = {} /\ client = [p \in Players |-> Versus!None]
      /\ \A d \in wire : /\ d.to \in Players /\ d.to # Server
                         /\ d.msg.type = "MatchStart"
                         /\ \A e \in wire : e.to = d.to => e = d
  BY FirstStart
<1>2. IsFiniteSet(wire)
  <2> DEFINE f == [d \in wire |-> d.to]
  <2>1. f \in Injection(wire, Players)
    BY <1>1 DEF Injection, IsInjective
  <2> HIDE DEF f
  <2> QED  BY <2>1, RoomAssumption, FS_Injection
<1>3. \A p, type, id : ReportsOf(p, type, id) = {}
  BY <1>1 DEF ReportsOf
<1>4. \A p, type, id : HandledOf(p, type, id) = {}
  BY <1>3 DEF HandledOf
<1>5. Cardinality({}) = 0
  BY FS_EmptySet
<1>6. KoExact
  BY <1>1, <1>4, <1>5 DEF KoExact
<1>7. RespawnsSent
  <2>1. \A p, id : Cardinality(RespawnsOf(p, id)) \in Nat
    BY <1>2, FiniteRespawns
  <2> QED  BY <1>4, <1>5, <2>1 DEF RespawnsSent
<1>8. EndsJustified
  BY <1>1 DEF EndsJustified
<1>9. \A p \in Players : ~client[p].running
  BY <1>1 DEF Versus!None
<1>10. DeadHaveReported
  BY <1>9 DEF DeadHaveReported
<1> QED  BY <1>1, <1>2, <1>5, <1>6, <1>7, <1>8, <1>10, FS_EmptySet DEF CInv

(* A step in which nothing changes keeps the invariant. *)
LEMMA StutterCounts ==
  ASSUME CInv, UNCHANGED vars
  PROVE  CInv'
<1>1. /\ match' = match /\ active' = active /\ received' = received /\ pending' = pending
      /\ client' = client /\ wire' = wire
  BY DEF vars, serverVars
<1>2. \A p, type, id : /\ ReportsOf(p, type, id)' = ReportsOf(p, type, id)
                       /\ RespawnsOf(p, id)' = RespawnsOf(p, id)
  BY <1>1 DEF ReportsOf, RespawnsOf, Sent
<1>3. \A p, type, id : HandledOf(p, type, id)' = HandledOf(p, type, id)
  BY <1>1, <1>2 DEF HandledOf, Channel!IsNew, Channel!Key
<1>4. KoExact'
  BY <1>1, <1>3 DEF CInv, KoExact, HandledOf, ReportsOf, Channel!IsNew, Channel!Key
<1>5. RespawnsSent'
  BY <1>1 DEF CInv, RespawnsSent, RespawnsOf, Sent, HandledOf, ReportsOf, Channel!IsNew,
              Channel!Key
<1>6. EndsJustified' /\ DeadHaveReported'
  BY <1>1 DEF CInv, EndsJustified, Justified, DeadHaveReported, ReportsOf
<1> QED  BY <1>1, <1>4, <1>5, <1>6 DEF CInv

(* Every step keeps the invariant. *)
LEMMA NextCounts ==
  ASSUME Repeats = TRUE, ActiveCount = 2, IInv, CInv, [Next]_vars
  PROVE  CInv'
<1>1. ASSUME NEW p \in Players, Lock(p) \/ HoldTopsOut(p)
      PROVE  CInv'
  BY <1>1, LockCounts, HoldTopsOutCounts
<1>2. ASSUME NEW d \in wire, HandleStale(d) \/ HandleCopy(d) \/ HandleAttack(d) \/ HandleKO(d)
      PROVE  CInv'
  BY <1>2, StaleCounts, AttackCounts, KOGoesOnCounts, KOEndsCounts
<1>3. ASSUME NEW d \in wire, Receive(d)
      PROVE  CInv'
  BY <1>3, ReceiveCounts
<1>4. ASSUME TickMatch \/ Resend
      PROVE  CInv'
  BY <1>4, TickCounts, ResendCounts
<1>5. CASE UNCHANGED vars
  BY <1>5, StutterCounts
<1> QED  BY <1>1, <1>2, <1>3, <1>4, <1>5 DEF Next

(***************************************************************************)
(* Both invariants together are inductive when two players are in a match  *)
(* and the network keeps every message.                                    *)
(***************************************************************************)
THEOREM CountsInvariance ==
  ASSUME Repeats = TRUE, ActiveCount = 2
  PROVE  Spec => [](IInv /\ CInv)
<1>1. Init => IInv /\ CInv
  BY InitInv, FirstCounts
<1>2. (IInv /\ CInv) /\ [Next]_vars => (IInv /\ CInv)'
  BY NextInv, NextCounts
<1> QED  BY <1>1, <1>2, PTL DEF Spec

-----------------------------------------------------------------------------
(* Sums over finite sets of messages. *)

(* The lines, and the canceled lines, of one message more. *)
AddLines(sum, m) == m.lines + sum
AddCanceled(sum, m) == m.canceled + sum

LinesSum == INSTANCE FoldTheorems WITH Op <- AddLines
CanceledSum == INSTANCE FoldTheorems WITH Op <- AddCanceled

(* The sums of LinesAccountedFor. *)
LinesOf(S) == MapThenSumSet(LAMBDA m : m.lines, S)
CanceledOf(S) == MapThenSumSet(LAMBDA m : m.canceled, S)

(* The sums are folds over the set. *)
LEMMA SumsAreFolds ==
  ASSUME NEW S
  PROVE  /\ LinesOf(S) = LinesSum!FoldedOver(0, S)
         /\ CanceledOf(S) = CanceledSum!FoldedOver(0, S)
<1>1. LinesOf(S) = LinesSum!FoldedOver(0, S)
  BY DEF LinesOf, MapThenSumSet, MapThenFoldSet, LinesSum!FoldedOver, LinesSum!Chosen, AddLines
<1>2. CanceledOf(S) = CanceledSum!FoldedOver(0, S)
  BY DEF CanceledOf, MapThenSumSet, MapThenFoldSet, CanceledSum!FoldedOver, CanceledSum!Chosen,
         AddCanceled
<1> QED  BY <1>1, <1>2

(* A message with a count of lines adds it to the sum over the others. *)
LEMMA LinesAdd ==
  ASSUME NEW S, IsFiniteSet(S), \A m \in S : m.lines \in Nat
  PROVE  /\ LinesOf(S) \in Nat /\ LinesOf({}) = 0
         /\ \A x : x \notin S /\ x.lines \in Nat => LinesOf(S \union {x}) = LinesOf(S) + x.lines
<1>1. \A E : (\A m \in E : m.lines \in Nat) => LinesSum!Commutes(E, Nat)
  <2> SUFFICES ASSUME NEW E, \A m \in E : m.lines \in Nat PROVE LinesSum!Commutes(E, Nat)
    OBVIOUS
  <2>1. \A r \in Nat, m \in E : AddLines(r, m) \in Nat
    BY DEF AddLines
  <2>2. \A r \in Nat : \A m, n \in E :
          AddLines(AddLines(r, m), n) = AddLines(AddLines(r, n), m)
    BY DEF AddLines
  <2> QED  BY <2>1, <2>2 DEF LinesSum!Commutes
<1>2. PICK zero, T : zero = 0 /\ T = Nat /\ zero \in T
  OBVIOUS
<1>3. /\ LinesSum!FoldedOver(zero, {}) = zero
      /\ LinesSum!Commutes(S, T) => LinesSum!FoldedOver(zero, S) \in T
      /\ \A x : x \notin S /\ LinesSum!Commutes(S \union {x}, T) =>
              LinesSum!FoldedOver(zero, S \union {x}) = AddLines(LinesSum!FoldedOver(zero, S), x)
  <2>1. LinesSum!IsFiniteSet(S)
    BY DEF IsFiniteSet, LinesSum!IsFiniteSet
  <2> QED  BY <1>2, <2>1, LinesSum!FoldOverSet
<1>4. LinesOf({}) = 0 /\ LinesOf(S) \in Nat
  BY <1>1, <1>2, <1>3, SumsAreFolds
<1>5. ASSUME NEW x, x \notin S, x.lines \in Nat
      PROVE  LinesOf(S \union {x}) = LinesOf(S) + x.lines
  <2>1. LinesSum!Commutes(S \union {x}, Nat)
    BY <1>1, <1>5
  <2>2. LinesOf(S \union {x}) = AddLines(LinesOf(S), x)
    BY <1>2, <1>3, <1>5, <2>1, SumsAreFolds
  <2> QED  BY <1>4, <1>5, <2>2 DEF AddLines
<1> QED  BY <1>4, <1>5

(* The same for canceled lines. *)
LEMMA CanceledAdd ==
  ASSUME NEW S, IsFiniteSet(S), \A m \in S : m.canceled \in Nat
  PROVE  /\ CanceledOf(S) \in Nat /\ CanceledOf({}) = 0
         /\ \A x : x \notin S /\ x.canceled \in Nat =>
                 CanceledOf(S \union {x}) = CanceledOf(S) + x.canceled
<1>1. \A E : (\A m \in E : m.canceled \in Nat) => CanceledSum!Commutes(E, Nat)
  <2> SUFFICES ASSUME NEW E, \A m \in E : m.canceled \in Nat PROVE CanceledSum!Commutes(E, Nat)
    OBVIOUS
  <2>1. \A r \in Nat, m \in E : AddCanceled(r, m) \in Nat
    BY DEF AddCanceled
  <2>2. \A r \in Nat : \A m, n \in E :
          AddCanceled(AddCanceled(r, m), n) = AddCanceled(AddCanceled(r, n), m)
    BY DEF AddCanceled
  <2> QED  BY <2>1, <2>2 DEF CanceledSum!Commutes
<1>2. PICK zero, T : zero = 0 /\ T = Nat /\ zero \in T
  OBVIOUS
<1>3. /\ CanceledSum!FoldedOver(zero, {}) = zero
      /\ CanceledSum!Commutes(S, T) => CanceledSum!FoldedOver(zero, S) \in T
      /\ \A x : x \notin S /\ CanceledSum!Commutes(S \union {x}, T) =>
              CanceledSum!FoldedOver(zero, S \union {x}) =
                AddCanceled(CanceledSum!FoldedOver(zero, S), x)
  <2>1. CanceledSum!IsFiniteSet(S)
    BY DEF IsFiniteSet, CanceledSum!IsFiniteSet
  <2> QED  BY <1>2, <2>1, CanceledSum!FoldOverSet
<1>4. CanceledOf({}) = 0 /\ CanceledOf(S) \in Nat
  BY <1>1, <1>2, <1>3, SumsAreFolds
<1>5. ASSUME NEW x, x \notin S, x.canceled \in Nat
      PROVE  CanceledOf(S \union {x}) = CanceledOf(S) + x.canceled
  <2>1. CanceledSum!Commutes(S \union {x}, Nat)
    BY <1>1, <1>5
  <2>2. CanceledOf(S \union {x}) = AddCanceled(CanceledOf(S), x)
    BY <1>2, <1>3, <1>5, <2>1, SumsAreFolds
  <2> QED  BY <1>4, <1>5, <2>2 DEF AddCanceled
<1> QED  BY <1>4, <1>5

-----------------------------------------------------------------------------
(* The lines. *)

(* What the server tells p, in match id, without sending lines. *)
CanceledIn(p, id) == {m \in pending : m.target = p /\ m.match = id /\ m.lines = 0}

(***************************************************************************)
(* While a match runs, the lines of a player's handled attacks are those   *)
(* counted as sent and those the player was told were canceled.  It is     *)
(* inductive together with IInv and the finiteness in CInv.                *)
(***************************************************************************)
LinesExact ==
  match # NoMatch =>
    \A p \in ToSet(active) :
      LinesOf(HandledOf(p, "AttackReported", match.id)) =
        match.sent[p] + CanceledOf(CanceledIn(p, match.id))

(***************************************************************************)
(* The match is over, goes on as it is, or is a new one in which nothing   *)
(* was sent.                                                               *)
(***************************************************************************)
LinesKept ==
  \/ match' = NoMatch
  \/ /\ match # NoMatch /\ match'.id = match.id /\ match'.sent = match.sent
     /\ active' = active
     /\ \A id : id = match.id =>
          /\ HandledKept("AttackReported", id)
          /\ \A p : CanceledOf(CanceledIn(p, id)') = CanceledOf(CanceledIn(p, id))
  \/ /\ match'.id = lastId' /\ lastId' > lastId
     /\ \A p, id : ReportsOf(p, "AttackReported", id)' = ReportsOf(p, "AttackReported", id)
     /\ \A p \in ToSet(active') : match'.sent[p] = 0
     /\ \A m \in pending' : m.match # lastId'

(* Nothing is sent and nothing is canceled when there are no messages. *)
LEMMA NoLines == LinesOf({}) = 0 /\ CanceledOf({}) = 0
<1>1. LinesOf({}) = 0
  BY LinesAdd, FS_EmptySet
<1>2. CanceledOf({}) = 0
  BY CanceledAdd, FS_EmptySet
<1> QED  BY <1>1, <1>2

(* Where the lines are kept, they stay accounted for. *)
LEMMA LinesStep ==
  ASSUME IInv, LinesExact, LinesKept
  PROVE  LinesExact'
<1>1. CASE match' = NoMatch
  BY <1>1 DEF LinesExact
<1>2. CASE /\ match # NoMatch /\ match'.id = match.id /\ match'.sent = match.sent
           /\ active' = active
           /\ \A id : id = match.id =>
                /\ HandledKept("AttackReported", id)
                /\ \A p : CanceledOf(CanceledIn(p, id)') = CanceledOf(CanceledIn(p, id))
  <2>1. PICK id : id = match.id
    OBVIOUS
  <2>2. ASSUME NEW p \in ToSet(active)
        PROVE  LinesOf(HandledOf(p, "AttackReported", id)') =
                 match'.sent[p] + CanceledOf(CanceledIn(p, id)')
    <3>1. LinesOf(HandledOf(p, "AttackReported", id)) =
            match.sent[p] + CanceledOf(CanceledIn(p, id))
      BY <1>2, <2>1 DEF LinesExact
    <3>2. HandledOf(p, "AttackReported", id)' = HandledOf(p, "AttackReported", id)
      BY <1>2, <2>1 DEF HandledKept
    <3>3. CanceledOf(CanceledIn(p, id)') = CanceledOf(CanceledIn(p, id))
      BY <1>2, <2>1
    <3> QED  BY <1>2, <3>1, <3>2, <3>3
  <2>3. match'.id = id
    BY <1>2, <2>1
  <2> QED  BY <1>2, <2>2, <2>3 DEF LinesExact
<1>3. CASE /\ match'.id = lastId' /\ lastId' > lastId
           /\ \A p, id : ReportsOf(p, "AttackReported", id)' = ReportsOf(p, "AttackReported", id)
           /\ \A p \in ToSet(active') : match'.sent[p] = 0
           /\ \A m \in pending' : m.match # lastId'
  <2>1. PICK id : id = lastId'
    OBVIOUS
  <2>2. \A p : ReportsOf(p, "AttackReported", id) = {}
    <3> SUFFICES ASSUME NEW p, NEW m \in ReportsOf(p, "AttackReported", id)
                 PROVE  FALSE
      OBVIOUS
    <3>1. id \in 1 .. lastId
      BY ReportsAre
    <3>2. lastId \in Nat
      BY DEF IInv, MatchSound
    <3> QED  BY <1>3, <2>1, <3>1, <3>2
  <2>3. \A p : HandledOf(p, "AttackReported", id)' = {}
    BY <1>3, <2>1, <2>2 DEF HandledOf
  <2>4. \A p : CanceledIn(p, id)' = {}
    BY <1>3, <2>1 DEF CanceledIn
  <2>5. ASSUME NEW p \in ToSet(active')
        PROVE  LinesOf(HandledOf(p, "AttackReported", id)') =
                 match'.sent[p] + CanceledOf(CanceledIn(p, id)')
    <3>1. LinesOf(HandledOf(p, "AttackReported", id)') = 0
      BY <2>3, NoLines
    <3>2. CanceledOf(CanceledIn(p, id)') = 0
      BY <2>4, NoLines
    <3> QED  BY <1>3, <3>1, <3>2
  <2> QED  BY <1>3, <2>1, <2>5 DEF LinesExact
<1> QED  BY <1>1, <1>2, <1>3 DEF LinesKept

(* A step that handles no report leaves those that were handled. *)
LEMMA QuietHandled ==
  ASSUME received' = received, NEW type, NEW id,
         \A p : ReportsOf(p, type, id)' = ReportsOf(p, type, id)
  PROVE  HandledKept(type, id)
BY DEF HandledKept, HandledOf, Channel!IsNew, Channel!Key

(* What is resent and what is told stay as they are. *)
LEMMA QuietPending ==
  ASSUME pending' = pending, NEW p, NEW id
  PROVE  CanceledOf(CanceledIn(p, id)') = CanceledOf(CanceledIn(p, id))
<1>1. CanceledIn(p, id)' = CanceledIn(p, id)
  BY DEF CanceledIn
<1> QED  BY <1>1

(* The match that follows one that has ended has sent nothing yet. *)
LEMMA NextMatchLines ==
  ASSUME IInv, NEW w \in Players \union {NoPlayer}, Rotate(w), match' = NextMatch,
         NEW ms, ServerMoves(ms),
         \A p, type, id : ReportsOf(p, type, id)' = ReportsOf(p, type, id)
  PROVE  LinesKept
<1>1. RoomSound' /\ lastId \in Nat /\ lastId' = lastId + Cardinality(StartOutputs)
  BY RotateKeepsRoom DEF IInv, MatchSound, Rotate
<1>2. CASE NextMatch = NoMatch
  BY <1>2 DEF LinesKept
<1>3. CASE NextMatch # NoMatch
  <2>1. /\ lastId' = lastId + 1 /\ match' = Matches!MatchOf(lastId + 1, active')
        /\ MatchShape(match', active', lastId + 1)
    BY <1>1, <1>3, NextMatchIs
  <2>2. match'.id = lastId'
    BY <1>3, <2>1 DEF MatchShape
  <2>3. match'.sent = [p \in ToSet(active') |-> 0]
    BY <2>1 DEF Matches!MatchOf, Matches!ToSet, ToSet
  <2>4. ASSUME NEW m \in pending'
        PROVE  m.match # lastId'
    <3>1. m \in pending \/ (m \in ms /\ m.type \in AssignedType)
      BY DEF ServerMoves
    <3>2. m \in pending \/ NewAssigned(m)
      BY <3>1 DEF ServerMoves, NewStart, NewEnd, AssignedType
    <3>3. m.match \in 1 .. lastId
      BY <3>2 DEF IInv, ChannelSound, NewAssigned, IsAssigned
    <3> QED  BY <1>1, <2>1, <3>3
  <2> QED  BY <1>1, <2>1, <2>2, <2>3, <2>4 DEF LinesKept
<1> QED  BY <1>2, <1>3

(***************************************************************************)
(* What a handler assigns in the running match takes free numbers, so      *)
(* track_outgoing adds it to what is resent and replaces nothing.          *)
(***************************************************************************)
LEMMA PendingGrows ==
  ASSUME IInv, match # NoMatch, NEW ms, Channel!TrackOutgoing(ms),
         \A m \in ms : m.match = match.id /\ m.seq \in Nat /\ m.seq >= match.nextSeq
  PROVE  pending' = pending \union ms /\ \A m \in ms : m \notin pending
<1>1. ASSUME NEW m \in ms, NEW n \in pending
      PROVE  Channel!Key(m) # Channel!Key(n)
  <2> SUFFICES ASSUME Channel!Key(m) = Channel!Key(n) PROVE FALSE
    OBVIOUS
  <2>1. n.match = match.id /\ n.seq = m.seq
    BY KeysAre
  <2>2. n.seq < match.nextSeq
    BY <2>1 DEF IInv, AssignedFresh, Outgoing, Running
  <2>3. match.nextSeq \in Nat
    BY MatchIs
  <2> QED  BY <2>1, <2>2, <2>3
<1>2. pending' = pending \union ms
  BY <1>1 DEF Channel!TrackOutgoing, Channel!SameEntry
<1>3. \A m \in ms : m \notin pending
  BY <1>1
<1> QED  BY <1>2, <1>3

(***************************************************************************)
(* The lines of the handled reports, and those told as canceled, are       *)
(* numbers.                                                                *)
(***************************************************************************)
LEMMA LinesAreCounts ==
  ASSUME IInv, CInv, NEW p, NEW id
  PROVE  /\ IsFiniteSet(HandledOf(p, "AttackReported", id))
         /\ \A m \in HandledOf(p, "AttackReported", id) : m.lines \in Nat
         /\ IsFiniteSet(CanceledIn(p, id))
         /\ \A m \in CanceledIn(p, id) : m.canceled \in Nat
<1>1. IsFiniteSet(HandledOf(p, "AttackReported", id))
  BY FiniteReports DEF CInv
<1>2. ASSUME NEW m \in HandledOf(p, "AttackReported", id)
      PROVE  m.lines \in Nat
  <2>1. m \in ReportSet
    BY ReportsAre DEF HandledOf
  <2>2. m.lines \in AttackLines \union {0}
    BY <2>1 DEF ReportSet
  <2>3. \A n \in AttackLines \union {0} : n \in Nat
    BY DuelAssumption
  <2> QED  BY <2>2, <2>3
<1>3. IsFiniteSet(CanceledIn(p, id))
  <2>1. CanceledIn(p, id) \subseteq pending
    BY DEF CanceledIn
  <2> QED  BY <2>1, FS_Subset DEF CInv
<1>4. \A m \in CanceledIn(p, id) : m.canceled \in Nat
  BY DEF CanceledIn, IInv, ChannelSound, IsAssigned
<1> QED  BY <1>1, <1>2, <1>3, <1>4

(* A report of another match, or a copy, sends and cancels no lines. *)
LEMMA StaleLines ==
  ASSUME Repeats = TRUE, IInv, CInv, LinesExact, NEW d \in wire, HandleStale(d) \/ HandleCopy(d)
  PROVE  LinesExact'
<1>1. ServerSends({})
  BY StaleSends DEF CInv
<1>2. \A p, type, id : ReportsOf(p, type, id)' = ReportsOf(p, type, id)
  BY <1>1, ServerSendsGrows DEF CInv
<1>3. /\ match' = match /\ active' = active /\ d.to = Server /\ pending' = pending
      /\ received' = received \/ (Channel!MarkReceived(d.msg) /\ ~Current(d.msg))
  BY DEF HandleStale, HandleCopy, Handles, serverVars
<1>4. ASSUME match # NoMatch, NEW id, id = match.id
      PROVE  HandledKept("AttackReported", id)
  <2>1. received' # received => d.msg.match # id
    BY <1>3, <1>4 DEF Current
  <2> QED  BY <1>2, <1>3, <2>1, HandledStay
<1>5. LinesKept
  BY <1>3, <1>4, QuietPending DEF LinesKept
<1> QED  BY <1>5, LinesStep

(* A resend sends and cancels no lines. *)
LEMMA ResendLines ==
  ASSUME IInv, CInv, LinesExact, Resend
  PROVE  LinesExact'
<1>1. PICK m \in pending : ServerSends({m})
  BY ResendSends DEF CInv
<1>2. \A p, type, id : ReportsOf(p, type, id)' = ReportsOf(p, type, id)
  BY <1>1, ServerSendsGrows DEF CInv
<1>3. match' = match /\ active' = active /\ received' = received /\ pending' = pending
  BY DEF Resend, serverVars
<1>4. LinesKept
  BY <1>2, <1>3, QuietHandled, QuietPending DEF LinesKept
<1> QED  BY <1>4, LinesStep

(***************************************************************************)
(* An attack that is handled adds its lines on both sides: its sender has  *)
(* one more handled attack, and each line is sent or told as canceled.     *)
(***************************************************************************)
LEMMA AttackIsAccounted ==
  ASSUME Repeats = TRUE, IInv, CInv, LinesExact, NEW d \in wire, HandleAttack(d)
  PROVE  LinesExact'
<1>1. PICK s, id, c, o, ms :
        /\ s = d.msg.sender /\ id = match.id
        /\ c = Matches!Canceled(d.msg) /\ o = Matches!Outgoing(d.msg)
        /\ ms = Matches!AttackOutputs(d.msg)
  OBVIOUS
<1>2. /\ match # NoMatch /\ s \in ToSet(active) /\ c \in Nat /\ o \in Nat
      /\ c + o = d.msg.lines
  BY <1>1, AttackIs
<1>3. /\ match'.id = id /\ match' # NoMatch /\ active' = active
      /\ match'.sent = [match.sent EXCEPT ![s] = @ + o]
  BY <1>1, AttackGoesOn DEF HandleAttack
<1>4. match.sent \in [ToSet(active) -> Nat] /\ match.nextSeq \in Nat
  BY <1>2, MatchIs
<1>5. \A p, type, i : ReportsOf(p, type, i)' = ReportsOf(p, type, i)
  BY AttackSendsFew, ServerSendsGrows DEF CInv
<1>6. /\ HandledOf(s, "AttackReported", id)' =
           HandledOf(s, "AttackReported", id) \union {d.msg}
      /\ d.msg \notin HandledOf(s, "AttackReported", id)
      /\ \A p : p # s => HandledOf(p, "AttackReported", id)' =
                            HandledOf(p, "AttackReported", id)
  <2>1. /\ d.to = Server /\ d.msg.type = "AttackReported" /\ Channel!IsNew(d.msg)
        /\ Channel!MarkReceived(d.msg) /\ d.msg.match = id
    BY <1>1 DEF HandleAttack, Handles, Current
  <2>2. PICK type : type = "AttackReported"
    OBVIOUS
  <2>3. /\ HandledOf(s, type, id)' = HandledOf(s, type, id) \union {d.msg}
        /\ d.msg \notin HandledOf(s, type, id)
        /\ \A p : p # s => HandledOf(p, type, id)' = HandledOf(p, type, id)
    BY <1>1, <1>5, <2>1, <2>2, ReportHandled
  <2> QED  BY <2>2, <2>3
<1>7. \A m \in ms :
        /\ m.match = id /\ m.seq \in Nat /\ m.seq >= match.nextSeq
        /\ \/ m.lines = 0 /\ m.canceled = c /\ m.target = s /\ c # 0
           \/ m.lines # 0
  BY <1>1, AttackSends DEF IsAssigned
<1>8. pending' = pending \union ms /\ \A m \in ms : m \notin pending
  <2>1. Channel!TrackOutgoing(ms)
    BY <1>1 DEF HandleAttack
  <2> QED  BY <1>1, <1>2, <1>7, <2>1, PendingGrows
<1>9. \A p : p # s => CanceledIn(p, id)' = CanceledIn(p, id)
  BY <1>7, <1>8 DEF CanceledIn
<1>10. CanceledOf(CanceledIn(s, id)') = CanceledOf(CanceledIn(s, id)) + c
  <2>1. CASE c = 0
    <3>1. CanceledIn(s, id)' = CanceledIn(s, id)
      BY <1>7, <1>8, <2>1 DEF CanceledIn
    <3>2. CanceledOf(CanceledIn(s, id)) \in Nat
      BY LinesAreCounts, CanceledAdd
    <3> QED  BY <2>1, <3>1, <3>2
  <2>2. CASE c # 0
    <3>1. PICK x : x = Matches!Assigned("GarbageAssigned", s, s, match.nextSeq, 0, c)
      OBVIOUS
    <3>2. x \in ms
      BY <1>1, <2>2, <3>1 DEF Matches!AttackOutputs
    <3>3. x.lines = 0 /\ x.canceled = c /\ x.target = s /\ x.match = id
      BY <1>1, <3>1 DEF Matches!Assigned
    <3>4. \A m \in ms : m.lines = 0 => m = x
      BY <1>1, <3>1, AttackSends
    <3>5. CanceledIn(s, id)' = CanceledIn(s, id) \union {x} /\ x \notin CanceledIn(s, id)
      BY <1>8, <3>2, <3>3, <3>4 DEF CanceledIn
    <3>6. CanceledOf(CanceledIn(s, id) \union {x}) = CanceledOf(CanceledIn(s, id)) + x.canceled
      BY <1>2, <3>3, <3>5, LinesAreCounts, CanceledAdd
    <3> QED  BY <3>3, <3>5, <3>6
  <2> QED  BY <2>1, <2>2
<1>11. LinesOf(HandledOf(s, "AttackReported", id)') =
         LinesOf(HandledOf(s, "AttackReported", id)) + d.msg.lines
  <2>1. d.msg.lines \in Nat
    BY <1>2
  <2> QED  BY <1>6, <2>1, LinesAreCounts, LinesAdd
<1>12. ASSUME NEW p \in ToSet(active)
       PROVE  LinesOf(HandledOf(p, "AttackReported", id)') =
                match'.sent[p] + CanceledOf(CanceledIn(p, id)')
  <2>1. LinesOf(HandledOf(p, "AttackReported", id)) =
          match.sent[p] + CanceledOf(CanceledIn(p, id))
    BY <1>1, <1>2, <1>12 DEF LinesExact
  <2>2. match.sent[p] \in Nat /\ CanceledOf(CanceledIn(p, id)) \in Nat
    BY <1>4, LinesAreCounts, CanceledAdd
  <2>3. CASE p = s
    <3>1. match'.sent[p] = match.sent[p] + o
      BY <1>2, <1>3, <1>4, <2>3
    <3> QED  BY <1>2, <1>10, <1>11, <2>1, <2>2, <2>3, <3>1
  <2>4. CASE p # s
    <3>1. match'.sent[p] = match.sent[p]
      BY <1>3, <1>4, <2>4
    <3> QED  BY <1>6, <1>9, <2>1, <2>4, <3>1
  <2> QED  BY <2>3, <2>4
<1> QED  BY <1>3, <1>12 DEF LinesExact

(***************************************************************************)
(* A KO short of the target sends and cancels no lines: the respawn is     *)
(* told without any.                                                       *)
(***************************************************************************)
LEMMA KOGoesOnLines ==
  ASSUME Repeats = TRUE, IInv, CInv, LinesExact, NEW d \in wire, HandleKO(d),
         ~Matches!KoTargetReached(d.msg)
  PROVE  LinesExact'
<1>1. PICK s, respawn :
        /\ s = d.msg.sender
        /\ respawn = Matches!Assigned("RespawnAssigned", Matches!OpponentOf(s), s,
                                      match.nextSeq, 0, 0)
  OBVIOUS
<1>2. Matches!KOOutputs(d.msg) = {respawn}
  BY <1>1 DEF Matches!KOOutputs, Matches!KOEnds
<1>3. /\ respawn.type = "RespawnAssigned" /\ respawn.match = match.id /\ respawn.canceled = 0
      /\ respawn.seq = match.nextSeq /\ match.nextSeq \in Nat /\ match # NoMatch
  BY <1>1, RespawnIs, KOIs
<1>4. pending' = pending \union {respawn} /\ respawn \notin pending
  <2>1. {m \in {respawn} : m.type \in AssignedType} = {respawn}
    BY <1>3 DEF AssignedType
  <2>2. Channel!TrackOutgoing({respawn})
    BY <1>2, <2>1 DEF HandleKO
  <2> QED  BY <1>3, <2>2, PendingGrows
<1>5. ASSUME NEW p, NEW id
      PROVE  CanceledOf(CanceledIn(p, id)') = CanceledOf(CanceledIn(p, id))
  <2>1. CASE CanceledIn(p, id)' = CanceledIn(p, id)
    BY <2>1
  <2>2. CASE CanceledIn(p, id)' # CanceledIn(p, id)
    <3>1. /\ CanceledIn(p, id)' = CanceledIn(p, id) \union {respawn}
          /\ respawn \notin CanceledIn(p, id)
      BY <1>4, <2>2 DEF CanceledIn
    <3>2. /\ CanceledOf(CanceledIn(p, id) \union {respawn}) =
               CanceledOf(CanceledIn(p, id)) + respawn.canceled
          /\ CanceledOf(CanceledIn(p, id)) \in Nat
      BY <1>3, <3>1, LinesAreCounts, CanceledAdd
    <3> QED  BY <1>3, <3>1, <3>2
  <2> QED  BY <2>1, <2>2
<1>6. \A p, type, id : ReportsOf(p, type, id)' = ReportsOf(p, type, id)
  BY KOSendsFew, ServerSendsGrows DEF CInv
<1>7. \A id : HandledKept("AttackReported", id)
  <2>1. Channel!MarkReceived(d.msg) /\ d.to = Server /\ d.msg.type # "AttackReported"
    BY KOIs DEF HandleKO
  <2> QED  BY <1>6, <2>1, HandledStay
<1>8. LinesKept
  BY <1>3, <1>5, <1>7, KOGoesOn DEF LinesKept
<1> QED  BY <1>8, LinesStep

(* The end of a match sends and cancels no lines. *)
LEMMA EndLines ==
  ASSUME Repeats = TRUE, IInv, CInv, LinesExact,
         TickMatch \/ \E d \in wire : HandleKO(d) /\ Matches!KoTargetReached(d.msg)
  PROVE  LinesExact'
<1>1. PICK winner, ms :
        /\ winner \in Players \union {NoPlayer} /\ ServerSends(ms)
        /\ Rotate(winner) /\ match' = NextMatch
  <2>1. CASE TickMatch
    BY <2>1, TickSends DEF CInv
  <2>2. ASSUME NEW d \in wire, HandleKO(d), Matches!KoTargetReached(d.msg)
        PROVE  \E winner, ms : /\ winner \in Players \union {NoPlayer} /\ ServerSends(ms)
                               /\ Rotate(winner) /\ match' = NextMatch
    BY <2>2, KOSendsFew, KOIs DEF HandleKO, Matches!HandleKO, CInv
  <2> QED  BY <2>1, <2>2
<1>2. ServerMoves(ms)
  BY <1>1 DEF ServerSends
<1>3. \A p, type, id : ReportsOf(p, type, id)' = ReportsOf(p, type, id)
  BY <1>1, ServerSendsGrows DEF CInv
<1>4. LinesKept
  BY <1>1, <1>2, <1>3, NextMatchLines
<1> QED  BY <1>4, LinesStep

(* A client handles nothing: what it has just reported is new. *)
LEMMA ClientHandles ==
  ASSUME IInv, NEW p \in Players, NEW c, NEW ms, ClientGoesOn(p, c, ms),
         wire' = wire \union Away(ms), NEW type, NEW id
  PROVE  HandledKept(type, id)
<1>1. received' = received
  BY DEF ClientGoesOn, serverVars
<1> SUFFICES ASSUME NEW q PROVE HandledOf(q, type, id)' = HandledOf(q, type, id)
  BY DEF HandledKept
<1>2. \A m : Channel!IsNew(m)' <=> Channel!IsNew(m)
  BY <1>1 DEF Channel!IsNew, Channel!Key
<1>3. \A d \in Away(ms) : Channel!IsNew(d.msg)
  BY ReportsAreNew DEF Channel!IsNew
<1> QED  BY <1>2, <1>3 DEF HandledOf, ReportsOf

(* What a client does leaves the lines of the server as they are. *)
LEMMA ClientLines ==
  ASSUME IInv, LinesExact, NEW p \in Players, NEW c, NEW ms, ClientGoesOn(p, c, ms),
         wire' = wire \union Away(ms)
  PROVE  LinesExact'
<1>1. match' = match /\ active' = active /\ pending' = pending
  BY DEF ClientGoesOn, serverVars
<1>2. \A id : HandledKept("AttackReported", id)
  BY ClientHandles
<1>3. LinesKept
  BY <1>1, <1>2, QuietPending DEF LinesKept
<1> QED  BY <1>3, LinesStep

(* The steps of a client change nothing of it. *)
LEMMA PlayLines ==
  ASSUME Repeats = TRUE, IInv, LinesExact,
         \/ \E p \in Players : Lock(p) \/ HoldTopsOut(p)
         \/ \E d \in wire : Receive(d)
  PROVE  LinesExact'
<1>1. ASSUME NEW p \in Players, Lock(p)
      PROVE  LinesExact'
  <2>1. PICK c, ms : ClientGoesOn(p, c, ms) /\ Reports(ms)
    BY <1>1, LockStep
  <2>2. wire' = wire \union Away(ms)
    BY <2>1 DEF Reports, Away
  <2> QED  BY <2>1, <2>2, ClientLines
<1>2. ASSUME NEW p \in Players, HoldTopsOut(p)
      PROVE  LinesExact'
  <2>1. PICK c, m : ClientGoesOn(p, c, {m}) /\ Reports({m})
    BY <1>2, HoldTopsOutStep
  <2>2. wire' = wire \union Away({m})
    BY <2>1 DEF Reports, Away
  <2> QED  BY <2>1, <2>2, ClientLines
<1>3. ASSUME NEW d \in wire, Receive(d), d.msg.type # "MatchStart"
      PROVE  LinesExact'
  <2>1. PICK c : /\ d.to \in Players /\ wire' = Remaining(d) /\ ClientGoesOn(d.to, c, {})
    BY <1>3, ReceiveGoesOn
  <2>2. wire' = wire \union Away({})
    BY <1>3, <2>1 DEF Remaining, Away
  <2> QED  BY <2>1, <2>2, ClientLines
<1>4. ASSUME NEW d \in wire, Receive(d), d.msg.type = "MatchStart"
      PROVE  LinesExact'
  <2>1. /\ d.to \in Players /\ UNCHANGED serverVars /\ wire' = wire \ {d}
    BY <1>4, RemainingIs DEF Receive
  <2>2. match' = match /\ active' = active /\ received' = received /\ pending' = pending
    BY <2>1 DEF serverVars
  <2>3. d.to # Server
    BY <2>1, QueueAssumptions
  <2>4. \A p, type, id : ReportsOf(p, type, id)' = ReportsOf(p, type, id)
    BY <2>1, <2>3 DEF ReportsOf
  <2>5. LinesKept
    BY <2>2, <2>4, QuietHandled, QuietPending DEF LinesKept
  <2> QED  BY <2>5, LinesStep
<1> QED  BY <1>1, <1>2, <1>3, <1>4

(* At the beginning nothing has been sent. *)
LEMMA FirstLines == Init => LinesExact
<1> SUFFICES ASSUME Init PROVE LinesExact
  OBVIOUS
<1>1. /\ match # NoMatch /\ pending = {}
      /\ \A p \in ToSet(active) : match.sent[p] = 0
      /\ \A d \in wire : d.to # Server
  BY FirstStart
<1>3. PICK id : id = match.id
  OBVIOUS
<1>4. \A p : HandledOf(p, "AttackReported", id) = {} /\ CanceledIn(p, id) = {}
  BY <1>1 DEF HandledOf, ReportsOf, CanceledIn
<1>5. ASSUME NEW p \in ToSet(active)
      PROVE  LinesOf(HandledOf(p, "AttackReported", id)) =
               match.sent[p] + CanceledOf(CanceledIn(p, id))
  <2>1. LinesOf(HandledOf(p, "AttackReported", id)) = 0 /\ CanceledOf(CanceledIn(p, id)) = 0
    BY <1>4, NoLines
  <2> QED  BY <1>1, <2>1
<1> QED  BY <1>3, <1>5 DEF LinesExact

(* A step in which nothing changes keeps them. *)
LEMMA StutterLines ==
  ASSUME IInv, LinesExact, UNCHANGED vars
  PROVE  LinesExact'
<1>1. /\ match' = match /\ active' = active /\ received' = received /\ pending' = pending
      /\ wire' = wire
  BY DEF vars, serverVars
<1>2. \A p, type, id : ReportsOf(p, type, id)' = ReportsOf(p, type, id)
  BY <1>1 DEF ReportsOf
<1>3. LinesKept
  BY <1>1, <1>2, QuietHandled, QuietPending DEF LinesKept
<1> QED  BY <1>3, LinesStep

(* Every step keeps the lines accounted for. *)
LEMMA NextLines ==
  ASSUME Repeats = TRUE, IInv, CInv, LinesExact, [Next]_vars
  PROVE  LinesExact'
<1>1. CASE \E p \in Players : Lock(p) \/ HoldTopsOut(p)
  BY <1>1, PlayLines
<1>2. ASSUME NEW d \in wire,
             HandleStale(d) \/ HandleCopy(d) \/ HandleAttack(d) \/ HandleKO(d) \/ Receive(d)
      PROVE  LinesExact'
  BY <1>2, StaleLines, AttackIsAccounted, KOGoesOnLines, EndLines, PlayLines
<1>3. CASE TickMatch \/ Resend
  BY <1>3, EndLines, ResendLines
<1>4. CASE UNCHANGED vars
  BY <1>4, StutterLines
<1> QED  BY <1>1, <1>2, <1>3, <1>4 DEF Next

-----------------------------------------------------------------------------
(* The properties. *)

(***************************************************************************)
(* However often the report of a top-out arrives, and whatever else has    *)
(* its number, a player has no more points than the opponent has reported  *)
(* KOs, in the match on the server and in every MatchEnd.                  *)
(***************************************************************************)
THEOREM KoCountsAreDeathsHolds ==
  ASSUME Repeats = TRUE, ActiveCount = 2
  PROVE  Spec => []KoCountsAreDeaths
<1>1. IInv /\ CInv => KoCountsAreDeaths
  <2> SUFFICES ASSUME IInv, CInv PROVE KoCountsAreDeaths
    OBVIOUS
  <2>1. ASSUME match # NoMatch
        PROVE  Justified(match.ko, match.id)
    <3>1. DOMAIN match.ko = ToSet(active)
      BY <2>1, MatchIs
    <3>2. ASSUME NEW p \in ToSet(active), NEW q \in ToSet(active), p # q
          PROVE  match.ko[q] <= Cardinality(ReportsOf(p, "KOReported", match.id))
      <4>1. match.ko[q] = Cardinality(HandledOf(p, "KOReported", match.id))
        BY <2>1, <3>2 DEF CInv, KoExact
      <4> QED  BY <4>1, FiniteReports DEF CInv
    <3> QED  BY <3>1, <3>2 DEF Justified
  <2>2. \A d \in wire : d.msg.type = "MatchEnd" => Justified(d.msg.ko, d.msg.match)
    BY DEF CInv, EndsJustified
  <2> QED  BY <2>1, <2>2 DEF KoCountsAreDeaths
<1> QED  BY CountsInvariance, <1>1, PTL

(***************************************************************************)
(* Whoever waits for a respawn in a match that goes on has reported the    *)
(* KO, and either a report of theirs is still to be handled or a respawn   *)
(* has been sent for each.                                                 *)
(***************************************************************************)
THEOREM NobodyForgottenHolds ==
  ASSUME Repeats = TRUE, ActiveCount = 2
  PROVE  Spec => []NobodyForgotten
<1>1. IInv /\ CInv => NobodyForgotten
  <2> SUFFICES ASSUME IInv, CInv, NEW p \in Players, client[p].running, ~client[p].alive,
                      Current([match |-> client[p].match]),
                      NEW kos, kos = ReportsOf(p, "KOReported", client[p].match),
                      \A m \in kos : ~Channel!IsNew(m)
               PROVE  /\ kos # {}
                      /\ Cardinality(RespawnsOf(p, client[p].match)) >= Cardinality(kos)
    BY DEF NobodyForgotten
  <2>1. kos # {}
    BY DEF CInv, DeadHaveReported
  <2>2. match # NoMatch /\ client[p].match = match.id
    BY DEF Current
  <2>3. p \in ToSet(active)
    BY <2>2 DEF IInv, InLine, Running
  <2>4. kos = HandledOf(p, "KOReported", match.id)
    BY <2>2 DEF HandledOf
  <2> QED  BY <2>1, <2>2, <2>3, <2>4 DEF CInv, RespawnsSent
<1> QED  BY CountsInvariance, <1>1, PTL

(***************************************************************************)
(* The lines of the attacks that came in are neither lost nor doubled: the *)
(* server counts each as sent or has told the attacker that it canceled.   *)
(***************************************************************************)
THEOREM LinesAccountedForHolds ==
  ASSUME Repeats = TRUE, ActiveCount = 2
  PROVE  Spec => []LinesAccountedFor
<1>1. IInv /\ LinesExact => LinesAccountedFor
  <2> SUFFICES ASSUME IInv, LinesExact PROVE LinesAccountedFor
    OBVIOUS
  <2>1. ASSUME match # NoMatch, NEW p \in Matches!InMatch
        PROVE  LinesOf(HandledOf(p, "AttackReported", match.id)) =
                 match.sent[p] + CanceledOf(CanceledIn(p, match.id))
    BY <2>1, MatchIs DEF LinesExact
  <2> QED  BY <2>1 DEF LinesAccountedFor, LinesOf, CanceledOf, HandledOf, CanceledIn, CanceledFor
<1>2. Init => LinesExact
  BY FirstLines
<1>3. IInv /\ CInv /\ LinesExact /\ [Next]_vars => LinesExact'
  BY NextLines
<1> QED  BY CountsInvariance, <1>1, <1>2, <1>3, PTL DEF Spec
=============================================================================
