-------------------------------- MODULE Duel --------------------------------
(***************************************************************************)
(* The server and its clients in full play: attacks, garbage, KOs and      *)
(* respawns over a network of datagrams.  Composes the match, the room and *)
(* the reliable channel of the server with the versus sessions of the      *)
(* clients, under the handlers of server/app.py and                        *)
(* client/network_session.py.  Nobody joins or leaves: that is the subject *)
(* of ServerApp.                                                           *)
(***************************************************************************)
EXTENDS Naturals, Sequences, FiniteSets, SequencesExt, FiniteSetsExt

CONSTANTS
  Players, NoPlayer, NoMatch, Server,
  ActiveCount, WaitingCapacity, KoTarget,   \* MatchConfig
  AttackLines,    \* what AttackCalculator may make of a clear
  Repeats,        \* BOOLEAN: the network loses and repeats datagrams
  MaxReports,     \* bound: reports of all clients together
  MaxGarbage      \* bound: pending garbage of a client

ASSUME DuelAssumption ==
  /\ ActiveCount \in Nat \ {0} /\ WaitingCapacity \in Nat
  /\ KoTarget \in Nat \ {0}
  /\ AttackLines \subseteq Nat
  /\ NoPlayer \notin Players /\ Server \notin Players
  /\ Repeats \in BOOLEAN
  /\ MaxReports \in Nat /\ MaxGarbage \in Nat

(* Everyone has been let into the room, and they are enough for a match. *)
ASSUME RoomAssumption ==
  /\ IsFiniteSet(Players)
  /\ Cardinality(Players) \in ActiveCount .. ActiveCount + WaitingCapacity

(* None is no match record, nor what the room knows of one. *)
ASSUME NoMatchAssumption ==
  LET counts == UNION {[ps -> Nat] : ps \in SUBSET Players}
  IN  /\ NoMatch \notin [id : Nat, players : Seq(Players), ko : counts, sent : counts,
                         garbage : counts, nextSeq : Nat]
      /\ NoMatch \notin [players : Seq(Players), ko : counts, left : {0}]

VARIABLES
  match,               \* MatchManager.current_match
  lastId,              \* matches are numbered; the last number given
  active, waiting,     \* QueueManager
  pending, received,   \* ReliableChannel
  client,              \* the versus session of each player
  wire                 \* datagrams on their way

Matches == INSTANCE MatchManager
Queue == INSTANCE QueueManager
Channel == INSTANCE ReliableChannel
Versus == INSTANCE VersusSession

serverVars == << match, lastId, active, waiting, pending, received >>
vars == << serverVars, client, wire >>

ReportType == {"AttackReported", "KOReported"}
AssignedType == {"GarbageAssigned", "RespawnAssigned"}

-----------------------------------------------------------------------------
(* The network.  A datagram is a message and an address.  A MatchStart is  *)
(* taken to arrive at most once.                                           *)

(***************************************************************************)
(* Who a message of the server is for; the others ignore it.  A MatchEnd   *)
(* is sent before the room rotates.                                        *)
(***************************************************************************)
Recipients(m) ==
  IF m.type = "MatchStart" THEN ToSet(m.players)
  ELSE IF m.type = "MatchEnd" THEN ToSet(active)
  ELSE {m.target}

Datagrams(ms) ==
  UNION {{[to |-> p, msg |-> m] : p \in Recipients(m)} : m \in ms}

Remaining(d) ==
  IF Repeats /\ d.msg.type # "MatchStart" THEN wire ELSE wire \ {d}

Sends(ms) == wire' = wire \union Datagrams(ms)
Answers(d, ms) == wire' = Remaining(d) \union Datagrams(ms)

-----------------------------------------------------------------------------
(* The server. *)

(***************************************************************************)
(* Everyone has said hello, and the hello of the last active player has    *)
(* started the first match.                                                *)
(***************************************************************************)
Init ==
  /\ \E line \in [1 .. Cardinality(Players) -> Players] :
       /\ ToSet(line) = Players
       /\ active = SubSeq(line, 1, ActiveCount)
       /\ waiting = SubSeq(line, ActiveCount + 1, Len(line))
  /\ match = Matches!StartIfReady(NoMatch, 1, active) /\ lastId = 1
  /\ Channel!Init /\ Versus!Init
  /\ wire = Datagrams({Matches!MatchStart(match)})

(* start_if_ready at the end of a match, after the rotation. *)
NextMatch == Matches!StartIfReady(NoMatch, lastId + 1, active')

StartOutputs == {Matches!MatchStart(m) : m \in {NextMatch} \ {NoMatch}}

(* What follows the end of a match in every handler. *)
Rotate(winner) ==
  /\ Queue!RotateAfterMatch(winner)
  /\ lastId' = lastId + Cardinality(StartOutputs)

(***************************************************************************)
(* _handle_reliable.  A copy is only acknowledged, which no client minds.  *)
(***************************************************************************)
Handles(d) == d \in wire /\ d.to = Server /\ Channel!IsNew(d.msg)

Current(m) == match # NoMatch /\ m.match = match.id

HandleStale(d) ==
  /\ Handles(d) /\ ~Current(d.msg)
  /\ UNCHANGED << match, lastId, active, waiting, pending, client >>
  /\ Channel!MarkReceived(d.msg)
  /\ Answers(d, {})

HandleAttack(d) ==
  /\ Handles(d) /\ Current(d.msg) /\ d.msg.type = "AttackReported"
  /\ UNCHANGED << lastId, active, waiting, client >>
  /\ Channel!MarkReceived(d.msg)
  /\ Matches!HandleAttack(d.msg)
  /\ Channel!TrackOutgoing(Matches!AttackOutputs(d.msg))
  /\ Answers(d, Matches!AttackOutputs(d.msg))

HandleKO(d) ==
  /\ Handles(d) /\ Current(d.msg) /\ d.msg.type = "KOReported"
  /\ UNCHANGED << client >>
  /\ Channel!MarkReceived(d.msg)
  /\ Channel!TrackOutgoing({m \in Matches!KOOutputs(d.msg) : m.type \in AssignedType})
  /\ IF Matches!KoTargetReached(d.msg)
     THEN /\ Rotate(Matches!OpponentOf(d.msg.sender))
          /\ Answers(d, Matches!KOOutputs(d.msg) \union StartOutputs)
     ELSE /\ UNCHANGED << active, waiting, lastId >>
          /\ Answers(d, Matches!KOOutputs(d.msg))
  /\ Matches!HandleKO(d.msg, NextMatch)

(* The copy of a report that has been handled. *)
HandleCopy(d) ==
  /\ d \in wire /\ d.to = Server /\ ~Channel!IsNew(d.msg)
  /\ UNCHANGED << serverVars, client >>
  /\ Answers(d, {})

(***************************************************************************)
(* _tick_match and due_resends.                                            *)
(***************************************************************************)
TickMatch ==
  /\ match # NoMatch
  /\ UNCHANGED << pending, received, client >>
  /\ \E winner \in Matches!Winners :
       /\ Rotate(winner)
       /\ Matches!Tick(NextMatch)
       /\ Sends({Matches!MatchEnd(winner, match.ko)} \union StartOutputs)

Resend ==
  /\ UNCHANGED << serverVars, client >>
  /\ \E m \in pending : Sends({m})

-----------------------------------------------------------------------------
(* The clients. *)

(* poll of the runtime, or of the session: one datagram. *)
Receive(d) ==
  LET p == d.to  m == d.msg
  IN  /\ d \in wire /\ p \in Players
      /\ \/ /\ m.type = "MatchStart"
            /\ \E seq \in {0, client[p].seq} : Versus!HandleMatchStart(p, m, seq)
         \/ /\ m.type = "GarbageAssigned"
            /\ client[p].garbage + m.lines <= MaxGarbage
            /\ Versus!HandleGarbageAssigned(p, m)
         \/ m.type = "RespawnAssigned" /\ Versus!HandleRespawnAssigned(p, m)
         \/ m.type = "MatchEnd" /\ Versus!HandleMatchEnd(p, m)
      /\ wire' = Remaining(d)
      /\ UNCHANGED serverVars

Reports(ms) == wire' = wire \union {[to |-> Server, msg |-> m] : m \in ms}

(* The bound: what has been sent has been handled or is on its way. *)
FewReports ==
  Cardinality(received') + Cardinality({d \in wire' : d.to = Server /\ Channel!IsNew(d.msg)})
    <= MaxReports

Lock(p) ==
  /\ UNCHANGED serverVars
  /\ \E clears \in SeqOf(AttackLines, MaxReports), toppedOut, collides \in BOOLEAN :
       LET dies == Versus!Dies(p, toppedOut, collides)
       IN  /\ Versus!Lock(p, clears, dies)
           /\ Reports(Versus!LockReports(p, clears, dies))
  /\ FewReports

HoldTopsOut(p) ==
  /\ UNCHANGED serverVars
  /\ Versus!HoldTopsOut(p)
  /\ Reports({Versus!Report(p, "KOReported", client[p].seq, 0)})
  /\ FewReports

Next ==
  \/ \E p \in Players : Lock(p) \/ HoldTopsOut(p)
  \/ \E d \in wire :
       \/ HandleStale(d) \/ HandleAttack(d) \/ HandleKO(d) \/ HandleCopy(d)
       \/ Receive(d)
  \/ TickMatch \/ Resend

Spec == Init /\ [][Next]_vars

-----------------------------------------------------------------------------

ReportSet ==
  [type : ReportType, match : 1 .. lastId, sender : Players, target : Players,
   seq : Nat, lines : AttackLines \union {0}]

TypeOK ==
  /\ Queue!TypeOK
  /\ lastId \in Nat
  /\ \/ match = NoMatch
     \/ /\ match.id = lastId
        /\ match.ko \in [Matches!InMatch -> 0 .. KoTarget - 1]
        /\ match.sent \in [Matches!InMatch -> Nat]
        /\ match.garbage \in [Matches!InMatch -> Nat]
        /\ match.nextSeq \in Nat
  /\ client \in [Players ->
       [match : 0 .. lastId, opponent : Players \union {NoPlayer}, running : BOOLEAN,
        alive : BOOLEAN, garbage : 0 .. MaxGarbage, seq : Nat]]
  /\ \A m \in pending : m.type \in AssignedType /\ m.target \in Players
  /\ received \subseteq [sender : Players, match : 1 .. lastId, seq : Nat]
  /\ \A d \in wire : d.to = Server => d.msg \in ReportSet

(***************************************************************************)
(* What the room relies on: with attacks, garbage and sequence numbers     *)
(* around it, the match is still a life as MatchLifecycle has it.          *)
(***************************************************************************)
ImplementsLifecycle == Matches!Life!Spec

(***************************************************************************)
(* No top-out counts twice, however often its report arrives and whatever  *)
(* else has the same number: the points in a match, when it runs and when  *)
(* it has ended, are at most the KOs the opponent has reported in it.      *)
(* (With Repeats, wire keeps every message.)                               *)
(***************************************************************************)
ReportsOf(p, type, id) ==
  {d.msg : d \in {e \in wire : /\ e.to = Server /\ e.msg.type = type
                              /\ e.msg.sender = p /\ e.msg.match = id}}

Justified(ko, id) ==
  \A p, q \in DOMAIN ko :
    p # q => ko[q] <= Cardinality(ReportsOf(p, "KOReported", id))

KoCountsAreDeaths ==
  /\ match # NoMatch => Justified(match.ko, match.id)
  /\ \A d \in wire : d.msg.type = "MatchEnd" => Justified(d.msg.ko, d.msg.match)

(***************************************************************************)
(* The lines of the attacks that came in are neither lost nor doubled: the *)
(* server counts each as sent or has told the attacker that it canceled.   *)
(***************************************************************************)
CanceledFor(p) == {m \in pending : m.target = p /\ m.match = match.id /\ m.lines = 0}

LinesAccountedFor ==
  match # NoMatch =>
    \A p \in Matches!InMatch :
      MapThenSumSet(LAMBDA m : m.lines,
                    {m \in ReportsOf(p, "AttackReported", match.id) : ~Channel!IsNew(m)})
        = match.sent[p] + MapThenSumSet(LAMBDA m : m.canceled, CanceledFor(p))

(***************************************************************************)
(* No two messages of the server share a number, not even those one attack *)
(* makes for both players: mark_acked goes by the number and not by the    *)
(* recipient, so one acknowledgement would end the resending of both.      *)
(***************************************************************************)
Sent(type) == {d.msg : d \in {e \in wire : e.msg.type \in type}}

EachHasItsNumber ==
  \A m, n \in Sent(AssignedType) : m.match = n.match /\ m.seq = n.seq => m = n

(***************************************************************************)
(* Nobody is left for dead.  Whoever waits for a respawn in a match that   *)
(* goes on has reported the KO, and the server has yet to handle a report  *)
(* of theirs or has sent a respawn for each of them.                       *)
(***************************************************************************)
RespawnsOf(p, id) ==
  {m \in Sent({"RespawnAssigned"}) : m.match = id /\ m.target = p}

NobodyForgotten ==
  \A p \in Players :
    client[p].running /\ ~client[p].alive /\ Current([match |-> client[p].match]) =>
      LET kos == ReportsOf(p, "KOReported", client[p].match)
      IN  /\ kos # {}
          /\ \/ \E m \in kos : Channel!IsNew(m)
             \/ Cardinality(RespawnsOf(p, client[p].match)) >= Cardinality(kos)

(***************************************************************************)
(* A client stops only when its match is over on the server, too: no late  *)
(* message of one match ends the next.                                     *)
(***************************************************************************)
StoppedMeansOver ==
  \A p \in Players :
    client[p].match # 0 /\ ~client[p].running => ~Current([match |-> client[p].match])

(***************************************************************************)
(* A RespawnAssigned is for the dead: it is applied once, and never takes  *)
(* the board away from a player who is alive.  (Without Repeats, who       *)
(* handles a datagram takes it from the wire.)                             *)
(***************************************************************************)
Consumed(type) == {d \in wire \ wire' : d.msg.type = type}

RespawnsTheDead ==
  [][\A d \in Consumed("RespawnAssigned") :
       Versus!ForMe(d.to, d.msg) => ~client[d.to].alive]_vars

(***************************************************************************)
(* An attack cancels garbage that its sender still has pending, or that is *)
(* on its way there, not garbage that is on the board already.             *)
(***************************************************************************)
Coming(p) ==
  client[p].garbage
    + MapThenSumSet(LAMBDA d : d.msg.lines,
                    {d \in wire : d.to = p /\ d.msg.type = "GarbageAssigned"})

CancelsWhatIsPending ==
  [][\A d \in Consumed("AttackReported") :
       \A m \in pending' \ pending :
         m.target = d.msg.sender => m.canceled <= Coming(m.target)]_vars
=============================================================================
