----------------------------- MODULE DuelProofs -----------------------------
(***************************************************************************)
(* Proofs about the duel: its state is sound, numbers mean one message, no *)
(* client stops too early, and the match lives as MatchLifecycle has it.   *)
(* The steps of the server are all of one shape (ServerMoves), those of a  *)
(* client of another (ClientGoesOn); the invariant is shown to survive the *)
(* two shapes and the beginning of a match, and each handler to have its   *)
(* shape.                                                                  *)
(***************************************************************************)
EXTENDS Duel, SequenceTheorems, FiniteSetTheorems, FunctionTheorems, TLAPS

(***************************************************************************)
(* The room of the duel is the room of QueueManagerProofs, whose lemmas    *)
(* are used here.                                                          *)
(***************************************************************************)
QP == INSTANCE QueueManagerProofs

-----------------------------------------------------------------------------
(* The invariant. *)

(* The invariants of the room (QueueManager). *)
RoomSound == Queue!TypeOK /\ Queue!NoIdlePlace /\ Queue!NobodyTwice

(* The match with this number goes on. *)
Running(id) == match # NoMatch /\ id = match.id

(***************************************************************************)
(* A match that was started as number id for this line-up: current_match   *)
(* is none or a whole record, with counts for exactly the players of the   *)
(* line-up, none of whom has reached the target.                           *)
(***************************************************************************)
MatchShape(m, line, id) ==
  \/ m = NoMatch
  \/ /\ m = [id |-> m.id, players |-> m.players, ko |-> m.ko, sent |-> m.sent,
             garbage |-> m.garbage, nextSeq |-> m.nextSeq]
     /\ m.id = id /\ m.players = line /\ Len(line) = ActiveCount
     /\ m.ko \in [ToSet(line) -> 0 .. KoTarget - 1]
     /\ m.sent \in [ToSet(line) -> Nat]
     /\ m.garbage \in [ToSet(line) -> Nat]
     /\ m.nextSeq \in Nat

(***************************************************************************)
(* The match on the server is the last that was started, and the line-up   *)
(* is that of the room.                                                    *)
(***************************************************************************)
MatchSound == lastId \in Nat \ {0} /\ MatchShape(match, active, lastId)

(* A full line-up: different players, as many as a match takes. *)
LineOf(players) ==
  /\ players \in Seq(Players) /\ Len(players) = ActiveCount
  /\ \A i, j \in DOMAIN players : players[i] = players[j] => i = j

(***************************************************************************)
(* A MatchStart on its way: its match has been started, its players are a  *)
(* line-up.                                                                *)
(***************************************************************************)
IsStart(m) == m.type = "MatchStart" /\ m.match \in 1 .. lastId /\ LineOf(m.players)

(* A MatchEnd on its way. *)
IsEnd(m) == m.type = "MatchEnd" /\ m.match \in 1 .. lastId

(* A GarbageAssigned or RespawnAssigned of a match that has been started. *)
IsAssigned(m) ==
  /\ m.type \in AssignedType /\ m.match \in 1 .. lastId /\ m.target \in Players
  /\ m.seq \in Nat /\ m.lines \in Nat /\ m.canceled \in Nat

(***************************************************************************)
(* Each datagram is a report to the server, or one of the four messages of *)
(* the server to a player.                                                 *)
(***************************************************************************)
WireSound ==
  \A d \in wire :
    \/ d.to = Server /\ d.msg \in ReportSet
    \/ d.to \in Players /\ (IsStart(d.msg) \/ IsEnd(d.msg) \/ IsAssigned(d.msg))

(***************************************************************************)
(* What is resent is assigned, and what has been handled came from         *)
(* players, in matches that have been started.                             *)
(***************************************************************************)
ChannelSound ==
  /\ \A m \in pending : IsAssigned(m)
  /\ received \subseteq [sender : Players, match : 1 .. lastId, seq : Nat]

(* The versus session of a client when id matches have been started. *)
ClientState(id) ==
  [match : 0 .. id, opponent : Players \union {NoPlayer}, running : BOOLEAN,
   alive : BOOLEAN, garbage : 0 .. MaxGarbage, seq : Nat]

(***************************************************************************)
(* The clients: a session knows its opponent, and plays a match that has   *)
(* been started.                                                           *)
(***************************************************************************)
ClientSound ==
  /\ client \in [Players -> ClientState(lastId)]
  /\ \A p \in Players :
       /\ client[p].match # 0 => client[p].opponent \in Players
       /\ client[p].running => client[p].match # 0

(***************************************************************************)
(* Whoever plays the running match, reports in it or is still to learn of  *)
(* it is in its line-up: the room does not change under the match.         *)
(***************************************************************************)
InLine ==
  /\ \A p \in Players : Running(client[p].match) => p \in ToSet(active)
  /\ \A d \in wire : d.to = Server /\ Running(d.msg.match) => d.msg.sender \in ToSet(active)
  /\ \A d \in wire :
       d.msg.type = "MatchStart" /\ Running(d.msg.match) => d.to \in ToSet(active)

(***************************************************************************)
(* The sequence numbers that the server has handled or will find on the    *)
(* wire.                                                                   *)
(***************************************************************************)
Used == received \union {Channel!Key(d.msg) : d \in {e \in wire : e.to = Server}}

(***************************************************************************)
(* A number of a client means one report: reports with one number are one; *)
(* the client goes on above all numbers it has used in its match; and a    *)
(* MatchStart that is still to arrive is the only one and opens a match in *)
(* which its addressee has used no number, so that numbering from 0 again  *)
(* is safe.                                                                *)
(***************************************************************************)
NumbersFresh ==
  /\ \A d, e \in wire :
       d.to = Server /\ e.to = Server /\ Channel!Key(d.msg) = Channel!Key(e.msg)
         => d.msg = e.msg
  /\ \A k \in Used : k.match = client[k.sender].match => k.seq < client[k.sender].seq
  /\ \A d \in wire : d.msg.type = "MatchStart" =>
       /\ client[d.to].match # d.msg.match
       /\ \A k \in Used : ~(k.sender = d.to /\ k.match = d.msg.match)
       /\ \A e \in wire : e.msg.type = "MatchStart" /\ e.to = d.to /\ e.msg.match = d.msg.match
                            => e = d

(* The numbered messages of the server, waiting for a resend or sent. *)
Outgoing == pending \union Sent(AssignedType)

(***************************************************************************)
(* A number of the server means one message: those of the running match    *)
(* are below the next number, and no two messages share one in any match.  *)
(***************************************************************************)
AssignedFresh ==
  \A m \in Outgoing :
    /\ Running(m.match) => m.seq < match.nextSeq
    /\ \A n \in Outgoing : m.match = n.match /\ m.seq = n.seq => m = n

(* A MatchEnd that was sent tells the truth. *)
EndsAreOver == \A d \in wire : d.msg.type = "MatchEnd" => ~Running(d.msg.match)

(***************************************************************************)
(* The inductive invariant. StoppedMeansOver needs EndsAreOver, which      *)
(* needs the numbers of the matches in their order (MatchSound,            *)
(* WireSound); EachHasItsNumber is part of AssignedFresh; TypeOK needs     *)
(* InLine, because a report by somebody outside the line-up would score    *)
(* where there is no count.                                                *)
(***************************************************************************)
IInv ==
  /\ RoomSound /\ MatchSound /\ ClientSound /\ WireSound /\ ChannelSound
  /\ InLine /\ NumbersFresh /\ AssignedFresh /\ EndsAreOver /\ StoppedMeansOver

-----------------------------------------------------------------------------
(* The room. *)

(***************************************************************************)
(* The room of the duel is that of QueueManagerProofs: both name the same  *)
(* invariant and the same rotation, which INSTANCE keeps as different      *)
(* operators.                                                              *)
(***************************************************************************)
LEMMA SameRoom ==
  /\ QP!IInv <=> RoomSound
  /\ QP!IInv' <=> RoomSound'
  /\ \A w : QP!RotateAfterMatch(w) <=> Queue!RotateAfterMatch(w)
<1>1. /\ QP!IInv <=> RoomSound
      /\ QP!IInv' <=> RoomSound'
  BY DEF RoomSound, QP!IInv, QP!TypeOK, Queue!TypeOK, QP!NoIdlePlace, Queue!NoIdlePlace,
         QP!NobodyTwice, Queue!NobodyTwice, QP!IsInjective, Queue!IsInjective
<1>2. \A w : QP!RotateAfterMatch(w) <=> Queue!RotateAfterMatch(w)
  BY DEF QP!RotateAfterMatch, QP!Kept, Queue!RotateAfterMatch, Queue!Kept,
         QP!ToSet, Queue!ToSet, QP!PromoteWaiting, Queue!PromoteWaiting,
         QP!Promoted, Queue!Promoted
<1> QED  BY <1>1, <1>2

(* The assumptions on the room follow from those of the duel. *)
LEMMA QueueAssumptions ==
  /\ ActiveCount \in Nat \ {0} /\ WaitingCapacity \in Nat
  /\ KoTarget \in Nat \ {0}
  /\ NoPlayer \notin Players /\ Server \notin Players
  /\ QP!CapacityAssumption /\ QP!NoPlayerAssumption
BY DuelAssumption DEF QP!CapacityAssumption, QP!NoPlayerAssumption

(***************************************************************************)
(* The rotation at the end of a match keeps the room sound, now and for    *)
(* the lemmas that look one step ahead.                                    *)
(***************************************************************************)
LEMMA RotateKeepsRoom ==
  ASSUME RoomSound, NEW w \in Players \union {NoPlayer}, Queue!RotateAfterMatch(w)
  PROVE  RoomSound'
<1>1. QP!IInv /\ QP!RotateAfterMatch(w)
  BY SameRoom
<1>2. QP!Next
  BY <1>1 DEF QP!Next
<1>3. QP!IInv'
  BY <1>1, <1>2, QueueAssumptions, QP!NextStep
<1> QED  BY <1>3, SameRoom

(* The active list of a sound room, when it is full, is a line-up. *)
LEMMA LineUpIs ==
  /\ RoomSound => /\ active \in Seq(Players) /\ Len(active) <= ActiveCount
                  /\ Len(active) = ActiveCount => LineOf(active)
  /\ RoomSound' => /\ active' \in Seq(Players) /\ Len(active') <= ActiveCount
                   /\ Len(active') = ActiveCount => LineOf(active')
<1>1. ASSUME NEW a \in Seq(Players), NEW w \in Seq(Players), Queue!IsInjective(a \o w)
      PROVE  \A i, j \in DOMAIN a : a[i] = a[j] => i = j
  <2>1. /\ DOMAIN a = 1 .. Len(a) /\ Len(a) \in Nat
        /\ DOMAIN w = 1 .. Len(w) /\ Len(w) \in Nat
    BY LenProperties
  <2> DEFINE l == a \o w
  <2>2. /\ l \in Seq(Players) /\ Len(l) = Len(a) + Len(w)
        /\ \A i \in 1 .. Len(a) + Len(w) : l[i] = IF i <= Len(a) THEN a[i] ELSE w[i - Len(a)]
    BY ConcatProperties
  <2>3. DOMAIN l = 1 .. Len(a) + Len(w)
    BY <2>2, LenProperties
  <2>4. \A i, j \in DOMAIN l : l[i] = l[j] => i = j
    BY <1>1 DEF Queue!IsInjective
  <2> HIDE DEF l
  <2> QED  BY <2>1, <2>2, <2>3, <2>4
<1>2. RoomSound => /\ active \in Seq(Players) /\ waiting \in Seq(Players)
                   /\ Len(active) <= ActiveCount /\ Queue!IsInjective(active \o waiting)
  BY DEF RoomSound, Queue!TypeOK, Queue!NobodyTwice
<1>3. RoomSound' => /\ active' \in Seq(Players) /\ waiting' \in Seq(Players)
                    /\ Len(active') <= ActiveCount /\ Queue!IsInjective(active' \o waiting')
  BY DEF RoomSound, Queue!TypeOK, Queue!NobodyTwice
<1> QED  BY <1>1, <1>2, <1>3 DEF LineOf

(***************************************************************************)
(* A line-up has players only, and, unless it is of one, an opponent for   *)
(* everybody.                                                              *)
(***************************************************************************)
LEMMA LineHasPlayers ==
  ASSUME NEW line, LineOf(line)
  PROVE  /\ Len(line) \in Nat /\ DOMAIN line = 1 .. Len(line) /\ ToSet(line) \subseteq Players
         /\ ActiveCount # 1 => \A p : \E q \in ToSet(line) : q # p
<1>1. line \in Seq(Players) /\ Len(line) = ActiveCount
      /\ \A i, j \in DOMAIN line : line[i] = line[j] => i = j
  BY DEF LineOf
<1>2. Len(line) \in Nat /\ DOMAIN line = 1 .. Len(line) /\ ToSet(line) \subseteq Players
  BY <1>1, LenProperties, ElementOfSeq DEF ToSet
<1>3. ASSUME ActiveCount # 1
      PROVE  \A p : \E q \in ToSet(line) : q # p
  <2>1. 1 \in DOMAIN line /\ 2 \in DOMAIN line /\ line[1] # line[2]
    BY <1>1, <1>2, <1>3, QueueAssumptions
  <2> QED  BY <2>1 DEF ToSet
<1> QED  BY <1>2, <1>3

-----------------------------------------------------------------------------
(* Datagrams. *)

(* A datagram carries its message to one of the recipients. *)
LEMMA InDatagrams ==
  ASSUME NEW ms, NEW d \in Datagrams(ms)
  PROVE  d.msg \in ms /\ d.to \in Recipients(d.msg) /\ d = [to |-> d.to, msg |-> d.msg]
<1>1. PICK m \in ms : \E p \in Recipients(m) : d = [to |-> p, msg |-> m]
  BY DEF Datagrams
<1>2. PICK p \in Recipients(m) : d = [to |-> p, msg |-> m]
  BY <1>1
<1>3. d.to = p /\ d.msg = m
  BY <1>2
<1> QED  BY <1>2, <1>3

(* The two ways to say that a message is about the running match. *)
LEMMA CurrentIsRunning ==
  /\ \A m : Current(m) <=> Running(m.match)
  /\ \A id : Current([match |-> id]) <=> Running(id)
BY DEF Current, Running

(***************************************************************************)
(* The numbers in use are those of players in matches that have been       *)
(* started.                                                                *)
(***************************************************************************)
LEMMA UsedKeys ==
  ASSUME WireSound, ChannelSound
  PROVE  Used \subseteq [sender : Players, match : 1 .. lastId, seq : Nat]
<1> SUFFICES ASSUME NEW d \in wire, d.to = Server
             PROVE  Channel!Key(d.msg) \in [sender : Players, match : 1 .. lastId, seq : Nat]
  BY DEF Used, ChannelSound
<1>1. d.msg \in ReportSet
  BY QueueAssumptions DEF WireSound
<1>2. d.msg.sender \in Players /\ d.msg.match \in 1 .. lastId /\ d.msg.seq \in Nat
  BY <1>1 DEF ReportSet
<1> QED  BY <1>2 DEF Channel!Key

(***************************************************************************)
(* The key of a report: two reports are taken for copies of one when they  *)
(* agree in the sender, the match and the number.                          *)
(***************************************************************************)
LEMMA KeysAre ==
  ASSUME NEW m, NEW n
  PROVE  /\ Channel!Key(m).sender = m.sender /\ Channel!Key(m).match = m.match
         /\ Channel!Key(m).seq = m.seq
         /\ Channel!Key(m) = Channel!Key(n) <=>
              m.sender = n.sender /\ m.match = n.match /\ m.seq = n.seq
BY DEF Channel!Key

-----------------------------------------------------------------------------
(* What every step of the server does. *)

(***************************************************************************)
(* A MatchStart the server sends in this step: of the match it has just    *)
(* started, to its line-up.                                                *)
(***************************************************************************)
NewStart(m) ==
  /\ m.type = "MatchStart" /\ m.match = lastId' /\ lastId' > lastId
  /\ LineOf(m.players) /\ ToSet(m.players) = ToSet(active')

(* A MatchEnd the server sends in this step: its match is over now. *)
NewEnd(m) == m.type = "MatchEnd" /\ m.match \in 1 .. lastId /\ ~Running(m.match)'

(***************************************************************************)
(* Garbage or a respawn the server assigns in this step: it takes a number *)
(* that was free.                                                          *)
(***************************************************************************)
NewAssigned(m) ==
  /\ IsAssigned(m) /\ Running(m.match) /\ m.seq >= match.nextSeq
  /\ Running(m.match)' => m.seq < match'.nextSeq

(***************************************************************************)
(* The room and the match stay sound, and a match that runs after the step *)
(* was running before it, with the same line-up and numbers that only      *)
(* grow.                                                                   *)
(***************************************************************************)
Progress ==
  /\ RoomSound' /\ MatchSound' /\ lastId' >= lastId
  /\ \A id \in 0 .. lastId :
       Running(id)' =>
         Running(id) /\ ToSet(active') = ToSet(active) /\ match'.nextSeq >= match.nextSeq

(***************************************************************************)
(* What every step of the server does, and all that the invariant has to   *)
(* know of it: it sends ms, of which each message is a resend or new,      *)
(* remembers only what it has read, and touches no client.                 *)
(***************************************************************************)
ServerMoves(ms) ==
  /\ Progress
  /\ client' = client /\ wire' \subseteq wire \union Datagrams(ms)
  /\ received' \subseteq Used
  /\ pending' \subseteq pending \union {m \in ms : m.type \in AssignedType}
  /\ \A m \in ms : m \in pending \/ NewStart(m) \/ NewEnd(m) \/ NewAssigned(m)
  /\ \A m, n \in ms : m.type = "MatchStart" /\ n.type = "MatchStart" => m = n
  /\ \A m, n \in ms :
       /\ m.type \in AssignedType /\ n.type \in AssignedType
       /\ m.match = n.match /\ m.seq = n.seq
       => m = n

(* What a step of the server puts on the wire, and to whom. *)
LEMMA NewOnWire ==
  ASSUME IInv, NEW ms, ServerMoves(ms), NEW d \in Datagrams(ms)
  PROVE  /\ d.to \in Players /\ d.to # Server /\ d.msg \in ms
         /\ d = [to |-> d.to, msg |-> d.msg]
         /\ \/ d.msg \in pending /\ IsAssigned(d.msg)
            \/ NewStart(d.msg) /\ d.to \in ToSet(active')
            \/ NewEnd(d.msg)
            \/ NewAssigned(d.msg)
<1>1. d.msg \in ms /\ d.to \in Recipients(d.msg) /\ d = [to |-> d.to, msg |-> d.msg]
  BY InDatagrams
<1>2. d.msg \in pending \/ NewStart(d.msg) \/ NewEnd(d.msg) \/ NewAssigned(d.msg)
  BY <1>1 DEF ServerMoves
<1>3. CASE d.msg \in pending \/ NewAssigned(d.msg)
  <2>1. IsAssigned(d.msg)
    BY <1>3 DEF IInv, ChannelSound, NewAssigned
  <2>2. d.to = d.msg.target
    BY <1>1, <2>1 DEF Recipients, IsAssigned, AssignedType
  <2> QED  BY <1>1, <1>3, <2>1, <2>2, QueueAssumptions DEF IsAssigned
<1>4. CASE NewStart(d.msg)
  <2>1. d.to \in ToSet(d.msg.players)
    BY <1>1, <1>4 DEF Recipients, NewStart
  <2> QED  BY <1>1, <1>4, <2>1, LineHasPlayers, QueueAssumptions DEF NewStart
<1>5. CASE NewEnd(d.msg)
  <2>1. d.to \in ToSet(active)
    BY <1>1, <1>5 DEF Recipients, NewEnd
  <2>2. ToSet(active) \subseteq Players
    BY LineUpIs, LenProperties, ElementOfSeq DEF IInv, ToSet
  <2> QED  BY <1>1, <1>5, <2>1, <2>2, QueueAssumptions
<1> QED  BY <1>2, <1>3, <1>4, <1>5

(***************************************************************************)
(* After a step of the server, clients, wire and channel are of their      *)
(* types.                                                                  *)
(***************************************************************************)
LEMMA ServerStepTypes ==
  ASSUME IInv, NEW ms, ServerMoves(ms)
  PROVE  ClientSound' /\ WireSound' /\ ChannelSound'
<1>1. lastId \in Nat \ {0} /\ lastId' \in Nat \ {0} /\ lastId' >= lastId
  BY DEF IInv, MatchSound, ServerMoves, Progress
<1>2. 0 .. lastId \subseteq 0 .. lastId' /\ 1 .. lastId \subseteq 1 .. lastId'
  BY <1>1
<1>3. \A m : IsAssigned(m) => IsAssigned(m)'
  BY <1>2 DEF IsAssigned
<1>4. ClientSound'
  <2>1. \A c \in ClientState(lastId) : c \in ClientState(lastId')
    BY <1>2 DEF ClientState
  <2>2. client \in [Players -> ClientState(lastId)] /\ client' = client
    BY DEF IInv, ClientSound, ServerMoves
  <2>3. client' \in [Players -> ClientState(lastId')]
    <3> DEFINE S == ClientState(lastId)
               T == ClientState(lastId')
    <3> HIDE DEF S, T
    <3> SUFFICES client' \in [Players -> T]
      BY DEF T
    <3>1. client \in [Players -> S] /\ \A c \in S : c \in T
      BY <2>1, <2>2 DEF S, T
    <3> QED  BY <2>2, <3>1
  <2> QED  BY <2>2, <2>3 DEF IInv, ClientSound
<1>5. WireSound'
  <2> SUFFICES ASSUME NEW d \in wire'
               PROVE  \/ d.to = Server /\ d.msg \in ReportSet'
                      \/ /\ d.to \in Players
                         /\ IsStart(d.msg)' \/ IsEnd(d.msg)' \/ IsAssigned(d.msg)'
    BY DEF WireSound
  <2>1. CASE d \in wire
    <3>1. \/ d.to = Server /\ d.msg \in ReportSet
          \/ d.to \in Players /\ (IsStart(d.msg) \/ IsEnd(d.msg) \/ IsAssigned(d.msg))
      BY <2>1 DEF IInv, WireSound
    <3>2. d.msg \in ReportSet => d.msg \in ReportSet'
      BY <1>2 DEF ReportSet
    <3>3. IsStart(d.msg) => IsStart(d.msg)'
      BY <1>2 DEF IsStart
    <3>4. IsEnd(d.msg) => IsEnd(d.msg)'
      BY <1>2 DEF IsEnd
    <3> QED  BY <1>3, <3>1, <3>2, <3>3, <3>4
  <2>2. CASE d \in Datagrams(ms)
    <3>1. /\ d.to \in Players
          /\ \/ IsAssigned(d.msg)
             \/ NewStart(d.msg)
             \/ NewEnd(d.msg)
      BY <2>2, NewOnWire DEF NewAssigned
    <3>2. NewStart(d.msg) => IsStart(d.msg)'
      BY <1>1 DEF NewStart, IsStart
    <3>3. NewEnd(d.msg) => IsEnd(d.msg)'
      BY <1>2 DEF NewEnd, IsEnd
    <3> QED  BY <1>3, <3>1, <3>2, <3>3
  <2> QED  BY <2>1, <2>2 DEF ServerMoves
<1>6. ChannelSound'
  <2>1. received' \subseteq [sender : Players, match : 1 .. lastId', seq : Nat]
    <3>1. Used \subseteq [sender : Players, match : 1 .. lastId, seq : Nat]
      BY UsedKeys DEF IInv
    <3>2. \A k \in [sender : Players, match : 1 .. lastId, seq : Nat] :
             k \in [sender : Players, match : 1 .. lastId', seq : Nat]
      BY <1>2
    <3> QED  BY <3>1, <3>2 DEF ServerMoves
  <2>2. ASSUME NEW m \in pending'
        PROVE  IsAssigned(m)'
    <3>1. CASE m \in pending
      BY <1>3, <3>1 DEF IInv, ChannelSound
    <3>2. CASE m \in ms /\ m.type \in AssignedType
      <4>1. NewAssigned(m) \/ m \in pending
        BY <3>2 DEF ServerMoves, NewStart, NewEnd, AssignedType
      <4> QED  BY <1>3, <4>1 DEF IInv, ChannelSound, NewAssigned
    <3> QED  BY <3>1, <3>2 DEF ServerMoves
  <2> QED  BY <2>1, <2>2 DEF ChannelSound
<1> QED  BY <1>4, <1>5, <1>6

(* Everything anybody knows is about a match that has been started. *)
LEMMA OldMatches ==
  ASSUME IInv
  PROVE  /\ \A p \in Players : client[p].match \in 0 .. lastId
         /\ \A d \in wire : d.msg.match \in 1 .. lastId /\ d.msg.match \in 0 .. lastId
         /\ \A d \in wire : d.msg.type = "MatchStart" =>
              d.to \in Players /\ d.to # Server /\ LineOf(d.msg.players)
         /\ \A d \in wire : d.to = Server => d.msg \in ReportSet
         /\ \A m \in Outgoing : IsAssigned(m) /\ m.match \in 0 .. lastId
         /\ \A k \in Used : k.sender \in Players /\ k.match \in 1 .. lastId /\ k.seq \in Nat
<1>1. \A p \in Players : client[p].match \in 0 .. lastId
  BY DEF IInv, ClientSound, ClientState
<1>2. ASSUME NEW d \in wire
      PROVE  /\ d.msg.match \in 1 .. lastId /\ d.msg.match \in 0 .. lastId
             /\ d.msg.type = "MatchStart" =>
                  d.to \in Players /\ d.to # Server /\ LineOf(d.msg.players)
             /\ d.to = Server => d.msg \in ReportSet
             /\ d.msg.type \in AssignedType => IsAssigned(d.msg)
  <2>1. \/ d.to = Server /\ d.msg \in ReportSet
        \/ d.to \in Players /\ (IsStart(d.msg) \/ IsEnd(d.msg) \/ IsAssigned(d.msg))
    BY DEF IInv, WireSound
  <2>2. d.msg \in ReportSet =>
          d.msg.match \in 1 .. lastId /\ d.msg.type \in {"AttackReported", "KOReported"}
    BY DEF ReportSet, ReportType
  <2> QED  BY <2>1, <2>2, QueueAssumptions DEF IsStart, IsEnd, IsAssigned, AssignedType
<1>3. \A m \in Outgoing : IsAssigned(m) /\ m.match \in 0 .. lastId
  BY <1>2 DEF Outgoing, Sent, IInv, ChannelSound, IsAssigned
<1>4. Used \subseteq [sender : Players, match : 1 .. lastId, seq : Nat]
  BY UsedKeys DEF IInv
<1> QED  BY <1>1, <1>2, <1>3, <1>4

(***************************************************************************)
(* A step of the server takes nobody out of the line-up of a running       *)
(* match, sends no MatchEnd of one, and so stops no client too early.      *)
(***************************************************************************)
LEMMA ServerStepLine ==
  ASSUME IInv, NEW ms, ServerMoves(ms)
  PROVE  InLine' /\ EndsAreOver' /\ StoppedMeansOver'
<1>1. \A id \in 0 .. lastId : Running(id)' => Running(id) /\ ToSet(active') = ToSet(active)
  BY DEF ServerMoves, Progress
<1>2. client' = client /\ wire' \subseteq wire \union Datagrams(ms)
  BY DEF ServerMoves
<1>3. ASSUME NEW p \in Players, NEW id, id = client'[p].match, Running(id)'
      PROVE  p \in ToSet(active')
  <2>1. id = client[p].match /\ id \in 0 .. lastId
    BY <1>2, <1>3, OldMatches
  <2> QED  BY <1>1, <1>3, <2>1 DEF IInv, InLine
<1>4. ASSUME NEW d \in wire', d.to = Server, Running(d.msg.match)'
      PROVE  d.msg.sender \in ToSet(active')
  <2>1. d \in wire
    BY <1>2, <1>4, NewOnWire
  <2>2. d.msg.match \in 0 .. lastId
    BY <2>1, OldMatches
  <2> QED  BY <1>1, <1>4, <2>1, <2>2 DEF IInv, InLine
<1>5. ASSUME NEW d \in wire', d.msg.type = "MatchStart", Running(d.msg.match)'
      PROVE  d.to \in ToSet(active')
  <2>1. CASE d \in wire
    <3>1. d.msg.match \in 0 .. lastId
      BY <2>1, OldMatches
    <3> QED  BY <1>1, <1>5, <2>1, <3>1 DEF IInv, InLine
  <2>2. CASE d \in Datagrams(ms)
    BY <1>5, <2>2, NewOnWire DEF NewEnd, NewAssigned, IsAssigned, AssignedType
  <2> QED  BY <1>2, <2>1, <2>2
<1>6. ASSUME NEW d \in wire', d.msg.type = "MatchEnd"
      PROVE  ~Running(d.msg.match)'
  <2>1. CASE d \in wire
    <3>1. d.msg.match \in 0 .. lastId
      BY <2>1, OldMatches
    <3> QED  BY <1>1, <1>6, <2>1, <3>1 DEF IInv, EndsAreOver
  <2>2. CASE d \in Datagrams(ms)
    BY <1>6, <2>2, NewOnWire DEF NewStart, NewEnd, NewAssigned, IsAssigned, AssignedType
  <2> QED  BY <1>2, <2>1, <2>2
<1>7. StoppedMeansOver'
  <2> SUFFICES ASSUME NEW p \in Players, client[p].match # 0, ~client[p].running
               PROVE  ~Running(client[p].match)'
    BY <1>2, CurrentIsRunning DEF StoppedMeansOver, Current, Running
  <2>1. PICK id \in 0 .. lastId : id = client[p].match
    BY OldMatches
  <2>2. ~Running(id)
    BY <2>1 DEF IInv, StoppedMeansOver, Current, Running
  <2>3. ~Running(id)'
    BY <1>1, <2>2
  <2> QED  BY <1>2, <2>1, <2>3 DEF Running
<1>8. InLine'
  <2>1. \A p \in Players : \A id : id = client'[p].match /\ Running(id)' => p \in ToSet(active')
    BY <1>3
  <2>2. \A p \in Players :
           (match' # NoMatch /\ client'[p].match = match'.id) => p \in ToSet(active')
    BY <2>1 DEF Running
  <2> QED  BY <1>4, <1>5, <2>2 DEF InLine, Running
<1>9. EndsAreOver'
  BY <1>6 DEF EndsAreOver
<1> QED  BY <1>7, <1>8, <1>9

(***************************************************************************)
(* A step of the server uses up no number of a client, and what it starts  *)
(* is a match no client has a number in.                                   *)
(***************************************************************************)
LEMMA ServerStepNumbers ==
  ASSUME IInv, NEW ms, ServerMoves(ms)
  PROVE  NumbersFresh'
<1>1. /\ client' = client /\ wire' \subseteq wire \union Datagrams(ms)
      /\ received' \subseteq Used
  BY DEF ServerMoves
<1>2. \A d \in wire' : d.to = Server => d \in wire
  BY <1>1, NewOnWire
<1>3. Used' \subseteq Used
  BY <1>1, <1>2 DEF Used, Channel!Key
<1>4. ASSUME NEW d \in wire', NEW e \in wire', d.to = Server, e.to = Server,
             Channel!Key(d.msg) = Channel!Key(e.msg)
      PROVE  d.msg = e.msg
  BY <1>2, <1>4 DEF IInv, NumbersFresh
<1>5. \A k \in Used' : k.match = client'[k.sender].match => k.seq < client'[k.sender].seq
  BY <1>1, <1>3 DEF IInv, NumbersFresh
<1>6. ASSUME NEW d \in wire', d.msg.type = "MatchStart"
      PROVE  /\ client'[d.to].match # d.msg.match
             /\ \A k \in Used' : ~(k.sender = d.to /\ k.match = d.msg.match)
             /\ \A e \in wire' :
                  e.msg.type = "MatchStart" /\ e.to = d.to /\ e.msg.match = d.msg.match => e = d
  <2> DEFINE Fresh(x) == x \in Datagrams(ms) /\ NewStart(x.msg) /\ x.to \in Players
                         /\ x.msg \in ms /\ x = [to |-> x.to, msg |-> x.msg]
  <2>1. \A x \in wire' : x.msg.type = "MatchStart" => x \in wire \/ Fresh(x)
    <3> SUFFICES ASSUME NEW x \in Datagrams(ms), x.msg.type = "MatchStart"
                 PROVE  Fresh(x)
      BY <1>1
    <3>1. /\ x.to \in Players /\ x.msg \in ms /\ x = [to |-> x.to, msg |-> x.msg]
          /\ IsAssigned(x.msg) \/ NewStart(x.msg) \/ NewEnd(x.msg)
      BY NewOnWire DEF NewAssigned
    <3> QED  BY <3>1 DEF NewEnd, IsAssigned, AssignedType
  <2>2. \A x \in wire : x.msg.match <= lastId
    BY OldMatches DEF IInv, MatchSound
  <2>3. \A x : Fresh(x) => x.msg.match > lastId /\ x.msg.match = lastId'
    BY DEF NewStart
  <2>4. lastId \in Nat /\ lastId' \in Nat
    BY DEF IInv, MatchSound, ServerMoves, Progress
  <2>5. CASE d \in wire
    <3>1. /\ client[d.to].match # d.msg.match
          /\ \A k \in Used : ~(k.sender = d.to /\ k.match = d.msg.match)
          /\ \A e \in wire :
               e.msg.type = "MatchStart" /\ e.to = d.to /\ e.msg.match = d.msg.match => e = d
      BY <1>6, <2>5 DEF IInv, NumbersFresh
    <3>2. \A x : Fresh(x) => x.msg.match # d.msg.match
      <4>1. d.msg.match \in 1 .. lastId
        BY <2>5, OldMatches
      <4> QED  BY <2>3, <2>4, <4>1
    <3> HIDE DEF Fresh
    <3> QED  BY <1>1, <1>3, <2>1, <3>1, <3>2
  <2>6. CASE Fresh(d)
    <3>1. d.to \in Players /\ d.msg.match = lastId' /\ lastId' > lastId
      BY <2>6, <2>3
    <3>2. client[d.to].match # d.msg.match
      BY <2>4, <3>1, OldMatches
    <3>3. \A k \in Used : k.match # d.msg.match
      BY <2>4, <3>1, OldMatches
    <3>4. \A x \in wire : x.msg.match # d.msg.match
      BY <2>4, <3>1, OldMatches
    <3>5. \A x : Fresh(x) /\ x.to = d.to => x = d
      <4> SUFFICES ASSUME NEW x, Fresh(x), x.to = d.to
                   PROVE  x = d
        OBVIOUS
      <4>1. x.msg = d.msg
        BY <2>6 DEF ServerMoves, NewStart
      <4>2. x = [to |-> x.to, msg |-> x.msg] /\ d = [to |-> d.to, msg |-> d.msg]
        BY <2>6
      <4> HIDE DEF Fresh
      <4> QED  BY <4>1, <4>2
    <3> HIDE DEF Fresh
    <3> QED  BY <1>1, <1>3, <2>1, <3>2, <3>3, <3>4, <3>5
  <2> HIDE DEF Fresh
  <2> QED  BY <1>6, <2>1, <2>5, <2>6
<1> QED  BY <1>4, <1>5, <1>6 DEF NumbersFresh

(***************************************************************************)
(* The numbers a step of the server assigns are new, and no two of its     *)
(* messages share one.                                                     *)
(***************************************************************************)
LEMMA ServerStepAssigned ==
  ASSUME IInv, NEW ms, ServerMoves(ms)
  PROVE  AssignedFresh'
<1>1. /\ wire' \subseteq wire \union Datagrams(ms)
      /\ pending' \subseteq pending \union {m \in ms : m.type \in AssignedType}
      /\ \A id \in 0 .. lastId :
           Running(id)' => Running(id) /\ match'.nextSeq >= match.nextSeq
  BY DEF ServerMoves, Progress
<1>2. ASSUME NEW m \in Outgoing'
      PROVE  m \in Outgoing \/ (m \in ms /\ NewAssigned(m))
  <2>1. \/ m \in pending
        \/ m \in ms /\ m.type \in AssignedType
        \/ \E d \in wire : d.msg = m /\ m.type \in AssignedType
        \/ \E d \in Datagrams(ms) : d.msg = m /\ m.type \in AssignedType
    BY <1>1 DEF Outgoing, Sent
  <2>2. (\E d \in Datagrams(ms) : d.msg = m) => m \in ms
    BY InDatagrams
  <2>3. m \in ms /\ m.type \in AssignedType => m \in pending \/ NewAssigned(m)
    BY DEF ServerMoves, NewStart, NewEnd, AssignedType
  <2> QED  BY <2>1, <2>2, <2>3 DEF Outgoing, Sent
<1>3. \A m \in Outgoing : Running(m.match) => m.seq < match.nextSeq /\ match.nextSeq \in Nat
  BY DEF IInv, AssignedFresh, MatchSound, MatchShape, Running
<1>4. \A m \in Outgoing : m.match \in 0 .. lastId /\ m.seq \in Nat
  BY OldMatches DEF IsAssigned
<1>5. ASSUME NEW m \in Outgoing', Running(m.match)'
      PROVE  m.seq < match'.nextSeq
  <2>1. CASE m \in Outgoing
    <3>1. Running(m.match) /\ match'.nextSeq >= match.nextSeq
      BY <1>1, <1>4, <1>5, <2>1
    <3>2. match'.nextSeq \in Nat
      BY <1>5 DEF ServerMoves, Progress, MatchSound, MatchShape, Running
    <3> QED  BY <1>3, <1>4, <2>1, <3>1, <3>2
  <2>2. CASE NewAssigned(m)
    BY <1>5, <2>2 DEF NewAssigned
  <2> QED  BY <1>2, <2>1, <2>2
<1>6. ASSUME NEW m \in Outgoing, NEW n, NewAssigned(n), m.match = n.match
      PROVE  m.seq # n.seq
  BY <1>3, <1>4, <1>6 DEF NewAssigned, IsAssigned
<1>7. ASSUME NEW m \in Outgoing', NEW n \in Outgoing', m.match = n.match, m.seq = n.seq
      PROVE  m = n
  <2>1. CASE m \in Outgoing /\ n \in Outgoing
    BY <1>7, <2>1 DEF IInv, AssignedFresh
  <2>2. CASE m \in ms /\ n \in ms /\ NewAssigned(m) /\ NewAssigned(n)
    BY <1>7, <2>2 DEF ServerMoves, NewAssigned, IsAssigned
  <2> QED  BY <1>2, <1>6, <1>7, <2>1, <2>2
<1> QED  BY <1>5, <1>7 DEF AssignedFresh

(* The invariant survives every step of the server. *)
LEMMA ServerStep ==
  ASSUME IInv, NEW ms, ServerMoves(ms)
  PROVE  IInv'
BY ServerStepTypes, ServerStepLine, ServerStepNumbers, ServerStepAssigned
   DEF IInv, ServerMoves, Progress

-----------------------------------------------------------------------------
(* The steps of the server. *)

(* The match on the server, while there is one. *)
LEMMA MatchIs ==
  ASSUME IInv, match # NoMatch
  PROVE  /\ match = [id |-> match.id, players |-> match.players, ko |-> match.ko,
                     sent |-> match.sent, garbage |-> match.garbage, nextSeq |-> match.nextSeq]
         /\ match.id = lastId /\ lastId \in Nat \ {0}
         /\ match.players = active /\ LineOf(active) /\ ToSet(active) \subseteq Players
         /\ match.ko \in [ToSet(active) -> 0 .. KoTarget - 1]
         /\ match.sent \in [ToSet(active) -> Nat]
         /\ match.garbage \in [ToSet(active) -> Nat]
         /\ match.nextSeq \in Nat
         /\ Matches!InMatch = ToSet(active)
BY LineUpIs, LineHasPlayers
   DEF IInv, MatchSound, MatchShape, Matches!InMatch, Matches!Life!InMatch, ToSet,
       Matches!Life!ToSet

(* A step that leaves match and room alone is no more than a send. *)
LEMMA MatchKept ==
  ASSUME IInv, match' = match, active' = active, waiting' = waiting, lastId' = lastId
  PROVE  Progress
<1>1. RoomSound'
  BY DEF IInv, RoomSound, Queue!TypeOK, Queue!NoIdlePlace, Queue!NobodyTwice
<1>2. MatchSound'
  BY DEF IInv, MatchSound, MatchShape
<1>3. lastId \in Nat /\ (match # NoMatch => match.nextSeq \in Nat)
  BY DEF IInv, MatchSound, MatchShape
<1> QED  BY <1>1, <1>2, <1>3 DEF Progress, Running

(* A step that only counts leaves the match the same match. *)
LEMMA MatchGoesOn ==
  ASSUME IInv, match # NoMatch, active' = active, waiting' = waiting, lastId' = lastId,
         NEW ko \in [ToSet(active) -> 0 .. KoTarget - 1],
         NEW sent \in [ToSet(active) -> Nat], NEW garbage \in [ToSet(active) -> Nat],
         NEW nextSeq \in Nat, nextSeq >= match.nextSeq,
         match' = [id |-> match.id, players |-> match.players, ko |-> ko, sent |-> sent,
                   garbage |-> garbage, nextSeq |-> nextSeq]
  PROVE  Progress /\ (\A id : Running(id)' => Running(id)) /\ match'.nextSeq = nextSeq
<1>1. RoomSound'
  BY DEF IInv, RoomSound, Queue!TypeOK, Queue!NoIdlePlace, Queue!NobodyTwice
<1>2. /\ match'.id = match.id /\ match'.players = match.players /\ match'.ko = ko
      /\ match'.sent = sent /\ match'.garbage = garbage /\ match'.nextSeq = nextSeq
  OBVIOUS
<1>3. match' = [id |-> match'.id, players |-> match'.players, ko |-> match'.ko,
                sent |-> match'.sent, garbage |-> match'.garbage,
                nextSeq |-> match'.nextSeq]
  BY <1>2
<1>4. match.id = lastId /\ match.players = active /\ Len(active) = ActiveCount
      /\ lastId \in Nat \ {0}
  BY MatchIs DEF LineOf
<1>5. MatchShape(match', active, lastId)
  BY <1>2, <1>3, <1>4 DEF MatchShape
<1>6. MatchSound'
  BY <1>4, <1>5 DEF MatchSound, MatchShape
<1>7. \A id : Running(id)' => Running(id)
  BY <1>2 DEF Running
<1> QED  BY <1>1, <1>2, <1>4, <1>6, <1>7 DEF Progress

(***************************************************************************)
(* start_if_ready after the rotation: nothing, or a fresh match of the new *)
(* line-up with the next number.                                           *)
(***************************************************************************)
LEMMA NextMatchIs ==
  ASSUME RoomSound', lastId \in Nat, lastId' = lastId + Cardinality(StartOutputs)
  PROVE  /\ NextMatch = NoMatch => StartOutputs = {} /\ lastId' = lastId
         /\ NextMatch # NoMatch =>
              /\ StartOutputs = {Matches!MatchStart(NextMatch)} /\ lastId' = lastId + 1
              /\ LineOf(active') /\ MatchShape(NextMatch, active', lastId + 1)
              /\ NextMatch = Matches!MatchOf(lastId + 1, active')
<1>1. /\ active' \in Seq(Players) /\ Len(active') <= ActiveCount /\ Len(active') \in Nat
      /\ Len(active') = ActiveCount => LineOf(active')
  BY LineUpIs, LenProperties
<1>2. CASE NextMatch = NoMatch
  <2>1. StartOutputs = {}
    BY <1>2 DEF StartOutputs
  <2> QED  BY <1>2, <2>1, FS_EmptySet
<1>3. CASE NextMatch # NoMatch
  <2>1. StartOutputs = {Matches!MatchStart(NextMatch)}
    BY <1>3 DEF StartOutputs
  <2>2. lastId' = lastId + 1
    BY <2>1, FS_Singleton
  <2>3. ~(Len(active') < ActiveCount) /\ Len(active') = ActiveCount
    BY <1>1, <1>3, QueueAssumptions DEF NextMatch, Matches!StartIfReady
  <2>4. SubSeq(active', 1, ActiveCount) = active'
    BY <1>1, <2>3, SubSeqFull
  <2>5. NextMatch = Matches!MatchOf(lastId + 1, active')
    BY <2>3, <2>4 DEF NextMatch, Matches!StartIfReady
  <2> DEFINE nought == [p \in ToSet(active') |-> 0]
             m == [id |-> lastId + 1, players |-> active', ko |-> nought, sent |-> nought,
                   garbage |-> nought, nextSeq |-> 1]
  <2>6. NextMatch = m
    BY <2>5 DEF Matches!MatchOf, Matches!ToSet, ToSet
  <2>7. nought \in [ToSet(active') -> 0 .. KoTarget - 1] /\ nought \in [ToSet(active') -> Nat]
    BY QueueAssumptions
  <2> HIDE DEF nought
  <2>8. /\ m.id = lastId + 1 /\ m.players = active' /\ m.ko = nought /\ m.sent = nought
        /\ m.garbage = nought /\ m.nextSeq = 1
        /\ m = [id |-> m.id, players |-> m.players, ko |-> m.ko, sent |-> m.sent,
                garbage |-> m.garbage, nextSeq |-> m.nextSeq]
    OBVIOUS
  <2> HIDE DEF m
  <2>9. MatchShape(m, active', lastId + 1)
    BY <2>3, <2>7, <2>8 DEF MatchShape
  <2> QED  BY <1>1, <1>3, <2>1, <2>2, <2>3, <2>5, <2>6, <2>9
<1> QED  BY <1>2, <1>3

(***************************************************************************)
(* After the end of a match, neither it nor any match before it runs, and  *)
(* at most one MatchStart goes out.                                        *)
(***************************************************************************)
LEMMA MatchEnds ==
  ASSUME IInv, NEW winner \in Players \union {NoPlayer}, Rotate(winner), match' = NextMatch
  PROVE  /\ Progress /\ \A id \in 0 .. lastId : ~Running(id)'
         /\ \A m \in StartOutputs : NewStart(m)
         /\ \A m, n \in StartOutputs : m = n
<1>1. RoomSound'
  BY RotateKeepsRoom DEF IInv, Rotate
<1>2. lastId \in Nat \ {0} /\ lastId' = lastId + Cardinality(StartOutputs)
  BY DEF IInv, MatchSound, Rotate
<1>3. CASE NextMatch = NoMatch
  <2>1. StartOutputs = {} /\ lastId' = lastId
    BY <1>1, <1>2, <1>3, NextMatchIs
  <2>2. MatchSound'
    BY <1>2, <1>3, <2>1 DEF MatchSound, MatchShape
  <2> QED  BY <1>1, <1>2, <1>3, <2>1, <2>2 DEF Progress, Running
<1>4. CASE NextMatch # NoMatch
  <2>1. /\ StartOutputs = {Matches!MatchStart(NextMatch)} /\ lastId' = lastId + 1
        /\ LineOf(active') /\ MatchShape(match', active', lastId')
    BY <1>1, <1>2, <1>4, NextMatchIs
  <2>2. MatchSound'
    BY <1>2, <2>1 DEF MatchSound, MatchShape
  <2>3. match'.id = lastId' /\ match'.players = active'
    BY <1>4, <2>1 DEF MatchShape
  <2>4. \A id \in 0 .. lastId : ~Running(id)'
    BY <1>2, <2>1, <2>3 DEF Running
  <2> DEFINE m == Matches!MatchStart(NextMatch)
  <2>5. m.type = "MatchStart" /\ m.match = match'.id /\ m.players = match'.players
    BY DEF Matches!MatchStart
  <2> HIDE DEF m
  <2>6. NewStart(m)
    BY <1>2, <2>1, <2>3, <2>5 DEF NewStart
  <2>7. \A n \in StartOutputs : n = m
    BY <2>1 DEF m
  <2> QED  BY <1>1, <1>2, <2>1, <2>2, <2>4, <2>6, <2>7 DEF Progress
<1> QED  BY <1>3, <1>4

(* An answer takes at most the datagram that was read. *)
LEMMA AnsweredWire ==
  ASSUME NEW d, NEW ms, Answers(d, ms)
  PROVE  wire' \subseteq wire \union Datagrams(ms)
BY DEF Answers, Remaining

(***************************************************************************)
(* What the server reads is a report; one about the running match is from  *)
(* a player of its line-up.                                                *)
(***************************************************************************)
LEMMA ReportIs ==
  ASSUME IInv, NEW d \in wire, d.to = Server
  PROVE  /\ d.msg \in ReportSet /\ d.msg.sender \in Players /\ d.msg.target \in Players
         /\ d.msg.match \in 1 .. lastId /\ d.msg.seq \in Nat /\ d.msg.lines \in Nat
         /\ Channel!Key(d.msg) \in Used
         /\ Current(d.msg) => match # NoMatch /\ d.msg.match = match.id
                              /\ d.msg.sender \in ToSet(active)
<1>1. d.msg \in ReportSet
  BY OldMatches
<1>2. \A n \in AttackLines \union {0} : n \in Nat
  BY DuelAssumption
<1>3. Current(d.msg) => d.msg.sender \in ToSet(active)
  BY CurrentIsRunning DEF IInv, InLine
<1> QED  BY <1>1, <1>2, <1>3 DEF ReportSet, Used, Current

(* The server remembers only numbers it has seen. *)
LEMMA MarkedIsUsed ==
  ASSUME IInv, NEW d \in wire, d.to = Server, Channel!MarkReceived(d.msg)
  PROVE  received' \subseteq Used
BY ReportIs DEF Channel!MarkReceived, Used

(* A report of another match, or a copy, moves nothing. *)
LEMMA HandleStaleStep ==
  ASSUME IInv, NEW d \in wire, HandleStale(d) \/ HandleCopy(d)
  PROVE  ServerMoves({})
<1>1. /\ UNCHANGED << match, lastId, active, waiting, pending, client >>
      /\ Answers(d, {}) /\ received' \subseteq Used
  <2>1. CASE HandleStale(d)
    BY <2>1, MarkedIsUsed DEF HandleStale, Handles
  <2>2. CASE HandleCopy(d)
    BY <2>2 DEF HandleCopy, serverVars, Used
  <2> QED  BY <2>1, <2>2
<1> QED  BY <1>1, MatchKept, AnsweredWire DEF ServerMoves

(* A resend is one message that was sent before. *)
LEMMA ResendStep ==
  ASSUME IInv, Resend
  PROVE  \E m \in pending : ServerMoves({m}) /\ Sends({m})
<1>1. PICK m \in pending : Sends({m})
  BY DEF Resend
<1>2. UNCHANGED << match, lastId, active, waiting, pending, received, client >>
  BY DEF Resend, serverVars
<1> QED  BY <1>1, <1>2, MatchKept DEF ServerMoves, Sends, Used

(***************************************************************************)
(* The clock ends the match: one MatchEnd, and a MatchStart if there is a  *)
(* line-up.                                                                *)
(***************************************************************************)
LEMMA TickMatchStep ==
  ASSUME IInv, TickMatch
  PROVE  /\ \A id \in 0 .. lastId : ~Running(id)'
         /\ \E winner \in Players \union {NoPlayer} :
              /\ ServerMoves({Matches!MatchEnd(winner, match.ko)} \union StartOutputs)
              /\ Sends({Matches!MatchEnd(winner, match.ko)} \union StartOutputs)
              /\ Rotate(winner) /\ match' = NextMatch
<1>1. /\ match # NoMatch /\ UNCHANGED << pending, received, client >>
      /\ \E winner \in Matches!Winners :
           /\ Rotate(winner) /\ match' = NextMatch
           /\ Sends({Matches!MatchEnd(winner, match.ko)} \union StartOutputs)
  BY DEF TickMatch, Matches!Tick
<1>2. PICK winner \in Matches!Winners :
        /\ Rotate(winner) /\ match' = NextMatch
        /\ Sends({Matches!MatchEnd(winner, match.ko)} \union StartOutputs)
  BY <1>1
<1>3. winner \in Players \union {NoPlayer}
  <2>1. Matches!InMatch \subseteq Players
    BY <1>1, MatchIs
  <2> QED  BY <2>1 DEF Matches!Winners, Matches!Leader
<1>4. /\ Progress /\ \A id \in 0 .. lastId : ~Running(id)'
      /\ \A m \in StartOutputs : NewStart(m)
      /\ \A m, n \in StartOutputs : m = n
  BY <1>2, <1>3, MatchEnds
<1>5. PICK end : end = Matches!MatchEnd(winner, match.ko)
  OBVIOUS
<1>6. end.type = "MatchEnd" /\ end.match = match.id
  BY <1>5 DEF Matches!MatchEnd
<1>7. NewEnd(end)
  <2>1. match.id \in 1 .. lastId /\ match.id \in 0 .. lastId
    BY <1>1, MatchIs
  <2>2. end.match \in 1 .. lastId /\ end.match \in 0 .. lastId
    BY <1>6, <2>1
  <2>3. ~Running(end.match)'
    BY <1>4, <2>2
  <2> QED  BY <1>6, <2>2, <2>3 DEF NewEnd
<1>8. \A m \in StartOutputs : m.type = "MatchStart"
  BY <1>4 DEF NewStart
<1>9. ServerMoves({end} \union StartOutputs)
  BY <1>1, <1>2, <1>4, <1>6, <1>7, <1>8, <1>5
     DEF ServerMoves, Sends, Used, AssignedType
<1> QED  BY <1>2, <1>3, <1>4, <1>9, <1>5

(***************************************************************************)
(* The cancellation of an attack: what is cancelled and what goes on add   *)
(* up to the attack, and no more is cancelled than was coming.             *)
(***************************************************************************)
LEMMA AttackIs ==
  ASSUME IInv, NEW d \in wire, HandleAttack(d)
  PROVE  /\ match # NoMatch /\ d.to = Server /\ d.msg.sender \in ToSet(active)
         /\ Matches!Canceled(d.msg) \in Nat /\ Matches!Outgoing(d.msg) \in Nat
         /\ Matches!Canceled(d.msg) + Matches!Outgoing(d.msg) = d.msg.lines
         /\ Matches!Canceled(d.msg) <= match.garbage[d.msg.sender]
         /\ match.garbage[d.msg.sender] \in Nat
<1>1. /\ match # NoMatch /\ d.to = Server /\ d.msg.sender \in ToSet(active)
      /\ d.msg.lines \in Nat
  BY ReportIs DEF HandleAttack, Handles
<1>2. match.garbage[d.msg.sender] \in Nat
  BY <1>1, MatchIs
<1> QED  BY <1>1, <1>2 DEF Matches!Canceled, Matches!Outgoing

(***************************************************************************)
(* An attack leaves the match going on, with as many numbers used up as it *)
(* has messages.                                                           *)
(***************************************************************************)
LEMMA AttackGoesOn ==
  ASSUME IInv, NEW d \in wire, HandleAttack(d)
  PROVE  /\ Progress /\ (\A id : Running(id)' => Running(id))
         /\ match'.nextSeq = match.nextSeq + Matches!NumbersUsed(d.msg)
         /\ match'.id = match.id /\ match'.players = match.players /\ match'.ko = match.ko
         /\ match'.sent =
              [match.sent EXCEPT ![d.msg.sender] = @ + Matches!Outgoing(d.msg)]
         /\ match' # NoMatch
<1> DEFINE p == d.msg.sender
           q == d.msg.target
           c == Matches!Canceled(d.msg)
           o == Matches!Outgoing(d.msg)
           used == Matches!NumbersUsed(d.msg)
<1>1. /\ match # NoMatch /\ p \in ToSet(active) /\ c \in Nat /\ o \in Nat
      /\ c <= match.garbage[p]
  BY AttackIs
<1>2. used \in Nat
  BY <1>1 DEF Matches!NumbersUsed, Matches!Needed
<1>3. UNCHANGED << lastId, active, waiting >>
  BY DEF HandleAttack
<1>4. /\ match = [id |-> match.id, players |-> match.players, ko |-> match.ko,
                  sent |-> match.sent, garbage |-> match.garbage, nextSeq |-> match.nextSeq]
      /\ match.ko \in [ToSet(active) -> 0 .. KoTarget - 1]
      /\ match.sent \in [ToSet(active) -> Nat]
      /\ match.garbage \in [ToSet(active) -> Nat]
      /\ match.nextSeq \in Nat
  BY <1>1, MatchIs
<1>5. match' =
        [match EXCEPT
          !.garbage = [r \in DOMAIN @ |->
                         IF r = p THEN @[r] - c ELSE IF r = q THEN @[r] + o ELSE @[r]],
          !.sent[p] = @ + o,
          !.nextSeq = @ + used]
  BY DEF HandleAttack, Matches!HandleAttack
<1> HIDE DEF c, o, used, p, q
<1> DEFINE garbage == [r \in ToSet(active) |->
                         IF r = p THEN match.garbage[r] - c
                         ELSE IF r = q THEN match.garbage[r] + o ELSE match.garbage[r]]
           sent == [match.sent EXCEPT ![p] = @ + o]
           next == match.nextSeq + used
<1>6. garbage \in [ToSet(active) -> Nat]
  <2>1. \A r \in ToSet(active) : match.garbage[r] \in Nat
    BY <1>4
  <2>2. match.garbage[p] - c \in Nat
    BY <1>1, <2>1
  <2> QED  BY <1>1, <2>1, <2>2
<1>7. sent \in [ToSet(active) -> Nat]
  BY <1>1, <1>4
<1>8. next \in Nat /\ next >= match.nextSeq
  BY <1>2, <1>4
<1>9. match' = [match EXCEPT !.garbage = garbage, !.sent = sent, !.nextSeq = next]
  BY <1>4, <1>5
<1> HIDE DEF garbage, sent, next
<1>10. match' = [id |-> match.id, players |-> match.players, ko |-> match.ko,
                 sent |-> sent, garbage |-> garbage, nextSeq |-> next]
  BY <1>4, <1>9
<1>11. Progress /\ (\A id : Running(id)' => Running(id)) /\ match'.nextSeq = next
  BY <1>1, <1>3, <1>4, <1>6, <1>7, <1>8, <1>10, MatchGoesOn
<1>12. /\ match'.id = match.id /\ match'.players = match.players /\ match'.ko = match.ko
       /\ match'.sent = sent
  BY <1>10
<1>13. match' # NoMatch
  <2> DEFINE counts == UNION {[ps -> Nat] : ps \in SUBSET Players}
             Records == [id : Nat, players : Seq(Players), ko : counts, sent : counts,
                         garbage : counts, nextSeq : Nat]
  <2>1. NoMatch \notin Records
    BY NoMatchAssumption
  <2>2. \A f \in [ToSet(active) -> Nat] : f \in counts
    BY <1>1, MatchIs
  <2>3. match.ko \in [ToSet(active) -> Nat]
    BY <1>4
  <2>4. match.id \in Nat /\ match.players \in Seq(Players)
    BY <1>1, MatchIs DEF LineOf
  <2> HIDE DEF counts
  <2>5. match' \in Records
    BY <1>6, <1>7, <1>8, <1>10, <2>2, <2>3, <2>4
  <2> QED  BY <2>1, <2>5
<1> QED  BY <1>11, <1>12, <1>13 DEF sent, next, p, o, used

(* A message that is assigned in the running match. *)
LEMMA AssignedIs ==
  ASSUME NEW type \in AssignedType, NEW sender, NEW target \in Players, NEW seq \in Nat,
         NEW lines \in Nat, NEW canceled \in Nat, IInv, match # NoMatch,
         NEW m, m = Matches!Assigned(type, sender, target, seq, lines, canceled)
  PROVE  /\ IsAssigned(m) /\ Running(m.match) /\ m.match = match.id /\ m.type = type
         /\ m.target = target /\ m.seq = seq /\ m.lines = lines /\ m.canceled = canceled
         /\ m.sender = sender
<1>1. match.id \in 1 .. lastId
  BY MatchIs
<1>2. /\ m.match = match.id /\ m.type = type /\ m.target = target /\ m.seq = seq
      /\ m.lines = lines /\ m.canceled = canceled /\ m.sender = sender
  BY DEF Matches!Assigned
<1> QED  BY <1>1, <1>2 DEF IsAssigned, Running

(***************************************************************************)
(* An attack sends at most two messages, one for each player, with numbers *)
(* of their own.                                                           *)
(***************************************************************************)
LEMMA AttackSends ==
  ASSUME IInv, NEW d \in wire, HandleAttack(d), NEW m \in Matches!AttackOutputs(d.msg)
  PROVE  /\ IsAssigned(m) /\ Running(m.match) /\ m.match = match.id
         /\ m.type = "GarbageAssigned" /\ m.sender = d.msg.sender
         /\ m.seq >= match.nextSeq /\ m.seq < match.nextSeq + Matches!NumbersUsed(d.msg)
         /\ \/ /\ m.seq = match.nextSeq /\ Matches!Canceled(d.msg) # 0
               /\ m = Matches!Assigned("GarbageAssigned", d.msg.sender, d.msg.sender,
                                       match.nextSeq, 0, Matches!Canceled(d.msg))
               /\ m.lines = 0 /\ m.canceled = Matches!Canceled(d.msg)
               /\ m.target = d.msg.sender
            \/ /\ m.seq = Matches!OutgoingSeq(d.msg) /\ Matches!Outgoing(d.msg) # 0
               /\ m = Matches!Assigned("GarbageAssigned", d.msg.sender, d.msg.target,
                                       Matches!OutgoingSeq(d.msg), Matches!Outgoing(d.msg), 0)
               /\ m.lines # 0
<1> DEFINE c == Matches!Canceled(d.msg)
           o == Matches!Outgoing(d.msg)
<1>1. /\ match # NoMatch /\ d.to = Server /\ c \in Nat /\ o \in Nat
      /\ match.nextSeq \in Nat
  BY AttackIs, MatchIs
<1>2. d.msg.sender \in Players /\ d.msg.target \in Players /\ d.msg.lines \in Nat
  BY <1>1, ReportIs
<1>3. "GarbageAssigned" \in AssignedType
  BY DEF AssignedType
<1>4. /\ Matches!OutgoingSeq(d.msg) = match.nextSeq + (IF c > 0 THEN 1 ELSE 0)
      /\ Matches!NumbersUsed(d.msg) = (IF c > 0 THEN 1 ELSE 0) + (IF o > 0 THEN 1 ELSE 0)
  BY DEF Matches!OutgoingSeq, Matches!NumbersUsed, Matches!Needed
<1>5. \/ /\ m = Matches!Assigned("GarbageAssigned", d.msg.sender, d.msg.sender,
                                 match.nextSeq, 0, c)
         /\ c # 0
      \/ /\ m = Matches!Assigned("GarbageAssigned", d.msg.sender, d.msg.target,
                                 Matches!OutgoingSeq(d.msg), o, 0)
         /\ o # 0
  BY DEF Matches!AttackOutputs
<1> HIDE DEF c, o
<1>6. CASE /\ m = Matches!Assigned("GarbageAssigned", d.msg.sender, d.msg.sender,
                                   match.nextSeq, 0, c)
           /\ c # 0
  <2>1. /\ IsAssigned(m) /\ Running(m.match) /\ m.match = match.id
        /\ m.type = "GarbageAssigned" /\ m.sender = d.msg.sender /\ m.target = d.msg.sender
        /\ m.seq = match.nextSeq /\ m.lines = 0 /\ m.canceled = c
    BY <1>1, <1>2, <1>3, <1>6, AssignedIs
  <2> QED  BY <1>1, <1>4, <1>6, <2>1 DEF c, o
<1>7. CASE /\ m = Matches!Assigned("GarbageAssigned", d.msg.sender, d.msg.target,
                                   Matches!OutgoingSeq(d.msg), o, 0)
           /\ o # 0
  <2> DEFINE seq == Matches!OutgoingSeq(d.msg)
  <2>1. seq \in Nat
    BY <1>1, <1>4
  <2> HIDE DEF seq
  <2>2. m = Matches!Assigned("GarbageAssigned", d.msg.sender, d.msg.target, seq, o, 0)
    BY <1>7 DEF seq
  <2>3. /\ IsAssigned(m) /\ Running(m.match) /\ m.match = match.id
        /\ m.type = "GarbageAssigned" /\ m.sender = d.msg.sender
        /\ m.seq = seq /\ m.lines = o
    BY <1>1, <1>2, <1>3, <2>1, <2>2, AssignedIs
  <2> QED  BY <1>1, <1>4, <1>7, <2>3 DEF c, o, seq
<1> QED  BY <1>5, <1>6, <1>7

(* An attack is a step of the server that sends what it assigns. *)
LEMMA HandleAttackStep ==
  ASSUME IInv, NEW d \in wire, HandleAttack(d)
  PROVE  ServerMoves(Matches!AttackOutputs(d.msg))
<1> DEFINE ms == Matches!AttackOutputs(d.msg)
<1>1. /\ Progress /\ (\A id : Running(id)' => Running(id))
      /\ match'.nextSeq = match.nextSeq + Matches!NumbersUsed(d.msg)
  BY AttackGoesOn
<1>2. /\ client' = client /\ Channel!MarkReceived(d.msg) /\ d.to = Server
      /\ Channel!TrackOutgoing(ms) /\ Answers(d, ms)
  BY DEF HandleAttack, Handles
<1>3. wire' \subseteq wire \union Datagrams(ms) /\ received' \subseteq Used
  BY <1>2, AnsweredWire, MarkedIsUsed
<1>4. ASSUME NEW m \in ms
      PROVE  NewAssigned(m) /\ m.type = "GarbageAssigned"
  BY <1>1, <1>4, AttackSends DEF NewAssigned
<1>5. ASSUME NEW m \in ms, NEW n \in ms, m.seq = n.seq
      PROVE  m = n
  <2>1. Matches!Canceled(d.msg) # 0 => Matches!OutgoingSeq(d.msg) = match.nextSeq + 1
    BY AttackIs DEF Matches!OutgoingSeq, Matches!Needed
  <2>2. match.nextSeq \in Nat
    BY AttackIs, MatchIs
  <2> QED  BY <1>5, <2>1, <2>2, AttackSends
<1>6. pending' \subseteq pending \union {m \in ms : m.type \in AssignedType}
  BY <1>2, <1>4 DEF Channel!TrackOutgoing, AssignedType
<1> HIDE DEF ms
<1>7. ServerMoves(ms)
  BY <1>1, <1>2, <1>3, <1>4, <1>5, <1>6 DEF ServerMoves
<1> QED  BY <1>7 DEF ms

(* opponent_of finds another player of the line-up unless there is none. *)
LEMMA OpponentIs ==
  ASSUME IInv, match # NoMatch, NEW p
  PROVE  \/ Matches!OpponentOf(p) = NoPlayer /\ ToSet(active) \subseteq {p}
         \/ Matches!OpponentOf(p) \in ToSet(active) \ {p}
<1> DEFINE I == {i \in 1 .. Len(active) : active[i] # p}
<1>1. Len(active) \in Nat /\ DOMAIN active = 1 .. Len(active) /\ match.players = active
  BY MatchIs, LineHasPlayers
<1>2. Matches!OpponentOf(p) =
        LET i == IF I # {} THEN QP!Min(I) ELSE 0 IN IF i = 0 THEN NoPlayer ELSE active[i]
  BY <1>1 DEF Matches!OpponentOf, Matches!Life!OpponentOf, Matches!Life!SelectInSeq,
              Matches!Life!Min, QP!Min
<1>3. CASE I = {}
  BY <1>1, <1>2, <1>3 DEF ToSet
<1>4. CASE I # {}
  <2> DEFINE k == QP!Min(I)
  <2>1. k \in I
    BY <1>1, <1>4, QueueAssumptions, QP!LeastIndex
  <2> HIDE DEF k
  <2>2. k \in 1 .. Len(active) /\ active[k] # p /\ k # 0
    BY <2>1, <1>1
  <2>3. Matches!OpponentOf(p) = active[k]
    BY <1>2, <1>4, <2>2 DEF k
  <2> QED  BY <1>1, <2>2, <2>3 DEF ToSet
<1> QED  BY <1>3, <1>4

(* What is known when the server handles a KO. *)
LEMMA KOIs ==
  ASSUME IInv, NEW d \in wire, HandleKO(d)
  PROVE  /\ match # NoMatch /\ d.to = Server /\ d.msg \in ReportSet
         /\ d.msg.type = "KOReported" /\ d.msg.match = match.id
         /\ d.msg.sender \in ToSet(active) /\ d.msg.sender \in Players
         /\ Channel!IsNew(d.msg)
         /\ \/ Matches!OpponentOf(d.msg.sender) = NoPlayer
               /\ ToSet(active) \subseteq {d.msg.sender}
            \/ Matches!OpponentOf(d.msg.sender) \in ToSet(active) \ {d.msg.sender}
         /\ Matches!OpponentOf(d.msg.sender) \in Players \union {NoPlayer}
         /\ Matches!KoTargetReached(d.msg) <=>
              match.ko[Matches!OpponentOf(d.msg.sender)] + 1 >= KoTarget
<1>1. /\ match # NoMatch /\ d.to = Server /\ d.msg \in ReportSet
      /\ d.msg.match = match.id /\ d.msg.sender \in ToSet(active) /\ d.msg.sender \in Players
      /\ d.msg.type = "KOReported" /\ Channel!IsNew(d.msg)
  BY ReportIs DEF HandleKO, Handles
<1>2. \/ Matches!OpponentOf(d.msg.sender) = NoPlayer /\ ToSet(active) \subseteq {d.msg.sender}
      \/ Matches!OpponentOf(d.msg.sender) \in ToSet(active) \ {d.msg.sender}
  BY <1>1, OpponentIs
<1>3. ToSet(active) \subseteq Players
  BY <1>1, MatchIs
<1>4. Matches!KoTargetReached(d.msg) <=>
        match.ko[Matches!OpponentOf(d.msg.sender)] + 1 >= KoTarget
  BY DEF Matches!KoTargetReached, Matches!Life!KoTargetReached, Matches!OpponentOf
<1> QED  BY <1>1, <1>2, <1>3, <1>4

(***************************************************************************)
(* A KO short of the target is a point for the opponent, and the match     *)
(* goes on.                                                                *)
(***************************************************************************)
LEMMA KOGoesOn ==
  ASSUME IInv, NEW d \in wire, HandleKO(d), ~Matches!KoTargetReached(d.msg)
  PROVE  /\ Progress /\ (\A id : Running(id)' => Running(id))
         /\ match'.nextSeq = match.nextSeq + 1
         /\ match'.id = match.id /\ match'.players = match.players
         /\ match'.sent = match.sent
         /\ match'.ko = [match.ko EXCEPT ![Matches!OpponentOf(d.msg.sender)] = @ + 1]
         /\ match' # NoMatch /\ active' = active
<1> DEFINE p == d.msg.sender
           q == Matches!OpponentOf(p)
<1>1. /\ match # NoMatch /\ p \in ToSet(active) /\ p \in Players
      /\ \/ q = NoPlayer /\ ToSet(active) \subseteq {p}
         \/ q \in ToSet(active) \ {p}
      /\ ~(match.ko[q] + 1 >= KoTarget)
  BY KOIs
<1>2. /\ match = [id |-> match.id, players |-> match.players, ko |-> match.ko,
                  sent |-> match.sent, garbage |-> match.garbage, nextSeq |-> match.nextSeq]
      /\ match.ko \in [ToSet(active) -> 0 .. KoTarget - 1]
      /\ match.sent \in [ToSet(active) -> Nat]
      /\ match.garbage \in [ToSet(active) -> Nat]
      /\ match.nextSeq \in Nat
      /\ match.id \in Nat /\ match.players \in Seq(Players) /\ ToSet(active) \subseteq Players
  BY <1>1, MatchIs DEF LineOf
<1>3. UNCHANGED << lastId, active, waiting >>
  BY DEF HandleKO
<1>4. Matches!Life!KoScored(match, p) = [match EXCEPT !.ko[q] = @ + 1]
  BY DEF Matches!Life!KoScored, Matches!OpponentOf
<1>5. match' = [[match EXCEPT !.ko[q] = @ + 1] EXCEPT
                  !.garbage[p] = 0, !.nextSeq = @ + 1]
  BY <1>4 DEF HandleKO, Matches!HandleKO
<1> HIDE DEF p, q
<1> DEFINE ko == [match.ko EXCEPT ![q] = @ + 1]
           garbage == [match.garbage EXCEPT ![p] = 0]
           next == match.nextSeq + 1
<1>6. ko \in [ToSet(active) -> 0 .. KoTarget - 1]
  <2>1. NoPlayer \notin ToSet(active)
    BY <1>2, QueueAssumptions
  <2>2. q \in ToSet(active) => match.ko[q] + 1 \in 0 .. KoTarget - 1
    BY <1>1, <1>2, QueueAssumptions
  <2> QED  BY <1>1, <1>2, <2>1, <2>2
<1>7. garbage \in [ToSet(active) -> Nat]
  BY <1>2
<1>8. next \in Nat /\ next >= match.nextSeq
  BY <1>2
<1>9. match' = [[match EXCEPT !.ko = ko] EXCEPT !.garbage = garbage, !.nextSeq = next]
  BY <1>2, <1>5
<1> HIDE DEF ko, garbage, next
<1>10. match' = [id |-> match.id, players |-> match.players, ko |-> ko, sent |-> match.sent,
                 garbage |-> garbage, nextSeq |-> next]
  BY <1>2, <1>9
<1>11. Progress /\ (\A id : Running(id)' => Running(id)) /\ match'.nextSeq = next
  BY <1>1, <1>2, <1>3, <1>6, <1>7, <1>8, <1>10, MatchGoesOn
<1>12. /\ match'.id = match.id /\ match'.players = match.players /\ match'.ko = ko
       /\ match'.sent = match.sent
  BY <1>10
<1>13. match' # NoMatch
  <2> DEFINE counts == UNION {[ps -> Nat] : ps \in SUBSET Players}
             Records == [id : Nat, players : Seq(Players), ko : counts, sent : counts,
                         garbage : counts, nextSeq : Nat]
  <2>1. NoMatch \notin Records
    BY NoMatchAssumption
  <2>2. \A f \in [ToSet(active) -> Nat] : f \in counts
    BY <1>2
  <2>3. ko \in [ToSet(active) -> Nat]
    BY <1>6
  <2> HIDE DEF counts
  <2>4. match' \in Records
    BY <1>2, <1>7, <1>8, <1>10, <2>2, <2>3
  <2> QED  BY <2>1, <2>4
<1> QED  BY <1>3, <1>11, <1>12, <1>13 DEF ko, next, p, q

(* The respawn a KO brings. *)
LEMMA RespawnIs ==
  ASSUME IInv, NEW d \in wire, HandleKO(d), NEW m,
         m = Matches!Assigned("RespawnAssigned", Matches!OpponentOf(d.msg.sender),
                              d.msg.sender, match.nextSeq, 0, 0)
  PROVE  /\ IsAssigned(m) /\ Running(m.match) /\ m.match = match.id
         /\ m.type = "RespawnAssigned" /\ m.target = d.msg.sender
         /\ m.seq = match.nextSeq /\ m.canceled = 0 /\ match.nextSeq \in Nat
<1>1. match # NoMatch /\ d.msg.sender \in Players /\ match.nextSeq \in Nat
  BY KOIs, MatchIs
<1>2. "RespawnAssigned" \in AssignedType
  BY DEF AssignedType
<1> QED  BY <1>1, <1>2, AssignedIs

(***************************************************************************)
(* A KO is a step of the server: a respawn, and at the target the end of   *)
(* the match and the start of the next.                                    *)
(***************************************************************************)
LEMMA HandleKOStep ==
  ASSUME IInv, NEW d \in wire, HandleKO(d)
  PROVE  \/ /\ ~Matches!KoTargetReached(d.msg)
            /\ ServerMoves(Matches!KOOutputs(d.msg))
         \/ /\ Matches!KoTargetReached(d.msg)
            /\ ServerMoves(Matches!KOOutputs(d.msg) \union StartOutputs)
            /\ \A id \in 0 .. lastId : ~Running(id)'
<1>1. PICK respawn : respawn = Matches!Assigned("RespawnAssigned",
              Matches!OpponentOf(d.msg.sender), d.msg.sender, match.nextSeq, 0, 0)
  OBVIOUS
<1>2. /\ IsAssigned(respawn) /\ Running(respawn.match) /\ respawn.match = match.id
      /\ respawn.type = "RespawnAssigned" /\ respawn.seq = match.nextSeq
      /\ match.nextSeq \in Nat
  BY <1>1, RespawnIs
<1>3. /\ client' = client /\ Channel!MarkReceived(d.msg) /\ d.to = Server
      /\ Channel!TrackOutgoing({m \in Matches!KOOutputs(d.msg) : m.type \in AssignedType})
  BY DEF HandleKO, Handles
<1>4. received' \subseteq Used
  BY <1>3, MarkedIsUsed
<1>5. pending' \subseteq pending \union {m \in Matches!KOOutputs(d.msg) : m.type \in AssignedType}
  BY <1>3 DEF Channel!TrackOutgoing
<1>6. CASE ~Matches!KoTargetReached(d.msg)
  <2>1. Matches!KOOutputs(d.msg) = {respawn}
    BY <1>1, <1>6 DEF Matches!KOOutputs, Matches!KOEnds
  <2>2. /\ Progress /\ (\A id : Running(id)' => Running(id))
        /\ match'.nextSeq = match.nextSeq + 1
    BY <1>6, KOGoesOn
  <2>3. NewAssigned(respawn)
    BY <1>2, <2>2 DEF NewAssigned
  <2>4. Answers(d, Matches!KOOutputs(d.msg))
    BY <1>6 DEF HandleKO
  <2>5. wire' \subseteq wire \union Datagrams(Matches!KOOutputs(d.msg))
    BY <2>4, AnsweredWire
  <2> QED  BY <1>3, <1>4, <1>5, <1>6, <2>1, <2>2, <2>3, <2>5 DEF ServerMoves
<1>7. CASE Matches!KoTargetReached(d.msg)
  <2> DEFINE winner == Matches!OpponentOf(d.msg.sender)
             ms == Matches!KOOutputs(d.msg)
  <2>1. PICK end : end = Matches!MatchEnd(winner, Matches!Life!KoScored(match, d.msg.sender).ko)
    OBVIOUS
  <2>2. end.type = "MatchEnd" /\ end.match = match.id
    BY <2>1 DEF Matches!MatchEnd
  <2>3. ms = {respawn, end}
    BY <1>1, <1>7, <2>1 DEF Matches!KOOutputs, Matches!KOEnds
  <2>4. winner \in Players \union {NoPlayer} /\ match # NoMatch
    BY KOIs
  <2>5. Rotate(winner) /\ match' = NextMatch /\ Answers(d, ms \union StartOutputs)
    BY <1>7 DEF HandleKO, Matches!HandleKO
  <2> HIDE DEF winner
  <2>6. /\ Progress /\ \A id \in 0 .. lastId : ~Running(id)'
        /\ \A m \in StartOutputs : NewStart(m)
        /\ \A m, n \in StartOutputs : m = n
    BY <2>4, <2>5, MatchEnds
  <2>7. match.id \in 1 .. lastId /\ match.id \in 0 .. lastId
    BY <2>4, MatchIs
  <2>8. ~Running(end.match)' /\ ~Running(respawn.match)'
    BY <1>2, <2>2, <2>6, <2>7
  <2>9. NewEnd(end) /\ NewAssigned(respawn)
    BY <1>2, <2>2, <2>7, <2>8 DEF NewEnd, NewAssigned
  <2>10. \A m \in StartOutputs : m.type = "MatchStart"
    BY <2>6 DEF NewStart
  <2>11. wire' \subseteq wire \union Datagrams(ms \union StartOutputs)
    BY <2>5, AnsweredWire
  <2>12. /\ \A m \in ms \union StartOutputs : NewStart(m) \/ NewEnd(m) \/ NewAssigned(m)
         /\ \A m, n \in ms \union StartOutputs :
              m.type = "MatchStart" /\ n.type = "MatchStart" => m = n
         /\ \A m, n \in ms \union StartOutputs :
              m.type \in AssignedType /\ n.type \in AssignedType => m = n
    BY <1>2, <2>2, <2>3, <2>6, <2>9, <2>10 DEF AssignedType
  <2>13. pending' \subseteq pending \union {m \in ms \union StartOutputs : m.type \in AssignedType}
    BY <1>5
  <2> HIDE DEF ms
  <2>14. ServerMoves(ms \union StartOutputs)
    BY <1>3, <1>4, <2>6, <2>11, <2>12, <2>13 DEF ServerMoves
  <2> QED  BY <1>7, <2>6, <2>14 DEF ms
<1> QED  BY <1>6, <1>7

-----------------------------------------------------------------------------
(* What every step of a client does that does not begin a match. *)

(* Reports on their way to the server. *)
Away(ms) == {[to |-> Server, msg |-> m] : m \in ms}

(***************************************************************************)
(* What every step of a client does that does not begin a match, and all   *)
(* the invariant has to know of it: the session of p becomes c, keeps its  *)
(* match and opponent, and sends the reports ms under numbers it has not   *)
(* used.                                                                   *)
(***************************************************************************)
ClientGoesOn(p, c, ms) ==
  /\ UNCHANGED serverVars
  /\ client' = [client EXCEPT ![p] = c] /\ c \in ClientState(lastId)
  /\ c.match = client[p].match /\ c.opponent = client[p].opponent
  /\ c.seq >= client[p].seq
  /\ c.running => client[p].running
  /\ ~c.running => ~client[p].running \/ ~Running(c.match)
  /\ wire' \subseteq wire \union Away(ms)
  /\ \A m \in ms : /\ m \in ReportSet /\ m.sender = p /\ m.match = client[p].match
                   /\ client[p].seq <= m.seq /\ m.seq < c.seq
  /\ \A m, n \in ms : m.seq = n.seq => m = n

(* The session of one player. *)
LEMMA ClientIs ==
  ASSUME IInv, NEW p \in Players
  PROVE  /\ client \in [Players -> ClientState(lastId)]
         /\ client[p] \in ClientState(lastId)
         /\ client[p].match \in 0 .. lastId /\ client[p].seq \in Nat
         /\ client[p].garbage \in 0 .. MaxGarbage
         /\ client[p].opponent \in Players \union {NoPlayer}
         /\ client[p].running \in BOOLEAN /\ client[p].alive \in BOOLEAN
         /\ client[p].match # 0 => client[p].opponent \in Players
         /\ client[p].running => client[p].match # 0
<1>1. client \in [Players -> ClientState(lastId)]
  BY DEF IInv, ClientSound
<1>2. client[p] \in ClientState(lastId)
  BY <1>1
<1> QED  BY <1>1, <1>2 DEF IInv, ClientSound, ClientState

(* A report that has just been sent. *)
LEMMA NewReport ==
  ASSUME NEW p, NEW c, NEW ms, ClientGoesOn(p, c, ms), NEW d \in Away(ms)
  PROVE  /\ d.to = Server /\ d.msg \in ms /\ d.msg \in ReportSet
         /\ d.msg.type \in ReportType
         /\ d.msg.sender = p /\ d.msg.match = client[p].match
         /\ client[p].seq <= d.msg.seq /\ d.msg.seq < c.seq
<1>1. PICK m \in ms : d = [to |-> Server, msg |-> m]
  BY DEF Away
<1>2. d.to = Server /\ d.msg = m
  BY <1>1
<1>3. m \in ReportSet => m.type \in ReportType
  BY DEF ReportSet
<1> QED  BY <1>2, <1>3 DEF ClientGoesOn

(* A step of a client leaves the server as it is. *)
LEMMA ServerKept ==
  ASSUME IInv, UNCHANGED serverVars
  PROVE  /\ RoomSound' /\ MatchSound' /\ ChannelSound'
         /\ \A id : Running(id)' <=> Running(id)
         /\ lastId' = lastId /\ active' = active /\ received' = received /\ match' = match
         /\ pending' = pending
<1>1. Progress
  BY MatchKept DEF serverVars
<1>2. ChannelSound'
  BY DEF IInv, ChannelSound, IsAssigned, serverVars
<1> QED  BY <1>1, <1>2 DEF Progress, Running, serverVars

(* The numbers of new reports are above all the client has used. *)
LEMMA ClientStepNumbers ==
  ASSUME IInv, NEW p \in Players, NEW c, NEW ms, ClientGoesOn(p, c, ms)
  PROVE  NumbersFresh'
<1>1. /\ client' = [client EXCEPT ![p] = c] /\ wire' \subseteq wire \union Away(ms)
      /\ received' = received /\ c.match = client[p].match /\ c.seq >= client[p].seq
      /\ \A m, n \in ms : m.seq = n.seq => m = n
  BY DEF ClientGoesOn, serverVars
<1>2. /\ client \in [Players -> ClientState(lastId)] /\ client[p].seq \in Nat
      /\ c \in ClientState(lastId)
  BY ClientIs DEF ClientGoesOn
<1>3. c.seq \in Nat /\ \A m \in ReportSet : m.seq \in Nat /\ m.type \in ReportType
  BY <1>2 DEF ClientState, ReportSet
<1>4. /\ client'[p] = c /\ \A q \in Players \ {p} : client'[q] = client[q]
  BY <1>1, <1>2
<1>5. \A k \in Used : k.sender \in Players /\ k.seq \in Nat
  BY OldMatches
<1>6. \A d \in Away(ms) :
         /\ d.to = Server /\ d.msg \in ms /\ d.msg.seq \in Nat /\ d.msg.type \in ReportType
         /\ d.msg.sender = p /\ d.msg.match = client[p].match
         /\ client[p].seq <= d.msg.seq /\ d.msg.seq < c.seq
  BY <1>3, NewReport
<1>7. \A d \in wire, e \in Away(ms) :
         d.to = Server => Channel!Key(d.msg) # Channel!Key(e.msg)
  <2> SUFFICES ASSUME NEW d \in wire, NEW e \in Away(ms), d.to = Server,
                      Channel!Key(d.msg) = Channel!Key(e.msg)
               PROVE  FALSE
    OBVIOUS
  <2>1. Channel!Key(d.msg) \in Used
    BY DEF Used
  <2>2. d.msg.sender = p /\ d.msg.match = client[p].match /\ d.msg.seq = e.msg.seq
    BY <1>6, KeysAre
  <2>3. d.msg.seq < client[p].seq /\ d.msg.seq \in Nat
    BY <1>5, <2>1, <2>2, KeysAre DEF IInv, NumbersFresh
  <2> QED  BY <1>2, <1>6, <2>2, <2>3
<1>8. ASSUME NEW d \in wire', NEW e \in wire', d.to = Server, e.to = Server,
             Channel!Key(d.msg) = Channel!Key(e.msg)
      PROVE  d.msg = e.msg
  <2>1. CASE d \in wire /\ e \in wire
    BY <1>8, <2>1 DEF IInv, NumbersFresh
  <2>2. CASE d \in Away(ms) /\ e \in Away(ms)
    BY <1>1, <1>6, <1>8, <2>2, KeysAre
  <2> QED  BY <1>1, <1>7, <1>8, <2>1, <2>2
<1>9. ASSUME NEW k \in Used'
      PROVE  \/ k \in Used
             \/ /\ k.sender = p /\ k.match = client[p].match
                /\ k.seq \in Nat /\ k.seq < c.seq
  <2>1. CASE k \in received'
    BY <1>1, <2>1 DEF Used
  <2>2. CASE \E d \in wire' : d.to = Server /\ k = Channel!Key(d.msg)
    <3>1. PICK d \in wire' : d.to = Server /\ k = Channel!Key(d.msg)
      BY <2>2
    <3>2. CASE d \in wire
      BY <3>1, <3>2 DEF Used
    <3>3. CASE d \in Away(ms)
      BY <1>6, <3>1, <3>3, KeysAre
    <3> QED  BY <1>1, <3>2, <3>3
  <2>3. k \in received' \/ \E d \in wire' : d.to = Server /\ k = Channel!Key(d.msg)
    BY DEF Used, Channel!Key
  <2> QED  BY <2>1, <2>2, <2>3
<1>10. ASSUME NEW k \in Used', k.match = client'[k.sender].match
       PROVE  k.seq < client'[k.sender].seq
  <2>1. CASE k \in Used
    <3>1. k.match = client[k.sender].match
      BY <1>1, <1>4, <1>5, <1>10, <2>1
    <3>2. k.seq < client[k.sender].seq /\ k.seq \in Nat /\ k.sender \in Players
      BY <1>5, <2>1, <3>1 DEF IInv, NumbersFresh
    <3> QED  BY <1>1, <1>2, <1>3, <1>4, <3>2
  <2> QED  BY <1>4, <1>9, <2>1
<1>11. \A d \in wire' : d.msg.type = "MatchStart" => d \in wire /\ d.to \in Players
  BY <1>1, <1>6, OldMatches DEF ReportType
<1>12. ASSUME NEW d \in wire', d.msg.type = "MatchStart"
       PROVE  /\ client'[d.to].match # d.msg.match
              /\ \A k \in Used' : ~(k.sender = d.to /\ k.match = d.msg.match)
              /\ \A e \in wire' :
                   e.msg.type = "MatchStart" /\ e.to = d.to /\ e.msg.match = d.msg.match => e = d
  <2>1. /\ d \in wire /\ d.to \in Players /\ client[d.to].match # d.msg.match
        /\ \A k \in Used : ~(k.sender = d.to /\ k.match = d.msg.match)
        /\ \A e \in wire :
             e.msg.type = "MatchStart" /\ e.to = d.to /\ e.msg.match = d.msg.match => e = d
    BY <1>11, <1>12 DEF IInv, NumbersFresh
  <2>2. client'[d.to].match # d.msg.match
    BY <1>1, <1>4, <2>1
  <2>3. \A k \in Used' : ~(k.sender = d.to /\ k.match = d.msg.match)
    BY <1>9, <2>1
  <2> QED  BY <1>11, <2>1, <2>2, <2>3
<1> QED  BY <1>8, <1>10, <1>12 DEF NumbersFresh

(***************************************************************************)
(* The invariant survives every step of a client that does not begin a     *)
(* match.                                                                  *)
(***************************************************************************)
LEMMA ClientStep ==
  ASSUME IInv, NEW p \in Players, NEW c, NEW ms, ClientGoesOn(p, c, ms)
  PROVE  IInv'
<1>1. /\ RoomSound' /\ MatchSound' /\ ChannelSound'
      /\ \A id : Running(id)' <=> Running(id)
      /\ lastId' = lastId /\ active' = active /\ match' = match /\ pending' = pending
  BY ServerKept DEF ClientGoesOn
<1>2. /\ client' = [client EXCEPT ![p] = c] /\ c \in ClientState(lastId)
      /\ c.match = client[p].match /\ c.opponent = client[p].opponent
      /\ c.running => client[p].running
      /\ ~c.running => ~client[p].running \/ ~Running(c.match)
      /\ wire' \subseteq wire \union Away(ms)
  BY DEF ClientGoesOn
<1>3. client \in [Players -> ClientState(lastId)]
  BY ClientIs
<1>4. /\ client'[p] = c /\ \A q \in Players \ {p} : client'[q] = client[q]
  BY <1>2, <1>3
<1>5. ClientSound'
  <2>1. client' \in [Players -> ClientState(lastId)]
    <3> HIDE DEF ClientState
    <3> QED  BY <1>2, <1>3
  <2>2. \A q \in Players : /\ client'[q].match # 0 => client'[q].opponent \in Players
                           /\ client'[q].running => client'[q].match # 0
    BY <1>2, <1>4 DEF IInv, ClientSound
  <2> QED  BY <1>1, <2>1, <2>2 DEF ClientSound
<1>6. WireSound'
  <2>1. \A d \in wire :
          \/ d.to = Server /\ d.msg \in ReportSet
          \/ d.to \in Players /\ (IsStart(d.msg) \/ IsEnd(d.msg) \/ IsAssigned(d.msg))
    BY DEF IInv, WireSound
  <2>2. \A d \in Away(ms) : d.to = Server /\ d.msg \in ReportSet
    BY NewReport
  <2> QED  BY <1>1, <1>2, <2>1, <2>2 DEF WireSound, IsStart, IsEnd, IsAssigned, ReportSet
<1>7. \A d \in wire' : d \in wire \/ /\ d.to = Server /\ d.msg.type \in ReportType
                                     /\ d.msg.sender = p /\ d.msg.match = client[p].match
  BY <1>2, NewReport
<1>8. InLine'
  <2>1. \A q \in Players : client'[q].match = client[q].match
    BY <1>2, <1>4
  <2> QED  BY <1>1, <1>7, <2>1 DEF IInv, InLine, Running, ReportType
<1>9. AssignedFresh'
  <2>1. Sent(AssignedType)' \subseteq Sent(AssignedType)
    BY <1>7 DEF Sent, AssignedType, ReportType
  <2> QED  BY <1>1, <2>1 DEF IInv, AssignedFresh, Outgoing, Running
<1>10. EndsAreOver'
  BY <1>1, <1>7 DEF IInv, EndsAreOver, Running, ReportType
<1>11. StoppedMeansOver'
  <2> SUFFICES ASSUME NEW q \in Players, client'[q].match # 0, ~client'[q].running
               PROVE  ~Running(client'[q].match)
    BY <1>1 DEF StoppedMeansOver, Current, Running
  <2> QED  BY <1>2, <1>4 DEF IInv, StoppedMeansOver, Current, Running
<1> QED  BY <1>1, <1>5, <1>6, <1>8, <1>9, <1>10, <1>11, ClientStepNumbers DEF IInv

-----------------------------------------------------------------------------
(* The steps of a client. *)

(* Whoever reads a MatchStart finds an opponent in it. *)
LEMMA OpponentInIs ==
  ASSUME ActiveCount # 1, NEW line, LineOf(line), NEW p
  PROVE  Versus!OpponentIn(line, p) \in Players \ {p}
<1> DEFINE I == {i \in 1 .. Len(line) : line[i] # p}
           k == QP!Min(I)
<1>1. Len(line) \in Nat /\ DOMAIN line = 1 .. Len(line) /\ ToSet(line) \subseteq Players
      /\ \E q \in ToSet(line) : q # p
  BY LineHasPlayers
<1>2. I # {}
  BY <1>1 DEF ToSet
<1>3. k \in I
  BY <1>1, <1>2, QueueAssumptions, QP!LeastIndex
<1>4. Versus!OpponentIn(line, p) = line[k]
  BY <1>2 DEF Versus!OpponentIn, Versus!SelectInSeq, Versus!Min, QP!Min
<1> HIDE DEF k
<1> QED  BY <1>1, <1>3, <1>4 DEF ToSet

(* The session that a MatchStart makes, written out. *)
LEMMA StartedIs ==
  ASSUME NEW id, NEW q, NEW seq
  PROVE  [Versus!None EXCEPT !.match = id, !.opponent = q, !.running = TRUE, !.seq = seq]
         = [match |-> id, opponent |-> q, running |-> TRUE, alive |-> TRUE,
            garbage |-> 0, seq |-> seq]
<1>1. PICK zero, yes, no : zero = 0 /\ yes = TRUE /\ no = FALSE
  OBVIOUS
<1> DEFINE c == [match |-> zero, opponent |-> NoPlayer, running |-> no, alive |-> yes,
                 garbage |-> zero, seq |-> zero]
           c1 == [c EXCEPT !.match = id]
           c2 == [c1 EXCEPT !.opponent = q]
           c3 == [c2 EXCEPT !.running = yes]
           c4 == [c3 EXCEPT !.seq = seq]
<1>2. Versus!None = c
  BY <1>1 DEF Versus!None
<1>3. c1 = [match |-> id, opponent |-> NoPlayer, running |-> no, alive |-> yes,
            garbage |-> zero, seq |-> zero]
  OBVIOUS
<1> HIDE DEF c1
<1>4. c2 = [match |-> id, opponent |-> q, running |-> no, alive |-> yes,
            garbage |-> zero, seq |-> zero]
  BY <1>3
<1> HIDE DEF c2
<1>5. c3 = [match |-> id, opponent |-> q, running |-> yes, alive |-> yes,
            garbage |-> zero, seq |-> zero]
  BY <1>4
<1> HIDE DEF c3
<1>6. c4 = [match |-> id, opponent |-> q, running |-> yes, alive |-> yes,
            garbage |-> zero, seq |-> seq]
  BY <1>5
<1> HIDE DEF c
<1> QED  BY <1>1, <1>2, <1>6 DEF c1, c2, c3, c4

(***************************************************************************)
(* The invariant survives the beginning of a match on a client, whether    *)
(* the runtime makes a new session that numbers from 0 or the old one goes *)
(* on numbering.                                                           *)
(***************************************************************************)
LEMMA StartStep ==
  ASSUME ActiveCount # 1, IInv, UNCHANGED serverVars,
         NEW d \in wire, d.msg.type = "MatchStart", d.to \in Players,
         NEW seq \in {0, client[d.to].seq}, Versus!HandleMatchStart(d.to, d.msg, seq),
         wire' = wire \ {d}
  PROVE  IInv'
<1> DEFINE p == d.to
           id == d.msg.match
           q == Versus!OpponentIn(d.msg.players, d.to)
           c == [match |-> id, opponent |-> q, running |-> TRUE, alive |-> TRUE,
                 garbage |-> 0, seq |-> seq]
<1>1. /\ RoomSound' /\ MatchSound' /\ ChannelSound'
      /\ \A n : Running(n)' <=> Running(n)
      /\ lastId' = lastId /\ active' = active /\ match' = match /\ pending' = pending
      /\ received' = received
  BY ServerKept
<1>2. /\ client \in [Players -> ClientState(lastId)] /\ seq \in Nat
      /\ id \in 1 .. lastId /\ id \in 0 .. lastId /\ id # 0
      /\ LineOf(d.msg.players) /\ q \in Players /\ MaxGarbage \in Nat
  <2>1. client \in [Players -> ClientState(lastId)] /\ client[p].seq \in Nat
    BY ClientIs
  <2>2. id \in 1 .. lastId /\ id \in 0 .. lastId /\ LineOf(d.msg.players)
    BY OldMatches
  <2> QED  BY <2>1, <2>2, OpponentInIs, DuelAssumption DEF IInv, MatchSound
<1>3. client' = [client EXCEPT ![p] = c]
  <2>1. client' = [client EXCEPT ![p] =
           [Versus!None EXCEPT !.match = id, !.opponent = q, !.running = TRUE, !.seq = seq]]
    BY DEF Versus!HandleMatchStart
  <2> HIDE DEF q, id, p
  <2>2. c = [Versus!None EXCEPT !.match = id, !.opponent = q, !.running = TRUE, !.seq = seq]
    BY StartedIs
  <2> HIDE DEF c
  <2> QED  BY <2>1, <2>2
<1>4. /\ c.match = id /\ c.opponent = q /\ c.running = TRUE /\ c.seq = seq
      /\ c \in ClientState(lastId)
  BY <1>2 DEF ClientState
<1> HIDE DEF c, q
<1>5. /\ client'[p] = c /\ \A r \in Players \ {p} : client'[r] = client[r]
  BY <1>2, <1>3
<1>6. ClientSound'
  <2>1. client' \in [Players -> ClientState(lastId)]
    <3> HIDE DEF ClientState
    <3> QED  BY <1>2, <1>3, <1>4
  <2>2. \A r \in Players : /\ client'[r].match # 0 => client'[r].opponent \in Players
                           /\ client'[r].running => client'[r].match # 0
    BY <1>2, <1>4, <1>5 DEF IInv, ClientSound
  <2> QED  BY <1>1, <2>1, <2>2 DEF ClientSound
<1>7. wire' \subseteq wire /\ d \notin wire'
  OBVIOUS
<1>8. WireSound'
  BY <1>1, <1>7 DEF IInv, WireSound, IsStart, IsEnd, IsAssigned, ReportSet
<1>9. InLine'
  <2>1. Running(id) => p \in ToSet(active)
    BY DEF IInv, InLine
  <2>2. \A r \in Players : Running(client'[r].match) => r \in ToSet(active)
    BY <1>4, <1>5, <2>1 DEF IInv, InLine
  <2> QED  BY <1>1, <1>7, <2>2 DEF IInv, InLine, Running
<1>10. Used' \subseteq Used
  BY <1>1, <1>7 DEF Used, Channel!Key
<1>11. /\ \A k \in Used : k.sender \in Players /\ ~(k.sender = p /\ k.match = id)
       /\ \A e \in wire : e.msg.type = "MatchStart" => e.to \in Players
       /\ \A e \in wire :
            e.msg.type = "MatchStart" /\ e.to = p /\ e.msg.match = id => e = d
  BY OldMatches DEF IInv, NumbersFresh
<1>12. NumbersFresh'
  <2>1. \A e, f \in wire' :
          e.to = Server /\ f.to = Server /\ Channel!Key(e.msg) = Channel!Key(f.msg)
            => e.msg = f.msg
    BY <1>7 DEF IInv, NumbersFresh
  <2>2. \A k \in Used' : k.match = client'[k.sender].match => k.seq < client'[k.sender].seq
    BY <1>4, <1>5, <1>10, <1>11 DEF IInv, NumbersFresh
  <2>3. ASSUME NEW e \in wire', e.msg.type = "MatchStart"
        PROVE  /\ client'[e.to].match # e.msg.match
               /\ \A k \in Used' : ~(k.sender = e.to /\ k.match = e.msg.match)
               /\ \A f \in wire' :
                    f.msg.type = "MatchStart" /\ f.to = e.to /\ f.msg.match = e.msg.match
                      => f = e
    BY <1>4, <1>5, <1>7, <1>10, <1>11, <2>3 DEF IInv, NumbersFresh
  <2> QED  BY <2>1, <2>2, <2>3 DEF NumbersFresh
<1>13. AssignedFresh'
  <2>1. Sent(AssignedType)' \subseteq Sent(AssignedType)
    BY <1>7 DEF Sent
  <2> QED  BY <1>1, <2>1 DEF IInv, AssignedFresh, Outgoing, Running
<1>14. EndsAreOver'
  BY <1>1, <1>7 DEF IInv, EndsAreOver, Running
<1>15. StoppedMeansOver'
  <2> SUFFICES ASSUME NEW r \in Players, client'[r].match # 0, ~client'[r].running
               PROVE  ~Running(client'[r].match)
    BY <1>1 DEF StoppedMeansOver, Current, Running
  <2> QED  BY <1>4, <1>5 DEF IInv, StoppedMeansOver, Current, Running
<1> QED  BY <1>1, <1>6, <1>8, <1>9, <1>12, <1>13, <1>14, <1>15 DEF IInv

(* What is left on the wire of what was read. *)
LEMMA RemainingIs ==
  ASSUME NEW d
  PROVE  /\ Remaining(d) \subseteq wire
         /\ d.msg.type = "MatchStart" => Remaining(d) = wire \ {d}
BY DEF Remaining

(* What Receive does when the datagram is no MatchStart. *)
LEMMA ReceiveGoesOn ==
  ASSUME IInv, NEW d \in wire, Receive(d), d.msg.type # "MatchStart"
  PROVE  /\ d.to \in Players /\ wire' = Remaining(d)
         /\ \E c : ClientGoesOn(d.to, c, {}) /\ (client[d.to].alive => c.alive)
<1> DEFINE p == d.to
           m == d.msg
<1>1. /\ p \in Players /\ UNCHANGED serverVars /\ wire' \subseteq wire
      /\ wire' = Remaining(d)
  BY RemainingIs DEF Receive
<1>2. /\ client \in [Players -> ClientState(lastId)] /\ client[p] \in ClientState(lastId)
      /\ client[p].match \in 0 .. lastId /\ client[p].seq \in Nat
      /\ client[p].garbage \in 0 .. MaxGarbage /\ MaxGarbage \in Nat
  BY <1>1, ClientIs, DuelAssumption
<1>3. wire' \subseteq wire \union Away({})
  BY <1>1
<1>4. ASSUME client' = client
      PROVE  ClientGoesOn(p, client[p], {})
  <2>1. client' = [client EXCEPT ![p] = client[p]]
    <3> HIDE DEF ClientState
    <3> QED  BY <1>1, <1>2, <1>4
  <2>2. ~client[p].running => ~client[p].running \/ ~Running(client[p].match)
    OBVIOUS
  <2>3. client[p].seq >= client[p].seq
    BY <1>2
  <2> QED  BY <1>1, <1>2, <1>3, <2>1, <2>3 DEF ClientGoesOn
<1>5. ASSUME NEW garbage \in 0 .. MaxGarbage, NEW alive \in BOOLEAN, NEW running \in BOOLEAN,
             NEW c, c = [client[p] EXCEPT !.garbage = garbage, !.alive = alive,
                                          !.running = running],
             client' = [client EXCEPT ![p] = c],
             running => client[p].running, client[p].alive => alive,
             ~running => ~client[p].running \/ ~Running(client[p].match)
      PROVE  ClientGoesOn(p, c, {}) /\ (client[p].alive => c.alive)
  <2>1. /\ c \in ClientState(lastId) /\ c.match = client[p].match
        /\ c.opponent = client[p].opponent /\ c.seq = client[p].seq /\ c.running = running
        /\ c.alive = alive
    BY <1>2, <1>5 DEF ClientState
  <2>2. c.seq >= client[p].seq
    BY <1>2, <2>1
  <2> QED  BY <1>1, <1>3, <1>5, <2>1, <2>2 DEF ClientGoesOn
<1>6. /\ client[p].alive \in BOOLEAN /\ client[p].running \in BOOLEAN
      /\ ~client[p].running => ~client[p].running \/ ~Running(client[p].match)
  BY <1>1, ClientIs
<1>7. client[p] = [match |-> client[p].match, opponent |-> client[p].opponent,
                   running |-> client[p].running, alive |-> client[p].alive,
                   garbage |-> client[p].garbage, seq |-> client[p].seq]
  BY <1>2 DEF ClientState
<1> SUFFICES \E c : ClientGoesOn(p, c, {}) /\ (client[p].alive => c.alive)
  BY <1>1
<1>8. CASE m.type = "GarbageAssigned"
  <2>1. client[p].garbage + m.lines <= MaxGarbage /\ Versus!HandleGarbageAssigned(p, m)
    BY <1>8 DEF Receive
  <2>2. CASE Versus!ForMe(p, m)
    <3> DEFINE garbage == Versus!Kept(p, m.canceled) + m.lines
               c == [client[p] EXCEPT !.garbage = garbage, !.alive = client[p].alive,
                                      !.running = client[p].running]
    <3>1. client' = [client EXCEPT ![p].garbage = garbage]
      BY <2>1, <2>2 DEF Versus!HandleGarbageAssigned
    <3>2. garbage \in 0 .. MaxGarbage
      <4>1. m.canceled \in Nat /\ m.lines \in Nat
        BY <1>8, OldMatches DEF Outgoing, Sent, AssignedType, IsAssigned
      <4> QED  BY <1>2, <2>1, <4>1 DEF Versus!Kept
    <3> HIDE DEF garbage
    <3>3. client' = [client EXCEPT ![p] = c]
      BY <1>1, <1>2, <1>7, <3>1
    <3> QED  BY <1>1, <1>5, <1>6, <3>2, <3>3
  <2>3. CASE ~Versus!ForMe(p, m)
    BY <1>1, <1>4, <2>1, <2>3 DEF Versus!HandleGarbageAssigned
  <2> QED  BY <2>2, <2>3
<1>9. CASE m.type = "RespawnAssigned"
  <2>1. Versus!HandleRespawnAssigned(p, m)
    BY <1>9 DEF Receive
  <2>2. CASE Versus!ForMe(p, m)
    <3> DEFINE c == [client[p] EXCEPT !.garbage = 0, !.alive = TRUE,
                                      !.running = client[p].running]
    <3>1. client' = [client EXCEPT ![p].garbage = 0, ![p].alive = TRUE]
      BY <2>1, <2>2 DEF Versus!HandleRespawnAssigned
    <3>2. client' = [client EXCEPT ![p] = c]
      BY <1>1, <1>2, <1>7, <3>1
    <3>3. 0 \in 0 .. MaxGarbage /\ TRUE \in BOOLEAN
      BY <1>2
    <3> QED  BY <1>1, <1>5, <1>6, <3>2, <3>3
  <2>3. CASE ~Versus!ForMe(p, m)
    BY <1>1, <1>4, <2>1, <2>3 DEF Versus!HandleRespawnAssigned
  <2> QED  BY <2>2, <2>3
<1>10. CASE m.type = "MatchEnd"
  <2>1. Versus!HandleMatchEnd(p, m)
    BY <1>10 DEF Receive
  <2>2. CASE Versus!IsCurrentMatch(p, m)
    <3> DEFINE c == [client[p] EXCEPT !.garbage = client[p].garbage,
                                      !.alive = client[p].alive, !.running = FALSE]
    <3>1. client' = [client EXCEPT ![p].running = FALSE]
      BY <2>1, <2>2 DEF Versus!HandleMatchEnd
    <3>2. client' = [client EXCEPT ![p] = c]
      BY <1>1, <1>2, <1>7, <3>1
    <3>3. ~Running(client[p].match)
      BY <1>10, <2>2 DEF IInv, EndsAreOver, Versus!IsCurrentMatch
    <3> QED  BY <1>1, <1>2, <1>5, <1>6, <3>2, <3>3
  <2>3. CASE ~Versus!IsCurrentMatch(p, m)
    BY <1>1, <1>4, <2>1, <2>3 DEF Versus!HandleMatchEnd
  <2> QED  BY <2>2, <2>3
<1> QED  BY <1>1, <1>8, <1>9, <1>10 DEF Receive

(* A report of a player who plays. *)
LEMMA ReportIsSound ==
  ASSUME IInv, NEW p \in Players, client[p].running, NEW type \in ReportType,
         NEW seq \in Nat, NEW lines \in AttackLines \union {0},
         NEW m, m = Versus!Report(p, type, seq, lines)
  PROVE  /\ m \in ReportSet /\ m.type = type /\ m.sender = p
         /\ m.match = client[p].match /\ m.seq = seq /\ m.lines = lines
<1>1. /\ client[p].match \in 0 .. lastId /\ client[p].match # 0
      /\ client[p].opponent \in Players /\ lastId \in Nat
  BY ClientIs DEF IInv, MatchSound
<1>2. client[p].match \in 1 .. lastId
  BY <1>1
<1>3. m = [type |-> type, match |-> client[p].match, sender |-> p,
           target |-> client[p].opponent, seq |-> seq, lines |-> lines]
  BY DEF Versus!Report
<1> QED  BY <1>1, <1>2, <1>3 DEF ReportSet

(* Whether somebody dies, as a set. *)
LEMMA DeathIs ==
  ASSUME NEW dies \in BOOLEAN
  PROVE  /\ dies => {dies} \ {FALSE} = {TRUE}
         /\ ~dies => {dies} \ {FALSE} = {}
BY Zenon

(***************************************************************************)
(* The reports of a tick in which pieces lock: the attacks and then, it    *)
(* may be, a KO, under successive numbers.                                 *)
(***************************************************************************)
LEMMA LockReportsAre ==
  ASSUME IInv, NEW p \in Players, client[p].running, NEW dies \in BOOLEAN,
         NEW clears \in Seq(AttackLines),
         NEW ms, ms = Versus!LockReports(p, clears, dies),
         NEW last, last = client[p].seq + Len(clears) + IF dies THEN 1 ELSE 0
  PROVE  /\ last \in Nat /\ last >= client[p].seq
         /\ \A m \in ms : /\ m \in ReportSet /\ m.sender = p /\ m.match = client[p].match
                          /\ client[p].seq <= m.seq /\ m.seq < last
         /\ \A m, n \in ms : m.seq = n.seq => m = n
         /\ dies => \E m \in ms : m.type = "KOReported"
         /\ ~dies => \A m \in ms : m.type # "KOReported"
         /\ \A m, n \in ms : m.type = "KOReported" /\ n.type = "KOReported" => m = n
         /\ IsFiniteSet(ms)
<1>1. /\ client[p].seq \in Nat /\ "KOReported" \in ReportType /\ "AttackReported" \in ReportType
  BY ClientIs DEF ReportType
<1>2. PICK seq \in Nat, len \in Nat : seq = client[p].seq /\ len = Len(clears)
  BY <1>1, LenProperties
<1>3. /\ DOMAIN clears = 1 .. len
      /\ \A i \in 1 .. len : clears[i] \in AttackLines /\ seq + i - 1 \in Nat
  BY <1>2, LenProperties, ElementOfSeq
<1> DEFINE attack == [i \in 1 .. len |-> Versus!Report(p, "AttackReported", seq + i - 1, clears[i])]
           Attacks == {attack[i] : i \in 1 .. len}
           KOs == {Versus!Report(p, "KOReported", seq + len, 0) : d \in {dies} \ {FALSE}}
<1>4. ms = Attacks \union KOs
  BY <1>2, <1>3 DEF Versus!LockReports
<1>5. ASSUME NEW i \in 1 .. len
      PROVE  /\ attack[i] \in ReportSet /\ attack[i].type = "AttackReported"
             /\ attack[i].sender = p /\ attack[i].match = client[p].match
             /\ attack[i].seq = seq + i - 1
  <2>1. PICK k, m : /\ k \in Nat /\ k = seq + i - 1
                    /\ m = Versus!Report(p, "AttackReported", k, clears[i])
    <3>1. PICK k \in Nat : k = seq + i - 1
      BY <1>3
    <3> QED  BY <3>1
  <2>2. clears[i] \in AttackLines \union {0} /\ attack[i] = m
    BY <1>3, <2>1
  <2> HIDE DEF attack
  <2> QED  BY <1>1, <2>1, <2>2, ReportIsSound
<1>6. PICK ko : ko = Versus!Report(p, "KOReported", seq + len, 0)
  OBVIOUS
<1>7. /\ ko \in ReportSet /\ ko.type = "KOReported" /\ ko.sender = p
      /\ ko.match = client[p].match /\ ko.seq = seq + len
  <2>1. seq + len \in Nat /\ 0 \in AttackLines \union {0}
    BY <1>2
  <2> QED  BY <1>1, <1>6, <2>1, ReportIsSound
<1>8. KOs = IF dies THEN {ko} ELSE {}
  BY <1>6, DeathIs
<1>9. IsFiniteSet(Attacks \union KOs)
  <2>1. IsFiniteSet(1 .. len)
    BY <1>2, FS_Interval
  <2>2. attack \in Surjection(1 .. len, Attacks)
    BY DEF Surjection
  <2>3. IsFiniteSet(Attacks)
    BY <2>1, <2>2, FS_Surjection
  <2>4. IsFiniteSet(KOs)
    <3> HIDE DEF KOs
    <3>1. IsFiniteSet({ko}) /\ IsFiniteSet({})
      BY FS_EmptySet, FS_Singleton
    <3> QED  BY <1>8, <3>1
  <2> HIDE DEF Attacks, KOs
  <2> QED  BY <2>3, <2>4, FS_Union
<1>10. ASSUME NEW m \in ms
       PROVE  \/ \E i \in 1 .. len : m = attack[i]
              \/ m = ko /\ dies
  BY <1>4, <1>8
<1>11. dies => ko \in ms
  BY <1>4, <1>8
<1> HIDE DEF attack, Attacks, KOs
<1>12. last = seq + len + (IF dies THEN 1 ELSE 0) /\ last \in Nat /\ last >= seq
  BY <1>2
<1>13. ASSUME NEW m \in ms
       PROVE  /\ m \in ReportSet /\ m.sender = p /\ m.match = client[p].match
              /\ seq <= m.seq /\ m.seq < last
              /\ m.type = "KOReported" => m = ko /\ dies
  <2>1. CASE m = ko /\ dies
    BY <1>7, <1>12, <2>1
  <2>2. ASSUME NEW i \in 1 .. len, m = attack[i]
        PROVE  /\ m \in ReportSet /\ m.sender = p /\ m.match = client[p].match
               /\ seq <= m.seq /\ m.seq < last
               /\ m.type # "KOReported"
    <3>1. m.seq = seq + i - 1 /\ m.type = "AttackReported"
      BY <1>5, <2>2
    <3>2. seq <= m.seq /\ m.seq < last
      BY <1>12, <3>1
    <3> QED  BY <1>5, <2>2, <3>1, <3>2
  <2> QED  BY <1>10, <2>1, <2>2
<1>14. ASSUME NEW m \in ms, NEW n \in ms, m.seq = n.seq
       PROVE  m = n
  <2>1. \A i \in 1 .. len : attack[i].seq = seq + i - 1 /\ seq + i - 1 # seq + len
    BY <1>5
  <2>2. \A i, k \in 1 .. len : seq + i - 1 = seq + k - 1 => i = k
    OBVIOUS
  <2> QED  BY <1>7, <1>10, <1>14, <2>1, <2>2
<1>15. dies => \E m \in ms : m.type = "KOReported"
  BY <1>7, <1>11
<1>16. last >= client[p].seq /\ \A m \in ms : client[p].seq <= m.seq
  BY <1>2, <1>12, <1>13
<1> QED  BY <1>4, <1>9, <1>12, <1>13, <1>14, <1>15, <1>16

(***************************************************************************)
(* A lock is a step of a client; one after which the player is dead        *)
(* reports it.                                                             *)
(***************************************************************************)
LEMMA LockStep ==
  ASSUME IInv, NEW p \in Players, Lock(p)
  PROVE  \E clears, dies :
           /\ clears \in Seq(AttackLines) /\ dies \in BOOLEAN
           /\ Versus!Lock(p, clears, dies) /\ Reports(Versus!LockReports(p, clears, dies))
           /\ \E c : /\ ClientGoesOn(p, c, Versus!LockReports(p, clears, dies))
                     /\ c.running /\ (dies \/ c.alive)
<1>1. PICK clears \in SeqOf(AttackLines, MaxReports), toppedOut \in BOOLEAN,
           collides \in BOOLEAN :
        /\ Versus!Lock(p, clears, Versus!Dies(p, toppedOut, collides))
        /\ Reports(Versus!LockReports(p, clears, Versus!Dies(p, toppedOut, collides)))
  BY DEF Lock
<1>2. PICK dies \in BOOLEAN : dies = Versus!Dies(p, toppedOut, collides)
  BY DEF Versus!Dies
<1>3. /\ Versus!Lock(p, clears, dies) /\ Reports(Versus!LockReports(p, clears, dies))
      /\ clears \in Seq(AttackLines)
      /\ UNCHANGED serverVars
  <2>1. clears \in Seq(AttackLines)
    <3>1. PICK n \in Nat : clears \in [1 .. n -> AttackLines]
      BY DuelAssumption DEF SeqOf
    <3> QED  BY <3>1, SeqDef
  <2> QED  BY <1>1, <1>2, <2>1 DEF Lock
<1> DEFINE ms == Versus!LockReports(p, clears, dies)
           seq == client[p].seq + Len(clears) + IF dies THEN 1 ELSE 0
           c == [client[p] EXCEPT !.garbage = 0, !.alive = ~dies, !.seq = seq]
<1>4. client[p].running /\ client[p].alive
  BY <1>3 DEF Versus!Lock, Versus!Playing
<1>5. /\ seq \in Nat /\ seq >= client[p].seq
      /\ \A m \in ms : /\ m \in ReportSet /\ m.sender = p /\ m.match = client[p].match
                       /\ client[p].seq <= m.seq /\ m.seq < seq
      /\ \A m, n \in ms : m.seq = n.seq => m = n
  <2> HIDE DEF ms, seq
  <2> SUFFICES LET last == seq IN
               /\ last \in Nat /\ last >= client[p].seq
               /\ \A m \in ms : /\ m \in ReportSet /\ m.sender = p /\ m.match = client[p].match
                                /\ client[p].seq <= m.seq /\ m.seq < last
               /\ \A m, n \in ms : m.seq = n.seq => m = n
    OBVIOUS
  <2> QED  BY <1>3, <1>4, LockReportsAre DEF ms, seq
<1>6. client' = [client EXCEPT ![p].garbage = 0, ![p].alive = ~dies,
                   ![p].seq = @ + Len(clears) + IF dies THEN 1 ELSE 0]
  BY <1>3 DEF Versus!Lock
<1>7. /\ client \in [Players -> ClientState(lastId)] /\ client[p] \in ClientState(lastId)
      /\ client[p].seq \in Nat /\ MaxGarbage \in Nat
  BY ClientIs, DuelAssumption
<1>8. client[p] = [match |-> client[p].match, opponent |-> client[p].opponent,
                   running |-> client[p].running, alive |-> client[p].alive,
                   garbage |-> client[p].garbage, seq |-> client[p].seq]
  BY <1>7 DEF ClientState
<1>9. wire' \subseteq wire \union Away(ms)
  BY <1>3 DEF Reports, Away
<1> HIDE DEF ms
<1>10. client' = [client EXCEPT ![p] = c]
  BY <1>6, <1>7, <1>8
<1> HIDE DEF seq
<1>11. PICK lives \in BOOLEAN : lives = ~dies
  OBVIOUS
<1>12. c = [client[p] EXCEPT !.garbage = 0, !.alive = lives, !.seq = seq]
  BY <1>11
<1>13. 0 \in 0 .. MaxGarbage
  BY <1>7
<1>14. /\ c \in ClientState(lastId) /\ c.match = client[p].match
       /\ c.opponent = client[p].opponent /\ c.running = client[p].running /\ c.seq = seq
       /\ c.alive = lives
  <2> HIDE DEF c
  <2> QED  BY <1>5, <1>7, <1>8, <1>12, <1>13 DEF ClientState
<1>15. ClientGoesOn(p, c, ms)
  <2> HIDE DEF c
  <2> QED  BY <1>3, <1>4, <1>5, <1>9, <1>10, <1>14 DEF ClientGoesOn
<1>16. c.running /\ (dies \/ c.alive)
  <2> HIDE DEF c
  <2> QED  BY <1>4, <1>11, <1>14
<1> HIDE DEF c
<1> QED  BY <1>3, <1>15, <1>16 DEF ms

(* A hold that tops out is a step of a client that reports one KO. *)
LEMMA HoldTopsOutStep ==
  ASSUME IInv, NEW p \in Players, HoldTopsOut(p)
  PROVE  \E c, m :
           /\ ClientGoesOn(p, c, {m}) /\ Reports({m}) /\ m.type = "KOReported"
           /\ c.running
<1> DEFINE seq == client[p].seq + 1
           c == [client[p] EXCEPT !.alive = FALSE, !.seq = seq]
<1>1. /\ Versus!HoldTopsOut(p) /\ UNCHANGED serverVars
      /\ Reports({Versus!Report(p, "KOReported", client[p].seq, 0)})
  BY DEF HoldTopsOut
<1>2. PICK m : m = Versus!Report(p, "KOReported", client[p].seq, 0)
  OBVIOUS
<1>3. client[p].running /\ client[p].alive
  BY <1>1 DEF Versus!HoldTopsOut, Versus!Playing
<1>4. /\ client \in [Players -> ClientState(lastId)] /\ client[p] \in ClientState(lastId)
      /\ client[p].seq \in Nat
  BY ClientIs
<1>5. "KOReported" \in ReportType /\ 0 \in AttackLines \union {0}
  BY DEF ReportType
<1>6. /\ m \in ReportSet /\ m.sender = p /\ m.match = client[p].match /\ m.seq = client[p].seq
      /\ m.type = "KOReported"
  BY <1>2, <1>3, <1>4, <1>5, ReportIsSound
<1>7. client[p] = [match |-> client[p].match, opponent |-> client[p].opponent,
                   running |-> client[p].running, alive |-> client[p].alive,
                   garbage |-> client[p].garbage, seq |-> client[p].seq]
  BY <1>4 DEF ClientState
<1>8. client' = [client EXCEPT ![p] = c]
  BY <1>1, <1>4, <1>7 DEF Versus!HoldTopsOut
<1>9. seq \in Nat /\ seq >= client[p].seq /\ client[p].seq <= m.seq /\ m.seq < seq
  BY <1>4, <1>6
<1> HIDE DEF seq
<1>10. PICK dead \in BOOLEAN : dead = FALSE
  OBVIOUS
<1>11. c = [client[p] EXCEPT !.alive = dead, !.seq = seq]
  BY <1>10
<1> HIDE DEF c
<1>12. /\ c \in ClientState(lastId) /\ c.match = client[p].match
       /\ c.opponent = client[p].opponent /\ c.running = client[p].running /\ c.seq = seq
  BY <1>4, <1>7, <1>9, <1>11 DEF ClientState
<1>13. wire' \subseteq wire \union Away({m})
  BY <1>1, <1>2 DEF Reports, Away
<1>14. ClientGoesOn(p, c, {m})
  BY <1>1, <1>3, <1>6, <1>8, <1>9, <1>12, <1>13 DEF ClientGoesOn
<1> QED  BY <1>1, <1>2, <1>3, <1>6, <1>12, <1>14

-----------------------------------------------------------------------------
(* The initial states and every step. *)

(***************************************************************************)
(* The room at the beginning: everyone has a place, and the active ones    *)
(* fill a line-up.                                                         *)
(***************************************************************************)
LEMMA FirstLine ==
  ASSUME Init
  PROVE  RoomSound /\ LineOf(active)
<1> DEFINE N == Cardinality(Players)
<1>1. PICK line \in [1 .. N -> Players] :
        /\ ToSet(line) = Players
        /\ active = SubSeq(line, 1, ActiveCount)
        /\ waiting = SubSeq(line, ActiveCount + 1, Len(line))
  BY DEF Init
<1>2. /\ N \in Nat /\ ActiveCount \in Nat \ {0} /\ WaitingCapacity \in Nat
      /\ ActiveCount <= N /\ N <= ActiveCount + WaitingCapacity
      /\ IsFiniteSet(Players)
  <2>1. N \in ActiveCount .. ActiveCount + WaitingCapacity
    BY RoomAssumption
  <2> HIDE DEF N
  <2> QED  BY <2>1, QueueAssumptions, RoomAssumption
<1>3. IsFiniteSet(1 .. N) /\ Cardinality(1 .. N) = N
  <2> HIDE DEF N
  <2> QED  BY <1>2, FS_Interval
<1>4. line \in Surjection(1 .. N, Players)
  BY <1>1 DEF Surjection, ToSet
<1>5. line \in Injection(1 .. N, Players)
  BY <1>2, <1>3, <1>4, FS_SurjSameCardinalityImpliesInj
<1> HIDE DEF N
<1>6. line \in Seq(Players) /\ Len(line) = N /\ DOMAIN line = 1 .. N
  BY <1>1, <1>2, SeqDef, LenProperties
<1>7. \A i, j \in DOMAIN line : line[i] = line[j] => i = j
  BY <1>5, <1>6 DEF Injection, IsInjective
<1>8. \A i \in 1 .. N : line[i] \in Players
  BY <1>1
<1>9. /\ active \in Seq(Players) /\ Len(active) = ActiveCount
      /\ \A i \in 1 .. ActiveCount : active[i] = line[i]
  <2>1. \A i \in 1 .. ActiveCount : line[i] \in Players
    BY <1>2, <1>8
  <2> QED  BY <1>1, <1>2, <2>1, SubSeqProperties
<1>10. waiting \in Seq(Players) /\ Len(waiting) <= WaitingCapacity
  <2>1. \A i \in ActiveCount + 1 .. N : line[i] \in Players
    BY <1>2, <1>8
  <2>2. ActiveCount + 1 \in Int /\ N \in Int /\ waiting = SubSeq(line, ActiveCount + 1, N)
    BY <1>1, <1>2, <1>6
  <2>3. /\ waiting \in Seq(Players)
        /\ Len(waiting) = IF ActiveCount + 1 <= N THEN N - (ActiveCount + 1) + 1 ELSE 0
    BY <2>1, <2>2, SubSeqProperties
  <2> QED  BY <1>2, <2>3
<1>11. active \o waiting = line
  <2>1. active \o waiting = SubSeq(line, 1, Len(line))
    BY <1>1, <1>2, <1>6, ConcatAdjacentSubSeq
  <2> QED  BY <1>6, <2>1, SubSeqFull
<1>12. RoomSound
  BY <1>2, <1>7, <1>9, <1>10, <1>11
     DEF RoomSound, Queue!TypeOK, Queue!NoIdlePlace, Queue!NobodyTwice, Queue!IsInjective
<1>13. LineOf(active)
  BY <1>9, <1>12, LineUpIs
<1> QED  BY <1>12, <1>13

(* start_if_ready with a full line-up starts a match without points or lines. *)
LEMMA MatchOfIs ==
  ASSUME NEW line, LineOf(line), NEW id \in Nat, NEW m, m = Matches!StartIfReady(NoMatch, id, line)
  PROVE  /\ MatchShape(m, line, id) /\ m # NoMatch
         /\ \A p \in ToSet(line) : m.ko[p] = 0 /\ m.sent[p] = 0
<1>1. /\ line \in Seq(Players) /\ Len(line) = ActiveCount /\ ActiveCount \in Nat \ {0}
      /\ ToSet(line) \subseteq Players
  BY LineHasPlayers, QueueAssumptions DEF LineOf
<1>2. SubSeq(line, 1, ActiveCount) = line
  BY <1>1, SubSeqFull
<1>3. m = Matches!MatchOf(id, line)
  <2>1. ~(NoMatch # NoMatch \/ Len(line) < ActiveCount)
    BY <1>1
  <2> QED  BY <1>2, <2>1 DEF Matches!StartIfReady
<1> DEFINE nought == [p \in ToSet(line) |-> 0]
<1>4. m = [id |-> id, players |-> line, ko |-> nought, sent |-> nought, garbage |-> nought,
           nextSeq |-> 1]
  BY <1>3 DEF Matches!MatchOf, Matches!ToSet, ToSet
<1>5. nought \in [ToSet(line) -> 0 .. KoTarget - 1] /\ nought \in [ToSet(line) -> Nat]
  BY QueueAssumptions
<1>8. \A p \in ToSet(line) : nought[p] = 0
  OBVIOUS
<1> HIDE DEF nought
<1>6. /\ m = [id |-> m.id, players |-> m.players, ko |-> m.ko, sent |-> m.sent,
              garbage |-> m.garbage, nextSeq |-> m.nextSeq]
      /\ m.id = id /\ m.players = line /\ m.ko = nought /\ m.sent = nought
      /\ m.garbage = nought /\ m.nextSeq = 1
  BY <1>4
<1>7. m # NoMatch
  <2> DEFINE counts == UNION {[ps -> Nat] : ps \in SUBSET Players}
             Records == [id : Nat, players : Seq(Players), ko : counts, sent : counts,
                         garbage : counts, nextSeq : Nat]
  <2>1. NoMatch \notin Records
    BY NoMatchAssumption
  <2>2. nought \in counts
    BY <1>1, <1>5
  <2> HIDE DEF counts
  <2>3. m \in Records
    BY <1>1, <1>4, <2>2
  <2> QED  BY <2>1, <2>3
<1> QED  BY <1>1, <1>5, <1>6, <1>7, <1>8 DEF MatchShape

(***************************************************************************)
(* At the beginning the first match has been started, and its MatchStart   *)
(* is all there is on the wire, once for each player.                      *)
(***************************************************************************)
LEMMA FirstStart ==
  ASSUME Init
  PROVE  /\ MatchShape(match, active, 1) /\ match # NoMatch /\ lastId = 1
         /\ \A p \in ToSet(active) : match.ko[p] = 0 /\ match.sent[p] = 0
         /\ pending = {} /\ received = {} /\ client = [p \in Players |-> Versus!None]
         /\ \A d \in wire :
              /\ d.to \in ToSet(active) /\ d.to \in Players /\ d.to # Server
              /\ d.msg.type = "MatchStart" /\ d.msg.match = 1 /\ d.msg.players = active
              /\ IsStart(d.msg)
              /\ \A e \in wire : e.to = d.to => e = d
<1>1. /\ match = Matches!StartIfReady(NoMatch, 1, active) /\ lastId = 1
      /\ pending = {} /\ received = {} /\ client = [p \in Players |-> Versus!None]
      /\ wire = Datagrams({Matches!MatchStart(match)})
  BY DEF Init, Channel!Init, Versus!Init
<1>2. LineOf(active)
  BY FirstLine
<1>3. /\ MatchShape(match, active, 1) /\ match # NoMatch
      /\ \A p \in ToSet(active) : match.ko[p] = 0 /\ match.sent[p] = 0
  <2> HIDE DEF MatchShape
  <2> QED  BY <1>1, <1>2, MatchOfIs
<1>4. PICK m : m = Matches!MatchStart(match)
  OBVIOUS
<1>5. m.type = "MatchStart" /\ m.match = 1 /\ m.players = active
  BY <1>3, <1>4 DEF Matches!MatchStart, MatchShape
<1>6. ASSUME NEW d \in wire
      PROVE  /\ d.msg = m /\ d.to \in ToSet(active) /\ d = [to |-> d.to, msg |-> d.msg]
  <2>1. d.msg \in {m} /\ d.to \in Recipients(d.msg) /\ d = [to |-> d.to, msg |-> d.msg]
    BY <1>1, <1>4, <1>6, InDatagrams
  <2> QED  BY <1>5, <2>1 DEF Recipients
<1>7. ToSet(active) \subseteq Players /\ 1 \in 1 .. lastId
  BY <1>1, <1>2, LineHasPlayers
<1>8. IsStart(m)
  BY <1>2, <1>5, <1>7 DEF IsStart
<1>9. ASSUME NEW d \in wire
      PROVE  /\ d.to \in ToSet(active) /\ d.to \in Players /\ d.to # Server
             /\ d.msg.type = "MatchStart" /\ d.msg.match = 1 /\ d.msg.players = active
             /\ IsStart(d.msg)
             /\ \A e \in wire : e.to = d.to => e = d
  BY <1>5, <1>6, <1>7, <1>8, <1>9, QueueAssumptions
<1> QED  BY <1>1, <1>3, <1>9

(* The invariant holds at the beginning. *)
LEMMA InitInv == Init => IInv
<1> SUFFICES ASSUME Init PROVE IInv
  OBVIOUS
<1>1. /\ MatchShape(match, active, 1) /\ match # NoMatch /\ lastId = 1
      /\ pending = {} /\ received = {} /\ client = [p \in Players |-> Versus!None]
      /\ \A d \in wire :
           /\ d.to \in ToSet(active) /\ d.to \in Players /\ d.to # Server
           /\ d.msg.type = "MatchStart" /\ d.msg.match = 1 /\ IsStart(d.msg)
           /\ \A e \in wire : e.to = d.to => e = d
  BY FirstStart
<1>2. RoomSound
  BY FirstLine
<1>3. MatchSound /\ match.id = 1
  BY <1>1 DEF MatchSound, MatchShape
<1>4. ClientSound
  <2>1. PICK no, yes : no = FALSE /\ yes = TRUE
    OBVIOUS
  <2>2. no \in BOOLEAN /\ yes \in BOOLEAN
    BY <2>1
  <2>7. lastId \in Nat /\ MaxGarbage \in Nat
    BY <1>1, DuelAssumption
  <2>8. 0 \in 0 .. lastId /\ 0 \in 0 .. MaxGarbage /\ 0 \in Nat
    BY <2>7
  <2>3. Versus!None = [match |-> 0, opponent |-> NoPlayer, running |-> no, alive |-> yes,
                       garbage |-> 0, seq |-> 0]
    BY <2>1 DEF Versus!None
  <2>4. Versus!None \in ClientState(lastId) /\ Versus!None.match = 0 /\ ~Versus!None.running
    BY <2>1, <2>2, <2>3, <2>8 DEF ClientState
  <2>5. \A p \in Players : client[p] = Versus!None
    BY <1>1
  <2>6. client \in [Players -> ClientState(lastId)]
    <3> HIDE DEF ClientState
    <3> QED  BY <1>1, <2>4
  <2> QED  BY <2>4, <2>5, <2>6 DEF ClientSound
<1>5. \A p \in Players : client[p].match = 0
  BY <1>1 DEF Versus!None
<1>6. WireSound
  BY <1>1 DEF WireSound
<1>7. ChannelSound
  BY <1>1 DEF ChannelSound
<1>8. InLine
  BY <1>1, <1>3, <1>5 DEF InLine, Running
<1>9. Used = {}
  BY <1>1 DEF Used
<1>10. NumbersFresh
  BY <1>1, <1>5, <1>9 DEF NumbersFresh
<1>11. AssignedFresh
  <2>1. Outgoing = {}
    BY <1>1 DEF Outgoing, Sent, AssignedType
  <2> QED  BY <2>1 DEF AssignedFresh
<1>12. EndsAreOver
  BY <1>1 DEF EndsAreOver
<1>13. StoppedMeansOver
  BY <1>5 DEF StoppedMeansOver
<1> QED  BY <1>2, <1>3, <1>4, <1>6, <1>7, <1>8, <1>10, <1>11, <1>12, <1>13 DEF IInv

(* The invariant survives a step in which nothing changes. *)
LEMMA StutterInv ==
  ASSUME IInv, UNCHANGED vars
  PROVE  IInv'
<1>1. wire' \subseteq wire \union Datagrams({}) /\ received' \subseteq Used
  BY DEF vars, serverVars, Used
<1>2. ServerMoves({})
  BY <1>1, MatchKept DEF ServerMoves, vars, serverVars
<1> QED  BY <1>2, ServerStep

(* The invariant survives the reading of any datagram by a client. *)
LEMMA ReceiveStep ==
  ASSUME ActiveCount # 1, IInv, NEW d \in wire, Receive(d)
  PROVE  IInv'
<1>1. CASE d.msg.type = "MatchStart"
  <2>1. /\ d.to \in Players /\ UNCHANGED serverVars /\ wire' = wire \ {d}
        /\ \E seq \in {0, client[d.to].seq} : Versus!HandleMatchStart(d.to, d.msg, seq)
    BY <1>1, RemainingIs DEF Receive
  <2> QED  BY <1>1, <2>1, StartStep
<1>2. CASE d.msg.type # "MatchStart"
  BY <1>2, ReceiveGoesOn, ClientStep
<1> QED  BY <1>1, <1>2

(* The invariant survives every step. *)
LEMMA NextInv ==
  ASSUME ActiveCount # 1, IInv, [Next]_vars
  PROVE  IInv'
<1>1. ASSUME NEW p \in Players, Lock(p) \/ HoldTopsOut(p)
      PROVE  IInv'
  BY <1>1, LockStep, HoldTopsOutStep, ClientStep
<1>2. ASSUME NEW d \in wire, HandleStale(d) \/ HandleCopy(d) \/ HandleAttack(d) \/ HandleKO(d)
      PROVE  IInv'
  BY <1>2, HandleStaleStep, HandleAttackStep, HandleKOStep, ServerStep
<1>3. ASSUME NEW d \in wire, Receive(d)
      PROVE  IInv'
  BY <1>3, ReceiveStep
<1>4. ASSUME TickMatch \/ Resend
      PROVE  IInv'
  BY <1>4, TickMatchStep, ResendStep, ServerStep
<1>5. CASE UNCHANGED vars
  BY <1>5, StutterInv
<1> QED  BY <1>1, <1>2, <1>3, <1>4, <1>5 DEF Next

(***************************************************************************)
(* The inductive invariant holds of every behaviour, for any number of     *)
(* players, any targets and any bounds, whether or not the network         *)
(* repeats. With one active player a MatchStart would name no opponent.    *)
(***************************************************************************)
THEOREM Invariance ==
  ASSUME ActiveCount # 1
  PROVE  Spec => []IInv
<1>1. IInv /\ [Next]_vars => IInv'
  BY NextInv
<1> QED  BY InitInv, <1>1, PTL DEF Spec

-----------------------------------------------------------------------------
(* The properties. *)

(***************************************************************************)
(* With two players or more in a match, every variable of the server, the  *)
(* clients and the network stays in its type: nobody gets points in a      *)
(* match they do not play, and nobody has as many as the target while the  *)
(* match goes on.                                                          *)
(***************************************************************************)
THEOREM TypeCorrect ==
  ASSUME ActiveCount # 1
  PROVE  Spec => []TypeOK
<1>1. IInv => TypeOK
  <2> SUFFICES ASSUME IInv PROVE TypeOK
    OBVIOUS
  <2>1. Queue!TypeOK /\ lastId \in Nat
    BY DEF IInv, RoomSound, MatchSound
  <2>2. ASSUME match # NoMatch
        PROVE  /\ match.id = lastId
               /\ match.ko \in [Matches!InMatch -> 0 .. KoTarget - 1]
               /\ match.sent \in [Matches!InMatch -> Nat]
               /\ match.garbage \in [Matches!InMatch -> Nat]
               /\ match.nextSeq \in Nat
    BY <2>2, MatchIs
  <2>3. client \in [Players -> ClientState(lastId)]
    BY DEF IInv, ClientSound
  <2>4. \A m \in pending : m.type \in AssignedType /\ m.target \in Players
    BY DEF IInv, ChannelSound, IsAssigned
  <2>5. received \subseteq [sender : Players, match : 1 .. lastId, seq : Nat]
    BY DEF IInv, ChannelSound
  <2>6. \A d \in wire : d.to = Server => d.msg \in ReportSet
    BY OldMatches
  <2> QED  BY <2>1, <2>2, <2>3, <2>4, <2>5, <2>6 DEF TypeOK, ClientState
<1> QED  BY Invariance, <1>1, PTL

(***************************************************************************)
(* The messages one attack or KO makes, and those of all others before it, *)
(* have numbers of their own, so an acknowledgement that names a number    *)
(* means one message.                                                      *)
(***************************************************************************)
THEOREM EachHasItsNumberHolds ==
  ASSUME ActiveCount # 1
  PROVE  Spec => []EachHasItsNumber
<1>1. IInv => EachHasItsNumber
  BY DEF IInv, AssignedFresh, Outgoing, EachHasItsNumber
<1> QED  BY Invariance, <1>1, PTL

(***************************************************************************)
(* A client that has stopped playing a match has done so because that      *)
(* match is over on the server, however late the messages of other matches *)
(* arrive.                                                                 *)
(***************************************************************************)
THEOREM StoppedMeansOverHolds ==
  ASSUME ActiveCount # 1
  PROVE  Spec => []StoppedMeansOver
<1>1. IInv => StoppedMeansOver
  BY DEF IInv
<1> QED  BY Invariance, <1>1, PTL

-----------------------------------------------------------------------------
(* The match as a life of MatchLifecycle. *)

(* The outline of a match is one, and is no match only when there is none. *)
LEMMA OutlineIs ==
  ASSUME IInv, match # NoMatch
  PROVE  /\ Matches!Outline = [players |-> active, ko |-> match.ko, left |-> 0]
         /\ Matches!Outline # NoMatch /\ Matches!Outline.players = active
         /\ Matches!Outline.ko = match.ko /\ Matches!Outline.left = 0
<1>1. /\ match.players = active /\ active \in Seq(Players) /\ ToSet(active) \subseteq Players
      /\ match.ko \in [ToSet(active) -> 0 .. KoTarget - 1]
  BY MatchIs DEF LineOf
<1>2. Matches!Outline = [players |-> active, ko |-> match.ko, left |-> 0]
  BY <1>1 DEF Matches!Outline
<1>3. Matches!Outline # NoMatch
  <2> DEFINE counts == UNION {[ps -> Nat] : ps \in SUBSET Players}
             Records == [players : Seq(Players), ko : counts, left : {0}]
  <2>1. NoMatch \notin Records
    BY NoMatchAssumption
  <2>2. match.ko \in [ToSet(active) -> Nat]
    BY <1>1, QueueAssumptions
  <2>3. match.ko \in counts
    BY <1>1, <2>2
  <2> HIDE DEF counts
  <2>4. Matches!Outline \in Records
    BY <1>1, <1>2, <2>3
  <2> QED  BY <2>1, <2>4
<1> QED  BY <1>2, <1>3

(* A match of full places that has just been started. *)
LEMMA FreshIs ==
  ASSUME NEW line, LineOf(line), NEW m,
         m = [players |-> line, ko |-> [p \in ToSet(line) |-> 0], left |-> 0]
  PROVE  m \in Matches!Life!Succession(NoMatch)
<1>1. line \in Seq(Players) /\ Len(line) = ActiveCount /\ ActiveCount \in Nat \ {0}
  BY QueueAssumptions DEF LineOf
<1>2. line \in Matches!Life!Lineups
  BY <1>1, LenProperties DEF Matches!Life!Lineups
<1>3. SubSeq(line, 1, ActiveCount) = line
  BY <1>1, SubSeqFull
<1>4. ~(NoMatch # NoMatch \/ Len(line) < ActiveCount)
  BY <1>1
<1>5. Matches!Life!StartIfReady(NoMatch, line) = m
  BY <1>3, <1>4 DEF Matches!Life!StartIfReady, Matches!Life!Fresh, Matches!Life!ToSet, ToSet
<1> QED  BY <1>2, <1>5 DEF Matches!Life!Succession

(* What follows a match that has ended. *)
LEMMA NextIsSuccession ==
  ASSUME IInv, NEW w \in Players \union {NoPlayer}, Rotate(w), match' = NextMatch
  PROVE  Matches!Outline' \in Matches!Life!Succession(NoMatch)
<1>1. RoomSound' /\ lastId \in Nat /\ lastId' = lastId + Cardinality(StartOutputs)
  BY RotateKeepsRoom DEF IInv, MatchSound, Rotate
<1>2. CASE NextMatch = NoMatch
  <2>1. Matches!Outline' = NoMatch
    BY <1>2 DEF Matches!Outline
  <2> QED  BY <2>1 DEF Matches!Life!Succession
<1>3. CASE NextMatch # NoMatch
  <2>1. match' = Matches!MatchOf(lastId + 1, active') /\ LineOf(active') /\ match' # NoMatch
    BY <1>1, <1>3, NextMatchIs
  <2>2. match'.players = active' /\ match'.ko = [p \in ToSet(active') |-> 0]
    BY <2>1 DEF Matches!MatchOf, Matches!ToSet, ToSet
  <2>3. Matches!Outline' =
          [players |-> active', ko |-> [p \in ToSet(active') |-> 0], left |-> 0]
    BY <2>1, <2>2 DEF Matches!Outline
  <2> QED  BY <2>1, <2>3, FreshIs
<1> QED  BY <1>2, <1>3

(* The first match is a beginning of MatchLifecycle. *)
LEMMA FirstLife == Init => Matches!Life!Init
<1> SUFFICES ASSUME Init PROVE Matches!Life!Init
  OBVIOUS
<1>1. /\ match = Matches!StartIfReady(NoMatch, 1, active) /\ LineOf(active)
  BY FirstLine DEF Init
<1>2. MatchShape(match, active, 1) /\ match # NoMatch /\ \A p \in ToSet(active) : match.ko[p] = 0
  BY <1>1, MatchOfIs
<1>3. match.players = active /\ match.ko = [p \in ToSet(active) |-> 0]
  BY <1>2 DEF MatchShape
<1>4. Matches!Outline = [players |-> active, ko |-> [p \in ToSet(active) |-> 0], left |-> 0]
  BY <1>2, <1>3 DEF Matches!Outline
<1> QED  BY <1>1, <1>4, FreshIs DEF Matches!Life!Init

(* An outline that stays is a stutter. *)
LEMMA OutlineStays ==
  ASSUME \/ match' = match
         \/ /\ match # NoMatch /\ match' # NoMatch
            /\ match'.players = match.players /\ match'.ko = match.ko
  PROVE  Matches!Outline' = Matches!Outline
BY DEF Matches!Outline

(* The report of a top-out is a knock-out. *)
LEMMA KOIsKnockedOut ==
  ASSUME ActiveCount # 1, IInv, NEW d \in wire, HandleKO(d)
  PROVE  Matches!Life!KnockedOut(d.msg.sender)
<1> DEFINE s == d.msg.sender
           o == Matches!OpponentOf(s)
<1>1. /\ match # NoMatch /\ s \in ToSet(active) /\ s \in Players
      /\ o \in Players \union {NoPlayer}
      /\ (o = NoPlayer /\ ToSet(active) \subseteq {s}) \/ o \in ToSet(active) \ {s}
      /\ Matches!KoTargetReached(d.msg) <=> match.ko[o] + 1 >= KoTarget
  BY KOIs
<1>2. LineOf(active) /\ ToSet(active) \subseteq Players
  BY <1>1, MatchIs
<1>3. o # NoPlayer
  BY <1>1, <1>2, LineHasPlayers, QueueAssumptions
<1>4. /\ Matches!Outline = [players |-> active, ko |-> match.ko, left |-> 0]
      /\ Matches!Outline # NoMatch /\ Matches!Outline.players = active
      /\ Matches!Outline.ko = match.ko
  BY <1>1, OutlineIs
<1>5. s \in Matches!Life!InMatch(Matches!Outline)
  BY <1>1, <1>4 DEF Matches!Life!InMatch, Matches!Life!ToSet, ToSet
<1>6. Matches!Life!OpponentOf(Matches!Outline, s) = o
  <2>1. match.players = active
    BY <1>1, MatchIs
  <2> QED  BY <1>4, <2>1 DEF Matches!OpponentOf, Matches!Life!OpponentOf
<1>7. Matches!Life!KoTargetReached(Matches!Outline, s) <=> match.ko[o] + 1 >= KoTarget
  BY <1>4, <1>6 DEF Matches!Life!KoTargetReached
<1>8. CASE Matches!KoTargetReached(d.msg)
  <2>1. Rotate(o) /\ match' = NextMatch
    BY <1>8 DEF HandleKO, Matches!HandleKO
  <2>2. Matches!Outline' \in Matches!Life!Succession(NoMatch)
    BY <1>1, <2>1, NextIsSuccession
  <2> QED  BY <1>1, <1>3, <1>5, <1>6, <1>7, <1>8, <2>2 DEF Matches!Life!KnockedOut
<1>9. CASE ~Matches!KoTargetReached(d.msg)
  <2>1. PICK ko : ko = [match.ko EXCEPT ![o] = @ + 1]
    OBVIOUS
  <2>2. /\ match'.players = active /\ match'.ko = ko /\ match' # NoMatch
    BY <1>1, <1>9, <2>1, KOGoesOn, MatchIs
  <2>3. Matches!Outline' = [players |-> active, ko |-> ko, left |-> 0]
    BY <2>2 DEF Matches!Outline
  <2>4. Matches!Life!KoScored(Matches!Outline, s) = [Matches!Outline EXCEPT !.ko[o] = @ + 1]
    BY <1>6 DEF Matches!Life!KoScored
  <2> HIDE DEF s, o
  <2>5. [Matches!Outline EXCEPT !.ko[o] = @ + 1] = [players |-> active, ko |-> ko, left |-> 0]
    BY <1>4, <2>1
  <2>6. Matches!Outline' \in {Matches!Life!KoScored(Matches!Outline, s)}
    BY <2>3, <2>4, <2>5
  <2> QED  BY <1>1, <1>3, <1>5, <1>6, <1>7, <1>9, <2>6 DEF Matches!Life!KnockedOut, s, o
<1> QED  BY <1>8, <1>9

(* The match whose time is up is over. *)
LEMMA TickIsOver ==
  ASSUME IInv, TickMatch
  PROVE  Matches!Life!Over
<1>1. PICK winner \in Players \union {NoPlayer} : Rotate(winner) /\ match' = NextMatch
  BY TickMatchStep
<1>2. Matches!Life!TimeIsUp(Matches!Outline)
  BY DEF TickMatch, Matches!Tick
<1>3. Matches!Outline' \in Matches!Life!Succession(NoMatch)
  BY <1>1, NextIsSuccession
<1> QED  BY <1>2, <1>3 DEF Matches!Life!Over

(* Every step is a step of MatchLifecycle or leaves the outline alone. *)
LEMMA NextLife ==
  ASSUME ActiveCount # 1, IInv, [Next]_vars
  PROVE  Matches!Life!Next \/ Matches!Outline' = Matches!Outline
<1>1. ASSUME match' = match
      PROVE  Matches!Outline' = Matches!Outline
  BY <1>1, OutlineStays
<1>2. ASSUME NEW d \in wire, HandleAttack(d)
      PROVE  Matches!Outline' = Matches!Outline
  BY <1>2, AttackIs, AttackGoesOn, OutlineStays
<1>3. ASSUME NEW d \in wire, HandleKO(d)
      PROVE  Matches!Life!Next
  <2>1. d.msg.sender \in Players
    BY <1>3, KOIs
  <2> QED  BY <1>3, <2>1, KOIsKnockedOut DEF Matches!Life!Next
<1>4. ASSUME TickMatch
      PROVE  Matches!Life!Next
  BY <1>4, TickIsOver DEF Matches!Life!Next
<1>5. ASSUME \/ \E p \in Players : Lock(p) \/ HoldTopsOut(p)
             \/ \E d \in wire : HandleStale(d) \/ HandleCopy(d) \/ Receive(d)
             \/ Resend \/ UNCHANGED vars
      PROVE  match' = match
  BY <1>5 DEF Lock, HoldTopsOut, HandleStale, HandleCopy, Receive, Resend, vars, serverVars
<1> QED  BY <1>1, <1>2, <1>3, <1>4, <1>5 DEF Next

(***************************************************************************)
(* A match played over a network that loses, repeats and delays lives as   *)
(* MatchLifecycle has it, the specification the room of ServerApp is       *)
(* checked with: a KO that is handled is a knock-out, the tick that ends   *)
(* it is its clock, and attacks, resends, copies and everything the        *)
(* clients do are stutters.                                                *)
(***************************************************************************)
THEOREM ImplementsLifecycleHolds ==
  ASSUME ActiveCount # 1
  PROVE  Spec => ImplementsLifecycle
<1>1. IInv /\ [Next]_vars => [Matches!Life!Next]_(Matches!Outline)
  BY NextLife
<1> QED  BY Invariance, FirstLife, <1>1, PTL DEF Spec, ImplementsLifecycle, Matches!Life!Spec
=============================================================================
