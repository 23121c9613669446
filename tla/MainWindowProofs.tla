-------------------------- MODULE MainWindowProofs --------------------------
(***************************************************************************)
(* Proofs about the window: the game that is shown is running, and a       *)
(* connection is polled. A poll and a tick read any number of messages at  *)
(* once; what they leave of the versus session is proved by induction on   *)
(* that number (FoldTheorems).                                             *)
(***************************************************************************)
EXTENDS MainWindow, SequenceTheorems, TLAPS

(* What a poll makes of the messages it reads, one after the other. *)
Polled == INSTANCE FoldTheorems WITH Op <- Runtime!Handles

(* What a tick makes of them. *)
Ticked == INSTANCE FoldTheorems WITH Op <- Runtime!SessionHandles

(***************************************************************************)
(* The inductive invariant: the three invariants of the window need each   *)
(* other and nothing else.                                                 *)
(***************************************************************************)
IInv == TypeOK /\ GameScreenIsLive /\ ConnectedMeansPolled

(* A versus session that has been made. *)
Played == [match : 1 .. MaxMatches, running : BOOLEAN]

(* The client runtime, as TypeOK has it. *)
RuntimeRecord ==
  [net : BOOLEAN, known : BOOLEAN, connection : Runtime!ConnectionState, versus : Session]

(* The server as its client sees it, as TypeOK has it. *)
ServerRecord ==
  [hello : BOOLEAN, session : BOOLEAN, place : Server!Place,
   match : 0 .. MaxMatches, last : 0 .. MaxMatches, lost : BOOLEAN]

(* The inbox, as TypeOK has it. *)
InboxOK == inbox \in Seq(Message) /\ Len(inbox) <= MaxInbox

(* A sequence of one element. *)
LEMMA OneElement ==
  ASSUME NEW S, NEW e \in S
  PROVE  << e >> \in Seq(S) /\ Len(<< e >>) = 1
OBVIOUS

(* What the server sends are messages. *)
LEMMA MessagesHaveTypes ==
  /\ \A type \in {"ServerWelcome", "JoinRejectedRoomFull", "QueueStatus", "ClockSync"} :
       << Server!Msg(type) >> \in Seq(Message)
  /\ \A type \in {"MatchStart", "GarbageAssigned", "MatchEnd"}, m \in 1 .. MaxMatches :
       << Server!MatchMsg(type, m) >> \in Seq(Message)
<1>1. /\ \A type \in {"ServerWelcome", "JoinRejectedRoomFull", "QueueStatus", "ClockSync"} :
           Server!Msg(type) \in Message
      /\ \A type \in {"MatchStart", "GarbageAssigned", "MatchEnd"}, m \in 1 .. MaxMatches :
           Server!MatchMsg(type, m) \in Message
  BY DEF Message, Server!Msg, Server!MatchMsg
<1> QED  BY <1>1, OneElement

(* The network keeps the inbox in its bounds, whatever it loses. *)
LEMMA SendsKeepsInbox ==
  ASSUME InboxOK, NEW ms \in Seq(Message), Server!Sends(ms)
  PROVE  InboxOK'
BY ConcatProperties DEF InboxOK, Server!Sends

(* An answer with the queue status and perhaps a MatchStart after it. *)
LEMMA AnnouncesKeepsTypes ==
  ASSUME InboxOK, NEW first \in Seq(Message), NEW s \in ServerRecord, NEW starts \in BOOLEAN,
         Server!Announces(first, s, starts)
  PROVE  InboxOK' /\ server' \in ServerRecord
<1> USE BoundsAssumption
<1>1. starts => s.last + 1 \in 1 .. MaxMatches
  BY DEF Server!Announces, ServerRecord
<1>2. server' \in ServerRecord
  <2>1. CASE starts
    <3> DEFINE next == s.last + 1
    <3>1. server' = [s EXCEPT !.match = next, !.last = next]
      BY <2>1 DEF Server!Announces, Server!Started
    <3>2. next \in 0 .. MaxMatches
      BY <1>1, <2>1
    <3> HIDE DEF next
    <3> QED  BY <3>1, <3>2 DEF ServerRecord
  <2>2. CASE ~starts
    BY <2>2 DEF Server!Announces
  <2> QED  BY <2>1, <2>2
<1> DEFINE told == << Server!Msg("QueueStatus") >>
           start == IF starts THEN << Server!MatchMsg("MatchStart", Server!Started(s)) >>
                    ELSE << >>
<1>3. told \in Seq(Message) /\ start \in Seq(Message)
  BY <1>1, EmptySeq, MessagesHaveTypes DEF Server!Started
<1>4. Server!Sends(first \o told \o start)
  BY DEF Server!Announces
<1> HIDE DEF told, start
<1>5. first \o told \o start \in Seq(Message)
  BY <1>3, ConcatProperties
<1>6. InboxOK'
  BY <1>4, <1>5, SendsKeepsInbox
<1> QED  BY <1>2, <1>6

(* The end of a match, as the server sends it. *)
LEMMA MatchEndKeepsTypes ==
  ASSUME server \in ServerRecord, server.match # 0
  PROVE  Server!MatchEndSent \in Seq(Message) /\ Server!Over \in ServerRecord
<1>1. server.match \in 1 .. MaxMatches
  BY BoundsAssumption DEF ServerRecord
<1>2. Server!MatchEndSent \in Seq(Message)
  BY <1>1, MessagesHaveTypes DEF Server!MatchEndSent
<1>3. Server!Over \in ServerRecord
  BY BoundsAssumption DEF Server!Over, ServerRecord
<1> QED  BY <1>2, <1>3

(* Every step of the server keeps the types. *)
LEMMA ServerStepKeepsTypes ==
  ASSUME InboxOK, server \in ServerRecord, Server!Next
  PROVE  InboxOK' /\ server' \in ServerRecord
<1> USE BoundsAssumption
<1>1. CASE Server!Rejects
  <2>1. << Server!Msg("JoinRejectedRoomFull") >> \in Seq(Message)
    BY MessagesHaveTypes
  <2>2. InboxOK'
    BY <1>1, <2>1, SendsKeepsInbox DEF Server!Rejects
  <2> QED  BY <1>1, <2>2 DEF Server!Rejects, ServerRecord
<1>2. CASE Server!Welcomes
  <2>1. << Server!Msg("ServerWelcome") >> \in Seq(Message)
    BY MessagesHaveTypes
  <2>2. PICK place \in {"waiting", "active"}, starts \in BOOLEAN :
          Server!Announces(<< Server!Msg("ServerWelcome") >>,
            [server EXCEPT !.hello = FALSE, !.session = TRUE, !.place = place], starts)
    BY <1>2 DEF Server!Welcomes
  <2>3. [server EXCEPT !.hello = FALSE, !.session = TRUE, !.place = place] \in ServerRecord
    BY DEF ServerRecord, Server!Place
  <2> QED  BY <2>1, <2>2, <2>3, AnnouncesKeepsTypes
<1>3. CASE Server!RoomChanges
  <2>1. PICK place \in {server.place, "active"}, starts \in BOOLEAN :
          Server!Announces(<< >>, [server EXCEPT !.place = place], starts)
    BY <1>3 DEF Server!RoomChanges
  <2>2. [server EXCEPT !.place = place] \in ServerRecord
    BY DEF ServerRecord, Server!Place
  <2> QED  BY <2>1, <2>2, EmptySeq, AnnouncesKeepsTypes
<1>4. CASE Server!WinsMatch
  <2>1. Server!MatchEndSent \in Seq(Message) /\ Server!Over \in ServerRecord
    BY <1>4, MatchEndKeepsTypes DEF Server!WinsMatch
  <2>2. CASE \E starts \in BOOLEAN : Server!Announces(Server!MatchEndSent, Server!Over, starts)
    BY <2>1, <2>2, AnnouncesKeepsTypes
  <2>3. CASE server' = Server!Over /\ Server!Sends(Server!MatchEndSent)
    BY <2>1, <2>3, SendsKeepsInbox
  <2> QED  BY <1>4, <2>2, <2>3 DEF Server!WinsMatch
<1>5. CASE Server!LosesMatch
  <2>1. Server!MatchEndSent \in Seq(Message) /\ Server!Over \in ServerRecord
    BY <1>5, MatchEndKeepsTypes DEF Server!LosesMatch
  <2>2. InboxOK'
    BY <1>5, <2>1, SendsKeepsInbox DEF Server!LosesMatch
  <2>3. server' = [Server!Over EXCEPT !.place = "none"] /\ "none" \in Server!Place
    BY <1>5 DEF Server!LosesMatch, Server!Place
  <2> QED  BY <2>1, <2>2, <2>3 DEF ServerRecord
<1>6. CASE Server!AssignsGarbage
  <2>1. PICK m \in 1 .. server.last : Server!Sends(<< Server!MatchMsg("GarbageAssigned", m) >>)
    BY <1>6 DEF Server!AssignsGarbage
  <2>2. << Server!MatchMsg("GarbageAssigned", m) >> \in Seq(Message)
    BY MessagesHaveTypes DEF ServerRecord
  <2>3. InboxOK'
    BY <2>1, <2>2, SendsKeepsInbox
  <2> QED  BY <1>6, <2>3 DEF Server!AssignsGarbage
<1>7. CASE Server!Answers
  <2>1. << Server!Msg("ClockSync") >> \in Seq(Message)
    BY MessagesHaveTypes
  <2>2. InboxOK'
    BY <1>7, <2>1, SendsKeepsInbox DEF Server!Answers
  <2> QED  BY <1>7, <2>2 DEF Server!Answers
<1>8. CASE Server!LosesHello
  BY <1>8 DEF Server!LosesHello, InboxOK, ServerRecord
<1>9. CASE Server!Loses
  <2>1. PICK i \in DOMAIN inbox : inbox' = Server!RemoveAt(inbox, i)
    BY <1>9 DEF Server!Loses
  <2>2. /\ i \in 1 .. Len(inbox) /\ Len(inbox) \in Nat
        /\ \A j \in 1 .. Len(inbox) : inbox[j] \in Message
    BY LenProperties, ElementOfSeq DEF InboxOK
  <2>3. /\ SubSeq(inbox, 1, i - 1) \in Seq(Message) /\ Len(SubSeq(inbox, 1, i - 1)) = i - 1
        /\ SubSeq(inbox, i + 1, Len(inbox)) \in Seq(Message)
        /\ Len(SubSeq(inbox, i + 1, Len(inbox))) = Len(inbox) - i
    BY <2>2, SubSeqProperties
  <2> DEFINE before == SubSeq(inbox, 1, i - 1)
             after == SubSeq(inbox, i + 1, Len(inbox))
  <2>6. inbox' = before \o after
    BY <2>1 DEF Server!RemoveAt
  <2> HIDE DEF before, after
  <2>4. inbox' \in Seq(Message) /\ Len(inbox') = Len(inbox) - 1
    <3>1. /\ before \in Seq(Message) /\ Len(before) = i - 1
          /\ after \in Seq(Message) /\ Len(after) = Len(inbox) - i
      BY <2>3 DEF before, after
    <3>2. /\ before \o after \in Seq(Message)
          /\ Len(before \o after) = Len(before) + Len(after)
      BY <3>1, ConcatProperties
    <3> QED  BY <2>2, <2>6, <3>1, <3>2
  <2>5. server' \in ServerRecord
    BY <1>9 DEF Server!Loses, ServerRecord
  <2> QED  BY <2>2, <2>4, <2>5 DEF InboxOK
<1>10. CASE Server!Forgets
  <2>1. Server!Stranger \in ServerRecord
    BY DEF Server!Stranger, Server!Place, ServerRecord
  <2>2. server' = [Server!Stranger EXCEPT !.last = server.last, !.lost = TRUE]
    BY <1>10 DEF Server!Forgets
  <2>3. server' \in ServerRecord
    BY <2>1, <2>2 DEF ServerRecord
  <2> QED  BY <1>10, <2>3 DEF Server!Forgets, InboxOK
<1> QED  BY <1>1, <1>2, <1>3, <1>4, <1>5, <1>6, <1>7, <1>8, <1>9, <1>10 DEF Server!Next

(***************************************************************************)
(* What a reader finds are messages, at least one, and the last of them is *)
(* the one it has read to.                                                 *)
(***************************************************************************)
LEMMA ArrivedInOrder ==
  ASSUME InboxOK, NEW n \in DOMAIN inbox, Runtime!TakeFromInbox(n)
  PROVE  /\ Runtime!Arrived(n) \in Seq(Message) /\ Runtime!Arrived(n) # << >>
         /\ Runtime!Arrived(n)[Len(Runtime!Arrived(n))] = inbox[n]
         /\ inbox[n] \in Message
         /\ InboxOK'
<1>1. n \in 1 .. Len(inbox) /\ Len(inbox) \in Nat /\ \A j \in 1 .. Len(inbox) : inbox[j] \in Message
  BY LenProperties, ElementOfSeq DEF InboxOK
<1>2. /\ SubSeq(inbox, 1, n) \in Seq(Message) /\ Len(SubSeq(inbox, 1, n)) = n
      /\ SubSeq(inbox, 1, n)[n] = inbox[n]
      /\ SubSeq(inbox, n + 1, Len(inbox)) \in Seq(Message)
      /\ Len(SubSeq(inbox, n + 1, Len(inbox))) = Len(inbox) - n
  BY <1>1, SubSeqProperties
<1>3. SubSeq(inbox, 1, n) # << >>
  BY <1>1, <1>2, EmptySeq
<1>4. InboxOK'
  <2>1. /\ inbox' = SubSeq(inbox, n + 1, Len(inbox)) /\ Len(inbox) <= MaxInbox
        /\ Len(inbox) - n <= MaxInbox
    BY <1>1, BoundsAssumption DEF Runtime!TakeFromInbox, InboxOK
  <2> QED  BY <1>2, <2>1 DEF InboxOK
<1>5. Runtime!Arrived(n) = SubSeq(inbox, 1, n)
  BY DEF Runtime!Arrived
<1> QED  BY <1>1, <1>2, <1>3, <1>4, <1>5

(***************************************************************************)
(* One message handled by poll (_handle_server_message): a match that is   *)
(* shown stays one, unless the connection says that it is over, and a      *)
(* message that brings up a match screen has made a versus session.        *)
(***************************************************************************)
LEMMA HandlesKeepsTypes ==
  ASSUME NEW r \in RuntimeRecord, NEW m \in Message
  PROVE  /\ Runtime!Handles(r, m) \in RuntimeRecord
         /\ Runtime!Handles(r, m).net = r.net
         /\ r.versus \in Played /\ (r.versus.running \/ r.connection \in {"QUEUED", "ENDED"}) =>
              /\ Runtime!Handles(r, m).versus \in Played
              /\ \/ Runtime!Handles(r, m).versus.running
                 \/ Runtime!Handles(r, m).connection \in {"QUEUED", "ENDED"}
         /\ Runtime!Starts(Runtime!Handles(r, m), m) => Runtime!Handles(r, m).versus \in Played
<1> USE DEF RuntimeRecord, Message, Session, Played, Runtime!ConnectionState, Runtime!Handles,
            Runtime!Starts, Runtime!Forwards, Runtime!SessionHandles, Runtime!ConnectionOf,
            Runtime!MatchMessage
<1>1. CASE m.type = "MatchStart"
  BY <1>1, NoSessionAssumption
<1>2. CASE m.type \in Runtime!MatchMessage
  BY <1>2, NoSessionAssumption
<1>3. CASE m.type \in {"ServerWelcome", "JoinRejectedRoomFull", "QueueStatus", "ClockSync"}
  BY <1>3
<1> QED  BY <1>1, <1>2, <1>3

(* One message handled by the versus session in a tick. *)
LEMMA SessionHandlesKeepsTypes ==
  ASSUME NEW versus \in Played, NEW m \in Message
  PROVE  Runtime!SessionHandles(versus, m) \in Played
BY DEF Played, Message, Runtime!SessionHandles

(***************************************************************************)
(* A poll handles its messages one after the other (FoldTheorems): if it   *)
(* starts from a match that runs, that match or a later one runs after it, *)
(* or the connection is QUEUED or ENDED, whatever came in between.         *)
(***************************************************************************)
LEMMA PollKeepsTypes ==
  ASSUME InboxOK, runtime \in RuntimeRecord, NEW n \in DOMAIN inbox, Runtime!Poll(n)
  PROVE  /\ InboxOK' /\ runtime' \in RuntimeRecord /\ runtime'.net = runtime.net
         /\ Runtime!ReturnsView(n) => runtime'.versus \in Played
         /\ runtime.versus \in Played /\ runtime.versus.running =>
              \/ runtime'.versus \in Played /\ runtime'.versus.running
              \/ runtime'.connection \in {"QUEUED", "ENDED"}
<1> DEFINE s == Runtime!Arrived(n)
<1>1. /\ s \in Seq(Message) /\ s # << >> /\ s[Len(s)] = inbox[n] /\ inbox[n] \in Message
      /\ InboxOK'
  BY ArrivedInOrder DEF Runtime!Poll
<1>2. runtime' = Polled!Folded(runtime, s)
  BY DEF Runtime!Poll, Polled!Folded, Runtime!FoldLeft, Polled!FoldLeft,
         Runtime!MapThenFoldSet, Polled!MapThenFoldSet, Runtime!Max, Polled!Max
<1> HIDE DEF s
<1> DEFINE T == {r \in RuntimeRecord : r.net = runtime.net}
           U == {r \in T : /\ r.versus \in Played
                           /\ r.versus.running \/ r.connection \in {"QUEUED", "ENDED"}}
<1>3. \A r \in T, m \in Message : Runtime!Handles(r, m) \in T
  BY HandlesKeepsTypes
<1>4. PICK r \in T : runtime' = Runtime!Handles(r, inbox[n])
  <2>1. runtime \in T
    OBVIOUS
  <2> HIDE DEF T
  <2>2. \E r \in T : Polled!Folded(runtime, s) = Runtime!Handles(r, s[Len(s)])
    BY <1>1, <1>3, <2>1, Polled!FoldLast
  <2> QED  BY <1>1, <1>2, <2>2
<1>5. runtime' \in T
  BY <1>1, <1>3, <1>4
<1>6. ASSUME Runtime!ReturnsView(n)
      PROVE  runtime'.versus \in Played
  <2>1. CASE Runtime!Starts(runtime', inbox[n])
    BY <1>1, <1>4, <2>1, HandlesKeepsTypes
  <2>2. CASE Runtime!Forwards(runtime', inbox[n])
    BY <1>5, <2>2 DEF Runtime!Forwards, RuntimeRecord, Session, Played
  <2> QED  BY <1>6, <2>1, <2>2 DEF Runtime!ReturnsView
<1>7. ASSUME runtime.versus \in Played, runtime.versus.running
      PROVE  runtime' \in U
  <2>1. runtime \in U /\ \A u \in U, m \in Message : Runtime!Handles(u, m) \in U
    BY <1>7, HandlesKeepsTypes
  <2> HIDE DEF U
  <2> QED  BY <1>1, <1>2, <2>1, Polled!FoldInduction
<1> QED  BY <1>1, <1>5, <1>6, <1>7

(***************************************************************************)
(* A tick hands its messages to the versus session one after the other,    *)
(* which stays one.                                                        *)
(***************************************************************************)
LEMMA TickKeepsTypes ==
  ASSUME InboxOK, runtime \in RuntimeRecord, NEW n \in DOMAIN inbox, Runtime!Tick(n)
  PROVE  /\ InboxOK' /\ runtime' \in RuntimeRecord /\ runtime'.net = runtime.net
         /\ runtime'.versus \in Played
<1> DEFINE s == Runtime!Arrived(n)
<1>1. s \in Seq(Message) /\ InboxOK'
  BY ArrivedInOrder DEF Runtime!Tick
<1>2. runtime' = [runtime EXCEPT !.versus = Ticked!Folded(runtime.versus, s)]
  BY DEF Runtime!Tick, Ticked!Folded, Runtime!FoldLeft, Ticked!FoldLeft,
         Runtime!MapThenFoldSet, Ticked!MapThenFoldSet, Runtime!Max, Ticked!Max
<1> HIDE DEF s
<1>3. runtime.versus \in Played
  BY DEF Runtime!Tick, RuntimeRecord, Session, Played
<1>4. Ticked!Folded(runtime.versus, s) \in Played
  BY <1>1, <1>3, SessionHandlesKeepsTypes, Ticked!FoldInduction
<1> QED  BY <1>1, <1>2, <1>4 DEF RuntimeRecord, Session, Played

(* TypeOK by its parts, now and after a step. *)
LEMMA TypeOKIsParts ==
  /\ TypeOK <=> /\ screen \in Screen
                /\ runtimeTimer \in BOOLEAN /\ networkTimer \in BOOLEAN
                /\ solo \in [running : BOOLEAN, paused : BOOLEAN]
                /\ runtime \in RuntimeRecord /\ InboxOK /\ server \in ServerRecord
  /\ TypeOK' <=> /\ screen' \in Screen
                 /\ runtimeTimer' \in BOOLEAN /\ networkTimer' \in BOOLEAN
                 /\ solo' \in [running : BOOLEAN, paused : BOOLEAN]
                 /\ runtime' \in RuntimeRecord /\ InboxOK' /\ server' \in ServerRecord
BY DEF TypeOK, RuntimeRecord, InboxOK, ServerRecord, Server!TypeOK

(***************************************************************************)
(* GameScreenIsLive says that a versus session has been made, now and      *)
(* after a step.                                                           *)
(***************************************************************************)
LEMMA LiveIsPlayed ==
  /\ GameScreenIsLive <=>
       (screen = "versus" => runtimeTimer /\ runtime.versus \in Played /\ runtime.versus.running)
  /\ GameScreenIsLive' <=>
       (screen' = "versus" =>
          runtimeTimer' /\ runtime'.versus \in Played /\ runtime'.versus.running)
<1>1. \A m \in 1 .. MaxMatches : [match |-> m, running |-> TRUE] # NoSession
  <2> SUFFICES ASSUME NEW m \in 1 .. MaxMatches
               PROVE  [match |-> m, running |-> TRUE] # NoSession
    OBVIOUS
  <2>1. [match |-> m, running |-> TRUE] \in [match : 1 .. MaxMatches, running : BOOLEAN]
    OBVIOUS
  <2> QED  BY <2>1, NoSessionAssumption
<1>2. ASSUME NEW v
      PROVE  (\E m \in 1 .. MaxMatches : v = [match |-> m, running |-> TRUE])
               <=> v \in Played /\ v.running
  <2>1. ASSUME v \in Played, v.running
        PROVE  v = [match |-> v.match, running |-> TRUE] /\ v.match \in 1 .. MaxMatches
    BY <2>1 DEF Played
  <2>2. ASSUME NEW m \in 1 .. MaxMatches, v = [match |-> m, running |-> TRUE]
        PROVE  v \in Played /\ v.running
    BY <2>2 DEF Played
  <2> QED  BY <2>1, <2>2
<1>3. GameScreenIsLive <=> (screen = "versus" =>
        /\ runtimeTimer
        /\ \E m \in 1 .. MaxMatches : runtime.versus = [match |-> m, running |-> TRUE])
  BY <1>1 DEF GameScreenIsLive, Plays
<1>4. GameScreenIsLive' <=> (screen' = "versus" =>
        /\ runtimeTimer'
        /\ \E m \in 1 .. MaxMatches : runtime'.versus = [match |-> m, running |-> TRUE])
  BY <1>1 DEF GameScreenIsLive, Plays
<1> QED  BY <1>2, <1>3, <1>4

(***************************************************************************)
(* The runtime before it connects, an empty inbox and a server that knows  *)
(* nobody.                                                                 *)
(***************************************************************************)
LEMMA BlankTypes ==
  /\ << >> \in Seq(Message) /\ Len(<< >>) <= MaxInbox
  /\ Runtime!Closed \in RuntimeRecord /\ ~Runtime!Closed.net
  /\ Server!Stranger \in ServerRecord
<1>1. << >> \in Seq(Message) /\ Len(<< >>) <= MaxInbox
  BY EmptySeq, BoundsAssumption
<1>2. Runtime!Closed \in RuntimeRecord /\ ~Runtime!Closed.net
  BY DEF Runtime!Closed, RuntimeRecord, Runtime!ConnectionState, Session
<1>3. Server!Stranger \in ServerRecord
  BY BoundsAssumption DEF Server!Stranger, ServerRecord, Server!Place
<1> QED  BY <1>1, <1>2, <1>3

(* The invariant holds when the window opens. *)
LEMMA InitIInv == Init => IInv
<1> SUFFICES ASSUME Init
             PROVE  IInv
  OBVIOUS
<1>1. /\ runtime = Runtime!Closed /\ inbox = << >> /\ server = Server!Stranger
      /\ screen = "main_menu" /\ runtimeTimer = FALSE /\ networkTimer = FALSE
      /\ solo \in [running : BOOLEAN, paused : BOOLEAN]
  BY DEF Init, Runtime!Init, NewLocalSession
<1>2. TypeOK
  BY <1>1, BlankTypes, TypeOKIsParts DEF Screen, InboxOK
<1>3. GameScreenIsLive /\ ConnectedMeansPolled
  BY <1>1, BlankTypes DEF GameScreenIsLive, ConnectedMeansPolled
<1> QED  BY <1>2, <1>3 DEF IInv

(* Opening and closing a connection keeps the types. *)
LEMMA ConnectionsKeepTypes ==
  /\ Runtime!Close => runtime' \in RuntimeRecord /\ ~runtime'.net /\ InboxOK'
  /\ Runtime!Connect => runtime' \in RuntimeRecord /\ runtime'.net /\ InboxOK'
  /\ Server!Gone => server' \in ServerRecord
  /\ Server!SaysHello => server' \in ServerRecord
<1>1. << >> \in Seq(Message) /\ Len(<< >>) <= MaxInbox
  BY BlankTypes
<1>2. Runtime!Closed \in RuntimeRecord /\ ~Runtime!Closed.net
  BY BlankTypes
<1>3. Server!Stranger \in ServerRecord
  BY BlankTypes
<1>4. Runtime!Close => runtime' \in RuntimeRecord /\ ~runtime'.net /\ InboxOK'
  BY <1>1, <1>2 DEF Runtime!Close, InboxOK
<1>5. Runtime!Connect => runtime' \in RuntimeRecord /\ runtime'.net /\ InboxOK'
  BY <1>1, <1>2 DEF Runtime!Connect, InboxOK, RuntimeRecord, Runtime!ConnectionState
<1>6. Server!Gone => server' \in ServerRecord
  BY <1>3 DEF Server!Gone
<1>7. Server!SaysHello => server' \in ServerRecord
  BY <1>3 DEF Server!SaysHello, ServerRecord
<1> QED  BY <1>4, <1>5, <1>6, <1>7

(***************************************************************************)
(* The invariant survives every click: whoever leaves the versus screen    *)
(* closes the connection and stops the timers, in this order.              *)
(***************************************************************************)
LEMMA UserKeepsIInv ==
  ASSUME IInv, User
  PROVE  IInv'
<1> SUFFICES TypeOK' /\ GameScreenIsLive' /\ ConnectedMeansPolled'
  BY DEF IInv
<1> USE TypeOKIsParts, LiveIsPlayed, ConnectionsKeepTypes DEF IInv, ConnectedMeansPolled, Screen
<1>1. CASE ClickMenu
  BY <1>1 DEF ClickMenu, ShowMainMenu, LeaveServer
<1>2. CASE ClickSinglePlayer
  BY <1>2 DEF ClickSinglePlayer, LeaveServer, Restarted
<1>3. CASE ClickRestart
  BY <1>3 DEF ClickRestart, Restarted, InboxOK
<1>4. CASE ClickPause
  BY <1>4 DEF ClickPause, Resumed, Paused, InboxOK
<1>5. CASE ClickConnect
  BY <1>5 DEF ClickConnect, InboxOK
<1>6. CASE ConnectToServer
  BY <1>6 DEF ConnectToServer
<1>7. CASE ClickNextMatch
  BY <1>7 DEF ClickNextMatch, InboxOK
<1> QED  BY <1>1, <1>2, <1>3, <1>4, <1>5, <1>6, <1>7 DEF User

(***************************************************************************)
(* The invariant survives a poll: the screen it brings up is decided by    *)
(* the last message, and the versus screen by one that has made or kept a  *)
(* match.                                                                  *)
(***************************************************************************)
LEMMA PollKeepsIInv ==
  ASSUME IInv, NEW n \in DOMAIN inbox, PollNetwork(n)
  PROVE  IInv'
<1>1. /\ InboxOK /\ runtime \in RuntimeRecord /\ server \in ServerRecord
      /\ networkTimer /\ runtime.net /\ screen \in {"waiting", "versus", "result"}
      /\ screen = "versus" => runtimeTimer /\ runtime.versus \in Played /\ runtime.versus.running
  BY TypeOKIsParts, LiveIsPlayed DEF IInv, ConnectedMeansPolled, PollNetwork
<1>2. /\ InboxOK' /\ runtime' \in RuntimeRecord /\ runtime'.net
      /\ Runtime!ReturnsView(n) => runtime'.versus \in Played
      /\ screen = "versus" =>
           \/ runtime'.versus \in Played /\ runtime'.versus.running
           \/ runtime'.connection \in {"QUEUED", "ENDED"}
  BY <1>1, PollKeepsTypes DEF PollNetwork
<1>3. UNCHANGED << networkTimer, solo, server >>
  BY DEF PollNetwork
<1>4. /\ screen' \in {"waiting", "versus", "result"} /\ runtimeTimer' \in BOOLEAN
      /\ screen' = "versus" =>
           runtimeTimer' /\ runtime'.versus \in Played /\ runtime'.versus.running
  <2>1. CASE Runtime!ReturnsView(n) /\ ~runtime'.versus.running
    BY <2>1 DEF PollNetwork, ShowUpdate, ShowMatchResult
  <2>2. CASE Runtime!ReturnsView(n) /\ runtime'.versus.running
    BY <1>2, <2>2 DEF PollNetwork, ShowUpdate
  <2>3. CASE ~Runtime!ReturnsView(n)
    <3>1. runtimeTimer \in BOOLEAN
      BY DEF IInv, TypeOK
    <3>2. /\ screen' = IF runtime'.connection \in {"QUEUED", "ENDED"} THEN "waiting" ELSE screen
          /\ runtimeTimer' = runtimeTimer
      BY <2>3 DEF PollNetwork, ShowUpdate
    <3> QED  BY <1>1, <1>2, <3>1, <3>2
  <2> QED  BY <1>2, <2>1, <2>2, <2>3 DEF Played
<1>5. TypeOK'
  BY <1>1, <1>2, <1>3, <1>4, TypeOKIsParts DEF IInv, Screen
<1>6. GameScreenIsLive'
  BY <1>4, LiveIsPlayed
<1>7. ConnectedMeansPolled'
  BY <1>1, <1>2, <1>3, <1>4 DEF ConnectedMeansPolled
<1> QED  BY <1>5, <1>6, <1>7 DEF IInv

(***************************************************************************)
(* The invariant survives a tick: it leaves the versus screen when the     *)
(* match it has ticked is over.                                            *)
(***************************************************************************)
LEMMA TickKeepsIInv ==
  ASSUME IInv, NEW n \in DOMAIN inbox, TickRuntime(n)
  PROVE  IInv'
<1>1. /\ InboxOK /\ runtime \in RuntimeRecord /\ server \in ServerRecord
      /\ networkTimer /\ runtime.net /\ screen = "versus" /\ runtimeTimer
  BY TypeOKIsParts DEF IInv, ConnectedMeansPolled, TickRuntime
<1>2. /\ InboxOK' /\ runtime' \in RuntimeRecord /\ runtime'.net
      /\ runtime'.versus \in Played
  BY <1>1, TickKeepsTypes DEF TickRuntime
<1>3. /\ UNCHANGED << networkTimer, solo, server >>
      /\ screen' \in {"versus", "result"} /\ runtimeTimer' \in BOOLEAN
      /\ screen' = "versus" => runtimeTimer' /\ runtime'.versus.running
  BY <1>1 DEF TickRuntime, ShowMatchResult
<1>4. TypeOK'
  BY <1>1, <1>2, <1>3, TypeOKIsParts DEF IInv, Screen
<1>5. GameScreenIsLive'
  BY <1>2, <1>3, LiveIsPlayed
<1>6. ConnectedMeansPolled'
  BY <1>1, <1>2, <1>3 DEF ConnectedMeansPolled
<1> QED  BY <1>4, <1>5, <1>6 DEF IInv

(* The invariant survives whatever the server does. *)
LEMMA ServerStepKeepsIInv ==
  ASSUME IInv, ServerStep
  PROVE  IInv'
<1>1. InboxOK' /\ server' \in ServerRecord
  BY ServerStepKeepsTypes, TypeOKIsParts DEF IInv, ServerStep
<1>2. TypeOK'
  BY <1>1, TypeOKIsParts DEF IInv, ServerStep, windowVars
<1>3. GameScreenIsLive'
  BY LiveIsPlayed DEF IInv, ServerStep, windowVars
<1>4. ConnectedMeansPolled'
  BY DEF IInv, ServerStep, windowVars, ConnectedMeansPolled
<1> QED  BY <1>2, <1>3, <1>4 DEF IInv

(* The invariant survives a step in which nothing changes. *)
LEMMA StutterKeepsIInv ==
  ASSUME IInv, UNCHANGED vars
  PROVE  IInv'
<1>1. TypeOK'
  BY TypeOKIsParts DEF IInv, vars, InboxOK
<1>2. GameScreenIsLive'
  BY LiveIsPlayed DEF IInv, vars
<1>3. ConnectedMeansPolled'
  BY DEF IInv, vars, ConnectedMeansPolled
<1> QED  BY <1>1, <1>2, <1>3 DEF IInv

(* The inductive invariant holds of every behaviour. *)
LEMMA Invariance == Spec => []IInv
<1>1. IInv /\ [Next]_vars => IInv'
  BY UserKeepsIInv, PollKeepsIInv, TickKeepsIInv, ServerStepKeepsIInv, StutterKeepsIInv
     DEF Next, Polls, Ticks
<1> QED  BY <1>1, InitIInv, PTL DEF Spec

(***************************************************************************)
(* The window, the runtime and the inbox stay in their types, for any      *)
(* number of matches and any length of the inbox.                          *)
(***************************************************************************)
THEOREM TypeCorrect == Spec => []TypeOK
<1>1. IInv => TypeOK
  BY DEF IInv
<1> QED  BY <1>1, Invariance, PTL

(***************************************************************************)
(* A board on the screen is alive: whatever is clicked and whatever        *)
(* arrives, the game that is shown is running and its timer is on.         *)
(***************************************************************************)
THEOREM GameScreenIsLiveHolds == Spec => []GameScreenIsLive
<1>1. IInv => GameScreenIsLive
  BY DEF IInv
<1> QED  BY <1>1, Invariance, PTL

(***************************************************************************)
(* As long as there is a connection its network timer is on, so the        *)
(* messages of the server are read and heartbeats go out.                  *)
(***************************************************************************)
THEOREM ConnectedMeansPolledHolds == Spec => []ConnectedMeansPolled
<1>1. IInv => ConnectedMeansPolled
  BY DEF IInv
<1> QED  BY <1>1, Invariance, PTL
=============================================================================
