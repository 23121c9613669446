----------------------------- MODULE MainWindow -----------------------------
(***************************************************************************)
(* The window of a client: its screens, its two timers, the local game,    *)
(* and under it the network runtime, with a server at the other end.       *)
(* Models gui/main_window.py and client/local_session.py.                  *)
(*                                                                         *)
(* Everything runs in the event loop of the window, so a slot of a button  *)
(* or of a timer is one step.  Boards and keys are left out: see Engine.   *)
(***************************************************************************)
EXTENDS Naturals, Sequences

CONSTANTS
  NoSession,    \* no versus session
  MaxMatches,   \* bound: matches of one connection
  MaxInbox      \* bound: datagrams not read yet

ASSUME BoundsAssumption == MaxMatches \in Nat /\ MaxInbox \in Nat

(* None is no session. *)
ASSUME NoSessionAssumption == NoSession \notin [match : 1 .. MaxMatches, running : BOOLEAN]

VARIABLES
  screen,         \* stack.currentWidget()
  runtimeTimer,   \* _runtime_timer is active: every 16 ms, _tick_runtime
  networkTimer,   \* _network_timer is active: every 50 ms, _poll_network
  solo,           \* the local session
  runtime,        \* the network runtime
  inbox,          \* datagrams at its socket, or on their way
  server          \* what the server has for this client

Runtime == INSTANCE ClientRuntime
Server == INSTANCE ServerPeer

vars == << screen, runtimeTimer, networkTimer, solo, runtime, inbox, server >>
windowVars == << screen, runtimeTimer, networkTimer, solo >>

Screen == {"main_menu", "connect", "waiting", "solo", "versus", "result"}

Session == {NoSession} \union [match : 1 .. MaxMatches, running : BOOLEAN]

Message ==
  [type : {"ServerWelcome", "JoinRejectedRoomFull", "QueueStatus", "ClockSync"},
   match : {0}]
  \union
  [type : {"MatchStart", "GarbageAssigned", "MatchEnd"}, match : 1 .. MaxMatches]

TypeOK ==
  /\ screen \in Screen
  /\ runtimeTimer \in BOOLEAN /\ networkTimer \in BOOLEAN
  /\ solo \in [running : BOOLEAN, paused : BOOLEAN]
  /\ runtime \in [net : BOOLEAN, known : BOOLEAN,
                  connection : Runtime!ConnectionState, versus : Session]
  /\ inbox \in Seq(Message) /\ Len(inbox) <= MaxInbox
  /\ Server!TypeOK

NewLocalSession == [running |-> FALSE, paused |-> FALSE]

Init ==
  /\ screen = "main_menu" /\ runtimeTimer = FALSE /\ networkTimer = FALSE
  /\ solo = NewLocalSession
  /\ Runtime!Init
  /\ server = Server!Stranger

-----------------------------------------------------------------------------
(* The buttons. *)

LeaveServer == Runtime!Close /\ Server!Gone

(* Mutant: the way back to the menu forgets the connection. *)
ShowMainMenuOnly ==
  /\ screen' = "main_menu" /\ runtimeTimer' = FALSE /\ networkTimer' = FALSE
  /\ UNCHANGED << solo, runtime, inbox, server >>

(* show_main_menu; closeEvent ends the same way. *)
ShowMainMenu ==
  /\ screen' = "main_menu" /\ runtimeTimer' = FALSE /\ networkTimer' = FALSE
  /\ LeaveServer
  /\ UNCHANGED solo

ClickMenu == screen # "main_menu" /\ ShowMainMenu

(* restart of the local session: reset and start. *)
Restarted == [running |-> TRUE, paused |-> FALSE]

ClickSinglePlayer ==
  /\ screen = "main_menu"
  /\ screen' = "solo" /\ runtimeTimer' = TRUE /\ networkTimer' = FALSE
  /\ solo' = Restarted
  /\ LeaveServer

(* restart_single_player: the timer stays as it is. *)
ClickRestart ==
  /\ screen = "solo"
  /\ solo' = Restarted
  /\ UNCHANGED << screen, runtimeTimer, networkTimer, runtime, inbox, server >>

(* toggle_pause. *)
Paused == [solo EXCEPT !.paused = solo.running]
Resumed == [solo EXCEPT !.paused = solo.paused /\ ~solo.running]

ClickPause ==
  /\ screen = "solo"
  /\ runtimeTimer' = solo.paused
  /\ solo' = IF solo.paused THEN Resumed ELSE Paused
  /\ UNCHANGED << screen, networkTimer, runtime, inbox, server >>

ClickConnect ==
  /\ screen = "main_menu"
  /\ screen' = "connect"
  /\ UNCHANGED << runtimeTimer, networkTimer, solo, runtime, inbox, server >>

(* connect_to_server. *)
ConnectToServer ==
  /\ screen = "connect"
  /\ screen' = "waiting" /\ runtimeTimer' = FALSE /\ networkTimer' = TRUE
  /\ Runtime!Connect
  /\ Server!SaysHello
  /\ UNCHANGED solo

(* on_next_match only shows the waiting screen: nothing is sent. *)
ClickNextMatch ==
  /\ screen = "result"
  /\ screen' = "waiting"
  /\ UNCHANGED << runtimeTimer, networkTimer, solo, runtime, inbox, server >>

User ==
  \/ ClickMenu \/ ClickSinglePlayer \/ ClickRestart \/ ClickPause
  \/ ClickConnect \/ ConnectToServer \/ ClickNextMatch

-----------------------------------------------------------------------------
(* The timers.  n datagrams have arrived. *)

ShowMatchResult == screen' = "result" /\ runtimeTimer' = FALSE

(***************************************************************************)
(* _tick_runtime: moves the game of the screen that is shown; on the solo  *)
(* screen that changes nothing here.                                       *)
(***************************************************************************)
TickRuntime(n) ==
  /\ runtimeTimer /\ screen = "versus"
  /\ Runtime!Tick(n)
  /\ IF runtime'.versus.running THEN UNCHANGED << screen, runtimeTimer >> ELSE ShowMatchResult
  /\ UNCHANGED << networkTimer, solo, server >>

(* Mutant: the timer is taken to run already. *)
ShowUpdateTimerAsIs(n) ==
  CASE Runtime!ReturnsView(n) /\ ~runtime'.versus.running -> ShowMatchResult
    [] Runtime!ReturnsView(n) /\ runtime'.versus.running ->
         screen' = "versus" /\ runtimeTimer' = runtimeTimer
    [] OTHER ->
         /\ screen' = IF runtime'.connection \in {"QUEUED", "ENDED"} THEN "waiting" ELSE screen
         /\ runtimeTimer' = runtimeTimer

(***************************************************************************)
(* What _poll_network shows of the update poll returns.  A view starts the *)
(* timer, or stops it with the result; a queued or ended connection is     *)
(* shown on the waiting screen, whatever was shown before.                 *)
(***************************************************************************)
ShowUpdate(n) ==
  CASE Runtime!ReturnsView(n) /\ ~runtime'.versus.running -> ShowMatchResult
    [] Runtime!ReturnsView(n) /\ runtime'.versus.running ->
         screen' = "versus" /\ runtimeTimer' = TRUE
    [] OTHER ->
         /\ screen' = IF runtime'.connection \in {"QUEUED", "ENDED"} THEN "waiting" ELSE screen
         /\ runtimeTimer' = runtimeTimer

PollNetwork(n) ==
  /\ networkTimer /\ runtime.net
  /\ Runtime!Poll(n)
  /\ ShowUpdate(n)
  /\ UNCHANGED << networkTimer, solo, server >>

Polls == \E n \in DOMAIN inbox : PollNetwork(n)
Ticks == \E n \in DOMAIN inbox : TickRuntime(n)

ServerStep == Server!Next /\ UNCHANGED << windowVars, runtime >>

Next == User \/ Polls \/ Ticks \/ ServerStep

Spec == Init /\ [][Next]_vars

(***************************************************************************)
(* The event loop runs on, and its timers fire: what has arrived is read.  *)
(* Nobody has to click, and the server has to send nothing.                *)
(***************************************************************************)
FairSpec == Spec /\ WF_vars(Polls)

-----------------------------------------------------------------------------

Plays(m) == runtime.versus # NoSession /\ runtime.versus = [match |-> m, running |-> TRUE]

(***************************************************************************)
(* A player who looks at the versus screen looks at a match that is on and *)
(* that moves: however screens, results, next matches and reconnections    *)
(* follow one another, the timer runs and the session has no result yet.   *)
(***************************************************************************)
GameScreenIsLive ==
  screen = "versus" => runtimeTimer /\ \E m \in 1 .. MaxMatches : Plays(m)

(***************************************************************************)
(* The runtime polls its socket, and so sends its heartbeats, as long as   *)
(* it has one: the server does not time out a client that is there.  And   *)
(* it has none in the menus and in a solo game, which no late message can  *)
(* push aside.                                                             *)
(***************************************************************************)
ConnectedMeansPolled ==
  /\ runtime.net <=> networkTimer
  /\ runtime.net <=> screen \in {"waiting", "versus", "result"}

(***************************************************************************)
(* Unless a datagram is lost, a match that starts reaches the client's     *)
(* session, whichever of the two readers of the socket finds its           *)
(* MatchStart; a client that goes has no match any more.                   *)
(***************************************************************************)
StartIsNoticed ==
  \A m \in 1 .. MaxMatches :
    server.match = m ~> Plays(m) \/ server.match # m \/ server.lost

(***************************************************************************)
(* Unless a datagram is lost, a client whose match is over stops playing   *)
(* it, whichever reader finds the MatchEnd.                                *)
(***************************************************************************)
EndIsNoticed ==
  \A m \in 1 .. MaxMatches :
    Plays(m) /\ server.match # m ~> ~Plays(m) \/ server.lost

(***************************************************************************)
(* A match that is on and on the screen stays there, until the player goes *)
(* back to the menu: the ticks of a versus session come from the versus    *)
(* screen only.                                                            *)
(***************************************************************************)
MatchStaysOnScreen ==
  [][\A m \in 1 .. MaxMatches :
       screen = "versus" /\ Plays(m) /\ Plays(m)' => screen' = "versus"]_vars
=============================================================================
