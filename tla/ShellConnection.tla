---------------------------- MODULE ShellConnection ----------------------------
(***************************************************************************)
(* The connection of one terminal tab of the cluster shell                 *)
(* (components/shell/ShellSession.tsx of the frontend): the effect that    *)
(* opens the WebSocket, its four handlers, the reconnect timer and the     *)
(* refs and states they share.                                             *)
(*                                                                         *)
(* One action is one task of the browser's event loop.  A cluster switch,  *)
(* opening or closing the panel and a click are rendered synchronously, so *)
(* the effect's cleanup and next run belong to them; the nonce the timer   *)
(* sets is rendered later, by EffectReruns.  wsSessionRef changes exactly  *)
(* when wsRef does and needs no variable: the guard of a handler, that its *)
(* session and its socket are the current ones, is s = wsRef.              *)
(***************************************************************************)
EXTENDS Integers

CONSTANTS
  Clusters,
  Sockets,     \* WebSocket objects, reused once they are closed
  MaxAttempts, \* MAX_RECONNECT_ATTEMPTS, 5 in the code
  None

ASSUME ShellAssumption ==
  /\ None \notin Clusters
  /\ None \notin Sockets
  /\ MaxAttempts \in Nat \ {0}

VARIABLES
  shown,       \* clusterId of the mounted tab; None while the panel is closed
  socket,      \* every WebSocket: how far it is and which cluster it goes to
  wsRef,       \* wsRef.current
  cleanup,     \* the last run of the effect returned a cleanup function
  timer,       \* the timer of reconnectTimerRef is armed
  attempts,    \* reconnectAttemptRef.current
  intentional, \* intentionalCloseRef.current
  rerun,       \* reconnectNonce has changed and is not rendered yet
  gotOutput,   \* gotFirstOutputRef.current
  ui,          \* the states reported to the panel
  screen,      \* clusters whose output is in the terminal's buffer
  circuit,     \* circuitOpenRef.current
  up           \* the backend serves shells

refs  == <<wsRef, cleanup, timer, attempts, intentional, rerun, gotOutput>>
env   == <<circuit, up>>
svars == <<shown, socket, refs, ui, screen, env>>

\* again: the run that opened it was rendered with isReconnecting set.
Line == [state : {"unused", "connecting", "open", "exited", "closing"},
         peer : Clusters \cup {None}, again : BOOLEAN]

Status == [connecting : BOOLEAN, connected : BOOLEAN, reconnecting : BOOLEAN,
           error : {"none", "unavailable", "lost", "server"}]

LinkTypeOK ==
  /\ shown \in Clusters \cup {None}
  /\ socket \in [Sockets -> Line]
  /\ wsRef \in Sockets \cup {None}
  /\ cleanup \in BOOLEAN
  /\ timer \in BOOLEAN
  /\ attempts \in 0..MaxAttempts
  /\ intentional \in BOOLEAN
  /\ rerun \in BOOLEAN
  /\ gotOutput \in BOOLEAN
  /\ ui \in Status
  /\ screen \subseteq Clusters
  /\ circuit \in BOOLEAN
  /\ up \in BOOLEAN

Unused == [state |-> "unused", peer |-> None, again |-> FALSE]

Live == {"connecting", "open", "exited"}

Quiet == [connecting |-> FALSE, connected |-> FALSE, reconnecting |-> FALSE, error |-> "none"]

LinkInit ==
  /\ shown = None
  /\ socket = [s \in Sockets |-> Unused]
  /\ wsRef = None
  /\ cleanup = FALSE
  /\ timer = FALSE
  /\ attempts = 0
  /\ intentional = FALSE
  /\ rerun = FALSE
  /\ gotOutput = FALSE
  /\ ui = Quiet
  /\ screen = {}
  /\ circuit = FALSE
  /\ up = TRUE

-----------------------------------------------------------------------------
(* The effect: the cleanup of its last run, if that returned one, and its  *)
(* next run for cluster c.                                                 *)

\* Faulty variant: the socket of the last run is left open.
NotClosed == socket

\* The sockets once the cleanup has called close().
Closed ==
  IF wsRef = None \/ ~cleanup
  THEN socket
  ELSE [socket EXCEPT ![wsRef].state = "closing"]

\* Faulty variant: the cleanup does not clear the reconnect timer.
TimerKept == timer

TimerAfterCleanup == timer /\ ~cleanup

\* With the circuit open the run returns early, and returns no cleanup.
RunUnavailable(status) ==
  /\ circuit
  /\ ui' = [status EXCEPT !.connecting = FALSE, !.connected = FALSE, !.error = "unavailable"]
  /\ wsRef' = IF cleanup THEN None ELSE wsRef
  /\ socket' = Closed
  /\ cleanup' = FALSE
  /\ UNCHANGED gotOutput

RunConnect(c, status, again) ==
  /\ ~circuit
  /\ ui' = [status EXCEPT !.connecting = TRUE, !.connected = FALSE, !.error = "none"]
  /\ \E s \in Sockets :
       /\ socket[s].state = "unused"
       /\ wsRef' = s
       /\ socket' = [Closed EXCEPT ![s] = [state |-> "connecting", peer |-> c, again |-> again]]
  /\ cleanup' = TRUE
  /\ gotOutput' = FALSE

\* intent and status are what the caller left in intentionalCloseRef and the states.
RunEffect(c, intent, status) ==
  /\ intentional' = (intent \/ cleanup)
  /\ timer' = TimerAfterCleanup
  /\ attempts' = IF cleanup THEN 0 ELSE attempts
  /\ rerun' = FALSE
  /\ LET cleaned == IF cleanup THEN [status EXCEPT !.reconnecting = FALSE] ELSE status
     IN  RunUnavailable(cleaned) \/ RunConnect(c, cleaned, status.reconnecting)

-----------------------------------------------------------------------------
(* The user.                                                               *)

OpenPanel(c) ==
  /\ shown = None
  /\ shown' = c
  /\ RunEffect(c, intentional, ui)
  /\ UNCHANGED <<screen, env>>

\* ClusterShellPanel unmounts its tabs: the refs and the terminal are gone.
ClosePanel ==
  /\ shown # None
  /\ shown' = None
  /\ socket' = Closed
  /\ wsRef' = None
  /\ cleanup' = FALSE
  /\ timer' = TimerAfterCleanup
  /\ attempts' = 0
  /\ intentional' = FALSE
  /\ rerun' = FALSE
  /\ gotOutput' = FALSE
  /\ ui' = Quiet
  /\ screen' = {}
  /\ UNCHANGED env

\* Faulty variant: the terminal is created once and kept for the next cluster.
SwitchKeepsTerminal(c) ==
  /\ shown # None
  /\ c # shown
  /\ shown' = c
  /\ RunEffect(c, intentional, ui)
  /\ UNCHANGED <<screen, env>>

\* scheduleStateSync depends on the cluster and the terminal on it: a switch
\* disposes the terminal and creates another.
SwitchCluster(c) ==
  /\ shown # None
  /\ c # shown
  /\ shown' = c
  /\ RunEffect(c, intentional, ui)
  /\ screen' = {}
  /\ UNCHANGED env

\* handleReconnect; the cleanup it brings about undoes its first assignment.
Reconnect ==
  /\ shown # None
  /\ RunEffect(shown, FALSE, [ui EXCEPT !.reconnecting = FALSE, !.error = "none"])
  /\ UNCHANGED <<shown, screen, env>>

-----------------------------------------------------------------------------
(* The reconnect timer.                                                    *)

\* Faulty variant: the timer counts its attempt and changes no nonce.
TimerOnlyCounts ==
  /\ timer
  /\ timer' = FALSE
  /\ attempts' = attempts + 1
  /\ UNCHANGED <<shown, socket, wsRef, cleanup, intentional, rerun, gotOutput, ui, screen, env>>

TimerFires ==
  /\ timer
  /\ timer' = FALSE
  /\ attempts' = attempts + 1
  /\ rerun' = TRUE
  /\ UNCHANGED <<shown, socket, wsRef, cleanup, intentional, gotOutput, ui, screen, env>>

EffectReruns ==
  /\ rerun
  /\ RunEffect(shown, intentional, ui)
  /\ UNCHANGED <<shown, screen, env>>

-----------------------------------------------------------------------------
(* The handlers of a socket.  Nothing is delivered after close() but the   *)
(* close event, and that is no longer the current socket's.                *)

\* Faulty variant: onopen leaves intentionalCloseRef as the cleanup set it.
OpenedStaysIntentional(s) ==
  /\ s = wsRef
  /\ socket[s].state = "connecting"
  /\ up
  /\ socket' = [socket EXCEPT ![s].state = "open"]
  /\ ui' = [ui EXCEPT !.connecting = FALSE, !.reconnecting = FALSE, !.error = "none"]
  /\ attempts' = 0
  /\ timer' = FALSE
  /\ screen' = IF socket[s].again THEN screen ELSE {}
  /\ UNCHANGED <<shown, wsRef, cleanup, intentional, rerun, gotOutput, env>>

\* Faulty variant: onopen takes back one attempt, though a first one counts none.
OpenedForgivesOne(s) ==
  /\ s = wsRef
  /\ socket[s].state = "connecting"
  /\ up
  /\ socket' = [socket EXCEPT ![s].state = "open"]
  /\ ui' = [ui EXCEPT !.connecting = FALSE, !.reconnecting = FALSE, !.error = "none"]
  /\ attempts' = attempts - 1
  /\ intentional' = FALSE
  /\ timer' = FALSE
  /\ screen' = IF socket[s].again THEN screen ELSE {}
  /\ UNCHANGED <<shown, wsRef, cleanup, rerun, gotOutput, env>>

Opened(s) ==
  /\ s = wsRef
  /\ socket[s].state = "connecting"
  /\ up
  /\ socket' = [socket EXCEPT ![s].state = "open"]
  /\ ui' = [ui EXCEPT !.connecting = FALSE, !.reconnecting = FALSE, !.error = "none"]
  /\ attempts' = 0
  /\ intentional' = FALSE
  /\ timer' = FALSE
  /\ screen' = IF socket[s].again THEN screen ELSE {}
  /\ UNCHANGED <<shown, wsRef, cleanup, rerun, gotOutput, env>>

Output(s) ==
  /\ s = wsRef
  /\ socket[s].state = "open"
  /\ gotOutput' = TRUE
  /\ ui' = [ui EXCEPT !.connected = @ \/ ~gotOutput]
  /\ screen' = screen \cup {socket[s].peer}
  /\ UNCHANGED <<shown, socket, wsRef, cleanup, timer, attempts, intentional, rerun, env>>

\* "exit": the shell has ended, the backend closes the socket next.
ShellExits(s) ==
  /\ s = wsRef
  /\ socket[s].state = "open"
  /\ socket' = [socket EXCEPT ![s].state = "exited"]
  /\ ui' = [ui EXCEPT !.connecting = FALSE, !.connected = FALSE]
  /\ UNCHANGED <<shown, refs, screen, env>>

\* "error": the backend says why it could not start a shell (sendErr), which it
\* does before any output.
ShellFails(s) ==
  /\ s = wsRef
  /\ socket[s].state = "open"
  /\ ~gotOutput
  /\ socket' = [socket EXCEPT ![s].state = "exited"]
  /\ ui' = [ui EXCEPT !.error = "server"]
  /\ UNCHANGED <<shown, refs, screen, env>>

\* onclose of the current socket: a handshake that failed, a shell that has
\* ended, or a connection that was lost.
ConnectionEnds(s) ==
  /\ s = wsRef
  /\ ~up \/ socket[s].state = "exited"
  /\ socket' = [socket EXCEPT ![s] = Unused]
  /\ wsRef' = None
  /\ LET retry == ~intentional /\ attempts < MaxAttempts
         lost  == ~intentional /\ attempts >= MaxAttempts
     IN  /\ timer' = (timer \/ retry)
         /\ ui' = [ui EXCEPT !.connecting = FALSE, !.connected = FALSE,
                             !.reconnecting = retry,
                             !.error = IF retry THEN "none" ELSE IF lost THEN "lost" ELSE @]
  /\ UNCHANGED <<shown, cleanup, attempts, intentional, rerun, gotOutput, screen, env>>

\* onclose of a socket the cleanup has closed.
CloseUnheard(s) ==
  /\ socket[s].state = "closing"
  /\ socket' = [socket EXCEPT ![s] = Unused]
  /\ UNCHANGED <<shown, refs, ui, screen, env>>

-----------------------------------------------------------------------------
\* useBackendCircuitOpen; the circuit opens on failing requests only.
CircuitOpens  == ~up /\ ~circuit /\ circuit' = TRUE /\ UNCHANGED <<shown, socket, refs, ui, screen, up>>
CircuitCloses == circuit /\ circuit' = FALSE /\ UNCHANGED <<shown, socket, refs, ui, screen, up>>
BackendChanges == up' = ~up /\ UNCHANGED <<shown, socket, refs, ui, screen, circuit>>

User == ClosePanel \/ Reconnect \/ \E c \in Clusters : OpenPanel(c) \/ SwitchCluster(c)

Event(s) ==
  \/ Opened(s) \/ Output(s) \/ ShellExits(s) \/ ShellFails(s)
  \/ ConnectionEnds(s) \/ CloseUnheard(s)

LinkNext ==
  \/ User
  \/ TimerFires
  \/ EffectReruns
  \/ \E s \in Sockets : Event(s)
  \/ CircuitOpens \/ CircuitCloses \/ BackendChanges

LinkSpec == LinkInit /\ [][LinkNext]_svars

\* Timers fire, renders happen, handshakes end and close events arrive.
LinkFairness ==
  /\ WF_svars(TimerFires)
  /\ WF_svars(EffectReruns)
  /\ WF_svars(\E s \in Sockets : Opened(s))
  /\ \A s \in Sockets : WF_svars(ConnectionEnds(s)) /\ WF_svars(CloseUnheard(s))

LinkFairSpec == LinkSpec /\ LinkFairness

-----------------------------------------------------------------------------
(* Properties.                                                             *)

\* No switch, retry or click leaves a second connection behind: every socket
\* that is not closed is the current one and goes to the cluster shown.
OneLiveSocket ==
  \A s \in Sockets : socket[s].state \in Live => s = wsRef /\ socket[s].peer = shown

\* What the tab reports fits its socket, and no retry is pending beside a
\* connection it would tear down (ShellSession.tsx:447-453).
IndicatorTruthful ==
  /\ ui.connected => wsRef # None /\ socket[wsRef].state = "open"
  /\ ui.connecting <=> wsRef # None /\ socket[wsRef].state = "connecting"
  /\ timer \/ rerun => wsRef = None /\ ~ui.connecting

\* The terminal never shows one cluster's output under another's name.
ScreenOfCluster == screen \subseteq {shown}

Link ==
  IF shown = None THEN "off"
  ELSE IF wsRef # None /\ socket[wsRef].state \in {"open", "exited"} THEN "attached"
  ELSE IF wsRef # None \/ timer \/ rerun THEN "trying"
  ELSE "idle"

LinkLine == IF Link = "attached" THEN socket[wsRef].peer ELSE None

Terminal == INSTANCE TerminalLink WITH link <- Link, line <- LinkLine, down <- circuit

\* Sockets, refs and timer implement one line to the cluster shown; a line that
\* has been up is never given up without another attempt.
ImplementsLink == Terminal!Spec

\* An attempt that is under way, be it the timer of one, ends with a line unless
\* the backend is down meanwhile, the circuit is open or the panel is closed.
AttemptSucceeds ==
  Link = "trying" ~> (Link = "attached" \/ ~up \/ ui.error = "unavailable" \/ shown = None)
=============================================================================
