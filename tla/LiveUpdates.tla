----------------------------- MODULE LiveUpdates -----------------------------
(***************************************************************************)
(* Live updates of the resource lists: the WebSocket to /ws/resources and  *)
(* its reconnection (hooks/useBackendWebSocket.ts of the frontend) and the *)
(* batched invalidation of cached lists that its messages bring about      *)
(* (hooks/useResourceLiveUpdates.ts, mounted for good in App.tsx).         *)
(*                                                                         *)
(* The handlers of a socket belong to the render that created it: they     *)
(* invalidate lists of the cluster shown then, and onclose does not ask    *)
(* whether its socket is still the one in wsRef.  The backend's hub sends  *)
(* what changes in any cluster to every client: its informers' handlers    *)
(* leave the message's cluster empty, and no client subscribes to any.     *)
(***************************************************************************)
EXTENDS Integers, FiniteSets

CONSTANTS
  Clusters,
  Sockets,     \* WebSocket objects, reused once they are closed
  MaxSwitches, \* bound on changes of the active cluster
  MaxInbox,    \* bound on messages a socket has not delivered yet
  None

ASSUME LiveAssumption ==
  /\ None \notin Clusters
  /\ None \notin Sockets
  /\ IsFiniteSet(Sockets)
  /\ MaxSwitches \in Nat
  /\ MaxInbox \in Nat

VARIABLES
  shown,    \* the active cluster; without one the hook is not enabled
  socket,   \* every WebSocket: how far it is and the cluster of its handlers
  wsRef,    \* wsRef.current
  armed,    \* how many reconnect timers are armed
  held,     \* reconnectTimeoutRef.current is one of them
  inbox,    \* per socket: messages that have arrived and are not handled
  pending,  \* pendingInvalidations is not empty
  flush,    \* the cluster of the armed timer's flushInvalidations, None without one
  flushRef, \* flushTimer.current is set
  up,       \* the backend accepts connections
  owed,     \* history: a change in the cluster shown, announced to a socket of
            \* its own, that no invalidation of its lists has followed yet
  excuse,   \* history: an owed update went down with a connection, in a frame
            \* with others, or with a flush of another cluster's lists
  untyped,  \* history: a resource_update without a type has come
  switches  \* how often the active cluster has changed

batch == <<pending, flush, flushRef, untyped>>
lvars == <<shown, socket, wsRef, armed, held, inbox, batch, up, owed, excuse, switches>>

Line == [state : {"unused", "connecting", "open", "closing"}, peer : Clusters \cup {None}]

Unused == [state |-> "unused", peer |-> None]

LiveTypeOK ==
  /\ shown \in Clusters \cup {None}
  /\ socket \in [Sockets -> Line]
  /\ wsRef \in Sockets \cup {None}
  /\ armed \in Nat
  /\ held \in BOOLEAN
  /\ inbox \in [Sockets -> 0..MaxInbox]
  /\ pending \in BOOLEAN
  /\ flush \in Clusters \cup {None}
  /\ flushRef \in BOOLEAN
  /\ up \in BOOLEAN
  /\ owed \in BOOLEAN
  /\ excuse \in BOOLEAN
  /\ untyped \in BOOLEAN
  /\ switches \in 0..MaxSwitches

LiveInit ==
  /\ shown = None
  /\ socket = [s \in Sockets |-> Unused]
  /\ wsRef = None
  /\ armed = 0
  /\ held = FALSE
  /\ inbox = [s \in Sockets |-> 0]
  /\ pending = FALSE
  /\ flush = None
  /\ flushRef = FALSE
  /\ up = TRUE
  /\ owed = FALSE
  /\ excuse = FALSE
  /\ untyped = FALSE
  /\ switches = 0

-----------------------------------------------------------------------------
(* connect, disconnect, reconnect.                                         *)

\* connect of the latest render, lines being the sockets there are; it returns
\* at once while no cluster is shown.
Connect(c, lines, ref) ==
  IF c = None
  THEN socket' = lines /\ wsRef' = ref
  ELSE \E s \in Sockets :
         /\ lines[s].state = "unused"
         /\ socket' = [lines EXCEPT ![s] = [state |-> "connecting", peer |-> c]]
         /\ wsRef' = s

\* Faulty variant: the timer is forgotten, not cleared.
NoneCleared == armed

\* Faulty variant: a timer is counted as cleared though none is held.
OneCleared == armed - 1

\* The timers left when the one in reconnectTimeoutRef is cleared.
OthersArmed == IF held THEN armed - 1 ELSE armed

\* The effect of [enabled, clusterId, isConfigured]: disconnect, then connect.
Switch(c) ==
  /\ c # shown
  /\ switches < MaxSwitches
  /\ switches' = switches + 1
  /\ shown' = c
  /\ armed' = OthersArmed
  /\ held' = FALSE
  /\ LET closed == IF wsRef = None THEN socket ELSE [socket EXCEPT ![wsRef].state = "closing"]
     IN  Connect(c, closed, None)
  /\ inbox' = [s \in Sockets |-> IF s = wsRef THEN 0 ELSE inbox[s]]
  /\ owed' = FALSE
  /\ excuse' = FALSE
  /\ UNCHANGED <<batch, up>>

\* A timer has fired: which of them does not matter, each clears the ref.
TimerFires ==
  /\ armed > 0
  /\ armed' = armed - 1
  /\ held' = FALSE
  /\ Connect(shown, socket, wsRef)
  /\ UNCHANGED <<shown, inbox, batch, up, owed, excuse, switches>>

\* visibilitychange: reconnect, if wsRef holds no socket.
TabVisible ==
  /\ shown # None
  /\ wsRef = None
  /\ armed' = OthersArmed
  /\ held' = FALSE
  /\ Connect(shown, socket, None)
  /\ UNCHANGED <<shown, inbox, batch, up, owed, excuse, switches>>

-----------------------------------------------------------------------------
(* The handlers of a socket.                                               *)

Opened(s) ==
  /\ socket[s].state = "connecting"
  /\ up
  /\ socket' = [socket EXCEPT ![s].state = "open"]
  /\ UNCHANGED <<shown, wsRef, armed, held, inbox, batch, up, owed, excuse, switches>>

\* Faulty variant: a socket that never opened is not tried again.
ClosedOnlyAfterOpen(s) ==
  /\ \/ socket[s].state = "closing"
     \/ socket[s].state \in {"connecting", "open"} /\ ~up
  /\ socket' = [socket EXCEPT ![s] = Unused]
  /\ wsRef' = None
  /\ armed' = IF socket[s].state = "connecting" THEN armed ELSE armed + 1
  /\ held' = IF socket[s].state = "connecting" THEN held ELSE TRUE
  /\ inbox' = [inbox EXCEPT ![s] = 0]
  /\ excuse' = (excuse \/ (owed /\ inbox[s] > 0))
  /\ UNCHANGED <<shown, batch, up, owed, switches>>

\* onclose of any socket, the current one or one that was closed for another:
\* the delay differs with the attempt, the retry does not.
Closed(s) ==
  /\ \/ socket[s].state = "closing"
     \/ socket[s].state \in {"connecting", "open"} /\ ~up
  /\ socket' = [socket EXCEPT ![s] = Unused]
  /\ wsRef' = None
  /\ armed' = armed + 1
  /\ held' = TRUE
  /\ inbox' = [inbox EXCEPT ![s] = 0]
  /\ excuse' = (excuse \/ (owed /\ inbox[s] > 0))
  /\ UNCHANGED <<shown, batch, up, owed, switches>>

\* Faulty variant: no timer is armed for the batch.
ReceivedUnarmed(s) ==
  /\ socket[s].state = "open"
  /\ inbox[s] > 0
  /\ inbox' = [inbox EXCEPT ![s] = @ - 1]
  /\ pending' = TRUE
  /\ UNCHANGED <<shown, socket, wsRef, armed, held, flush, flushRef, untyped, up, owed, excuse, switches>>

\* onMessage arms a timer unless the ref says that one is armed; it calls the
\* flushInvalidations of the render that socket s belongs to.
ArmFlush(s) ==
  /\ flush' = IF flushRef THEN flush ELSE socket[s].peer
  /\ flushRef' = TRUE

\* onMessage of the render the socket belongs to.
Received(s) ==
  /\ socket[s].state = "open"
  /\ inbox[s] > 0
  /\ inbox' = [inbox EXCEPT ![s] = @ - 1]
  /\ pending' = TRUE
  /\ ArmFlush(s)
  /\ UNCHANGED <<shown, socket, wsRef, armed, held, untyped, up, owed, excuse, switches>>

\* A resource_update whose resource has no type, which the hub never sends: it
\* adds nothing to the batch, but arms the timer.
ReceivedUntyped(s) ==
  /\ socket[s].state = "open"
  /\ ArmFlush(s)
  /\ untyped' = TRUE
  /\ UNCHANGED <<shown, socket, wsRef, armed, held, inbox, pending, up, owed, excuse, switches>>

\* Messages that wait together are written into one frame, on a line each, and
\* JSON.parse refuses the whole.
ReceivedJoined(s) ==
  /\ socket[s].state = "open"
  /\ \E n \in 2..inbox[s] : inbox' = [inbox EXCEPT ![s] = @ - n]
  /\ excuse' = (excuse \/ owed)
  /\ UNCHANGED <<shown, socket, wsRef, armed, held, batch, up, owed, switches>>

\* Faulty variant: with another cluster shown the flush returns early, and
\* leaves flushTimer set.
FlushReturnsEarly ==
  /\ flush # None
  /\ flush' = None
  /\ IF pending /\ flush = shown
     THEN pending' = FALSE /\ flushRef' = FALSE /\ owed' = FALSE /\ excuse' = FALSE
     ELSE UNCHANGED <<pending, flushRef, owed, excuse>>
  /\ UNCHANGED <<shown, socket, wsRef, armed, held, inbox, untyped, up, switches>>

\* flushInvalidations, for the cluster its closure was made for.  Without
\* anything to flush it returns before it clears the timer's ref.
FlushFires ==
  /\ flush # None
  /\ flush' = None
  /\ IF pending
     THEN /\ pending' = FALSE
          /\ flushRef' = FALSE
          /\ owed' = (owed /\ flush # shown)
          /\ excuse' = (owed /\ flush # shown)
     ELSE UNCHANGED <<pending, flushRef, owed, excuse>>
  /\ UNCHANGED <<shown, socket, wsRef, armed, held, inbox, untyped, up, switches>>

-----------------------------------------------------------------------------
(* The backend.                                                            *)

\* A resource of cluster c changes and the hub, which BroadcastResourceEvent is
\* given no cluster, queues resource_update for every client.
Changes(c) ==
  /\ up
  /\ \A s \in Sockets : socket[s].state = "open" => inbox[s] < MaxInbox
  /\ inbox' = [s \in Sockets |-> IF socket[s].state = "open" THEN inbox[s] + 1 ELSE inbox[s]]
  /\ LET heard == c = shown /\ \E s \in Sockets : socket[s].state = "open" /\ socket[s].peer = c
     IN  /\ owed' = (owed \/ heard)
         /\ excuse' = (excuse /\ ~heard)
  /\ UNCHANGED <<shown, socket, wsRef, armed, held, batch, up, switches>>

BackendChanges ==
  /\ up' = ~up
  /\ UNCHANGED <<shown, socket, wsRef, armed, held, inbox, batch, owed, excuse, switches>>

LiveNext ==
  \/ \E c \in Clusters \cup {None} : Switch(c)
  \/ TimerFires
  \/ TabVisible
  \/ \E s \in Sockets :
       Opened(s) \/ Closed(s) \/ Received(s) \/ ReceivedUntyped(s) \/ ReceivedJoined(s)
  \/ FlushFires
  \/ \E c \in Clusters : Changes(c)
  \/ BackendChanges

LiveSpec == LiveInit /\ [][LiveNext]_lvars

\* Timers fire, handshakes end, messages and close events arrive.
LiveFairness ==
  /\ WF_lvars(TimerFires) /\ WF_lvars(FlushFires)
  /\ \A s \in Sockets : WF_lvars(Opened(s)) /\ WF_lvars(Closed(s)) /\ WF_lvars(Received(s))

LiveFairSpec == LiveSpec /\ LiveFairness

-----------------------------------------------------------------------------
(* Properties.                                                             *)

Used == {s \in Sockets : socket[s].state # "unused"}

\* While a cluster is shown there is a socket or a retry, whatever has failed:
\* "never gives up" (useBackendWebSocket.ts:110).
NeverGivesUp == shown # None => Used # {} \/ armed > 0

\* A switch may leave a retry of the socket it closed behind, which ends as one
\* more connection; failures, retries and visibility changes add none.
LeaksBounded == Cardinality(Used) + armed <= switches

\* An update without a type has left the timer's ref set without a timer: no
\* batch is flushed any more.
Stuck == untyped /\ flushRef /\ flush = None

\* An announced change of the cluster shown is on its way into its lists, or
\* it went down with a connection, in a joined frame or with another cluster's
\* flush, or the batch is stuck.
NoLostUpdate ==
  owed => \/ excuse
          \/ \E s \in Sockets : socket[s].state = "open" /\ inbox[s] > 0
          \/ pending /\ (flush # None \/ Stuck)

\* It gets there: nothing else keeps an invalidation from following.
UpdatesArrive == owed ~> (~owed \/ excuse \/ Stuck)
=============================================================================
