------------------------- MODULE ShellConnectionProofs -------------------------
(***************************************************************************)
(* Proofs about ShellConnection for any clusters, sockets and bound on the *)
(* attempts: its safety invariants, and that it implements TerminalLink.   *)
(***************************************************************************)
EXTENDS ShellConnection, TLAPS

\* The current socket is one the effect's cleanup will close, and a timer is one
\* the cleanup will clear.
Covered ==
  /\ wsRef # None => cleanup /\ socket[wsRef].state \in Live
  /\ timer => cleanup /\ attempts < MaxAttempts
  /\ cleanup \/ rerun => shown # None

\* A line that is up will be tried again when it is lost.
Retryable ==
  wsRef # None /\ socket[wsRef].state \in {"open", "exited"} => ~intentional /\ attempts = 0

Heard == ui.connected => gotOutput

ShellInv ==
  /\ LinkTypeOK /\ OneLiveSocket /\ IndicatorTruthful /\ ScreenOfCluster
  /\ Covered /\ Retryable /\ Heard

LEMMA Limits == MaxAttempts \in Nat /\ 0 < MaxAttempts
  BY ShellAssumption

LEMMA LinesTyped ==
  /\ Unused \in Line
  /\ \A c \in Clusters, again \in BOOLEAN : [state |-> "connecting", peer |-> c, again |-> again] \in Line
  BY DEF Unused, Line

-----------------------------------------------------------------------------
LEMMA ShellInitially == LinkInit => ShellInv
<1> SUFFICES ASSUME LinkInit PROVE ShellInv
  OBVIOUS
<1>1. LinkTypeOK
  <2>1. socket \in [Sockets -> Line]
    BY LinesTyped DEF LinkInit
  <2>2. attempts \in 0..MaxAttempts
    BY Limits DEF LinkInit
  <2>3. ui \in Status
    BY DEF LinkInit, Quiet, Status
  <2>4. QED
    BY <2>1, <2>2, <2>3 DEF LinkInit, LinkTypeOK
<1>2. OneLiveSocket /\ IndicatorTruthful /\ ScreenOfCluster /\ Covered /\ Retryable /\ Heard
  BY DEF LinkInit, Unused, Quiet, Live, OneLiveSocket, IndicatorTruthful, ScreenOfCluster,
         Covered, Retryable, Heard
<1> QED
  BY <1>1, <1>2 DEF ShellInv

\* After close() no socket is live: the cleanup misses none.
LEMMA ClosedAll ==
  ASSUME ShellInv
  PROVE  /\ Closed \in [Sockets -> Line]
         /\ \A s \in Sockets : Closed[s].state \notin Live
         /\ ~cleanup => wsRef = None
         /\ ~TimerAfterCleanup
<1>1. LinkTypeOK /\ OneLiveSocket /\ Covered
  BY DEF ShellInv
<1>2. Closed \in [Sockets -> Line]
  BY <1>1 DEF LinkTypeOK, Line, Closed
<1>3. ASSUME NEW s \in Sockets PROVE Closed[s].state \notin Live
  <2>1. socket[s].state \in Live => s = wsRef
    BY <1>1 DEF OneLiveSocket
  <2>2. wsRef # None => cleanup
    BY <1>1 DEF Covered
  <2>3. CASE s = wsRef
    BY <1>1, <2>2, <2>3, ShellAssumption DEF LinkTypeOK, Closed, Live, Line
  <2>4. CASE s # wsRef
    BY <1>1, <2>1, <2>4 DEF LinkTypeOK, Closed
  <2>5. QED
    BY <2>3, <2>4
<1> QED
  BY <1>1, <1>2, <1>3 DEF Covered, TimerAfterCleanup

\* A run of the effect, whoever brings it about: there is no timer afterwards, and
\* one socket, which is connecting, unless the circuit is open.
LEMMA RunKeeps ==
  ASSUME ShellInv, NEW c \in Clusters, NEW intent \in BOOLEAN, NEW status \in Status,
         RunEffect(c, intent, status), shown' = c, screen' \subseteq Clusters \cap {c}, UNCHANGED env
  PROVE  /\ ShellInv'
         /\ timer' = FALSE /\ rerun' = FALSE
         /\ circuit => wsRef' = None
         /\ ~circuit => wsRef' \in Sockets /\ wsRef' # None /\ socket'[wsRef'].state = "connecting"
<1> DEFINE cleaned == IF cleanup THEN [status EXCEPT !.reconnecting = FALSE] ELSE status
<1>1. LinkTypeOK /\ c # None
  BY ShellAssumption DEF ShellInv
<1>2. cleaned \in Status /\ status.reconnecting \in BOOLEAN
  BY DEF Status
<1>3. /\ intentional' = (intent \/ cleanup) /\ timer' = FALSE /\ rerun' = FALSE
      /\ attempts' = IF cleanup THEN 0 ELSE attempts
      /\ RunUnavailable(cleaned) \/ RunConnect(c, cleaned, status.reconnecting)
  BY <1>1, ClosedAll DEF RunEffect, LinkTypeOK
<1>4. /\ intentional' \in BOOLEAN /\ timer' \in BOOLEAN /\ rerun' \in BOOLEAN
      /\ attempts' \in 0..MaxAttempts
      /\ shown' \in Clusters \cup {None} /\ screen' \subseteq Clusters
      /\ circuit' \in BOOLEAN /\ up' \in BOOLEAN /\ ScreenOfCluster'
  <2>1. attempts' \in 0..MaxAttempts
    BY <1>1, <1>3, Limits DEF LinkTypeOK
  <2>2. intentional' \in BOOLEAN
    BY <1>3
  <2>3. QED
    BY <1>1, <1>3, <2>1, <2>2 DEF LinkTypeOK, env, ScreenOfCluster
<1> HIDE DEF cleaned
<1>5. CASE RunUnavailable(cleaned)
  <2>1. /\ circuit /\ wsRef' = None /\ socket' = Closed /\ cleanup' = FALSE
        /\ gotOutput' = gotOutput
        /\ ui' = [cleaned EXCEPT !.connecting = FALSE, !.connected = FALSE, !.error = "unavailable"]
    BY <1>5, ClosedAll DEF RunUnavailable
  <2>2. ui' \in Status /\ ui'.connecting = FALSE /\ ui'.connected = FALSE
    BY <1>2, <2>1 DEF Status
  <2>3. LinkTypeOK'
    BY <1>1, <1>4, <2>1, <2>2, ClosedAll DEF LinkTypeOK
  <2>4. OneLiveSocket'
    BY <2>1, ClosedAll DEF OneLiveSocket
  <2>5. IndicatorTruthful' /\ Covered' /\ Retryable' /\ Heard'
    BY <1>1, <1>3, <2>1, <2>2 DEF IndicatorTruthful, Covered, Retryable, Heard
  <2>6. QED
    BY <1>3, <1>4, <2>1, <2>3, <2>4, <2>5 DEF ShellInv
<1>6. CASE RunConnect(c, cleaned, status.reconnecting)
  <2>1. PICK s \in Sockets :
          /\ wsRef' = s
          /\ socket' = [Closed EXCEPT ![s] = [state |-> "connecting", peer |-> c, again |-> status.reconnecting]]
    BY <1>6 DEF RunConnect
  <2>2. /\ ~circuit /\ cleanup' = TRUE /\ gotOutput' = FALSE
        /\ ui' = [cleaned EXCEPT !.connecting = TRUE, !.connected = FALSE, !.error = "none"]
    BY <1>6 DEF RunConnect
  <2>3. ui' \in Status /\ ui'.connecting = TRUE /\ ui'.connected = FALSE
    BY <1>2, <2>2 DEF Status
  <2>4. s # None
    BY ShellAssumption
  <2>5. /\ socket' \in [Sockets -> Line]
        /\ socket'[s].state = "connecting" /\ socket'[s].peer = c
        /\ \A t \in Sockets \ {s} : socket'[t].state \notin Live
    BY <1>2, <2>1, ClosedAll, LinesTyped
  <2>6. LinkTypeOK'
    BY <1>4, <2>1, <2>2, <2>3, <2>5 DEF LinkTypeOK
  <2>7. OneLiveSocket'
    BY <2>1, <2>5 DEF OneLiveSocket
  <2>8. IndicatorTruthful' /\ Covered' /\ Retryable' /\ Heard'
    BY <1>1, <1>3, <2>1, <2>2, <2>3, <2>4, <2>5
       DEF IndicatorTruthful, Covered, Retryable, Heard, Live
  <2>9. QED
    BY <1>3, <1>4, <2>1, <2>2, <2>4, <2>5, <2>6, <2>7, <2>8 DEF ShellInv
<1> QED
  BY <1>3, <1>5, <1>6

\* Which actions run the effect, and for which cluster.
Reruns(c) ==
  /\ shown' = c
  /\ \E intent \in BOOLEAN, status \in Status : RunEffect(c, intent, status)
  /\ screen' \subseteq Clusters \cap {c}
  /\ UNCHANGED env

LEMMA Rerunning ==
  ASSUME ShellInv,
         EffectReruns \/ Reconnect \/ \E c \in Clusters : OpenPanel(c) \/ SwitchCluster(c)
  PROVE  \E c \in Clusters : Reruns(c)
<1>1. /\ intentional \in BOOLEAN /\ ui \in Status /\ screen \subseteq Clusters
      /\ shown \in Clusters \cup {None} /\ screen \subseteq {shown}
  BY DEF ShellInv, LinkTypeOK, ScreenOfCluster
<1>2. [ui EXCEPT !.reconnecting = FALSE, !.error = "none"] \in Status
  BY <1>1 DEF Status
<1>3. CASE EffectReruns
  <2>1. shown # None
    BY <1>3 DEF EffectReruns, ShellInv, Covered
  <2>2. QED
    BY <1>1, <1>3, <2>1 DEF EffectReruns, Reruns
<1>4. CASE Reconnect
  BY <1>1, <1>2, <1>4 DEF Reconnect, Reruns
<1>5. ASSUME NEW c \in Clusters, OpenPanel(c) PROVE Reruns(c)
  <2>1. screen = {}
    BY <1>1, <1>5, ShellAssumption DEF OpenPanel
  <2>2. QED
    BY <1>1, <1>5, <2>1 DEF OpenPanel, Reruns
<1>6. ASSUME NEW c \in Clusters, SwitchCluster(c) PROVE Reruns(c)
  BY <1>1, <1>6 DEF SwitchCluster, Reruns
<1> QED
  BY <1>3, <1>4, <1>5, <1>6

LEMMA Rerun ==
  ASSUME ShellInv, NEW c \in Clusters, Reruns(c)
  PROVE  /\ ShellInv' /\ shown' = c /\ UNCHANGED env
         /\ timer' = FALSE /\ rerun' = FALSE
         /\ circuit => wsRef' = None
         /\ ~circuit => wsRef' \in Sockets /\ wsRef' # None /\ socket'[wsRef'].state = "connecting"
  BY RunKeeps DEF Reruns

-----------------------------------------------------------------------------
LEMMA CloseKeeps ==
  ASSUME ShellInv, ClosePanel
  PROVE  ShellInv'
<1>1. LinkTypeOK'
  <2>1. ui' \in Status
    BY DEF ClosePanel, Quiet, Status
  <2>2. attempts' \in 0..MaxAttempts
    BY Limits DEF ClosePanel
  <2>3. socket' \in [Sockets -> Line] /\ timer' = FALSE
    BY ClosedAll DEF ClosePanel, TimerAfterCleanup, ShellInv, LinkTypeOK
  <2>4. QED
    BY <2>1, <2>2, <2>3 DEF ClosePanel, env, ShellInv, LinkTypeOK
<1>2. OneLiveSocket'
  BY ClosedAll DEF ClosePanel, OneLiveSocket
<1>3. IndicatorTruthful' /\ ScreenOfCluster' /\ Covered' /\ Retryable' /\ Heard'
  BY ClosedAll DEF ClosePanel, Quiet, IndicatorTruthful, ScreenOfCluster, Covered, Retryable, Heard
<1> QED
  BY <1>1, <1>2, <1>3 DEF ShellInv

LEMMA TimerKeeps ==
  ASSUME ShellInv, TimerFires
  PROVE  ShellInv'
<1>1. LinkTypeOK'
  <2>1. attempts' \in 0..MaxAttempts
    BY Limits DEF TimerFires, ShellInv, LinkTypeOK, Covered
  <2>2. QED
    BY <2>1 DEF TimerFires, env, ShellInv, LinkTypeOK
<1>2. OneLiveSocket' /\ IndicatorTruthful' /\ ScreenOfCluster'
  BY DEF TimerFires, ShellInv, OneLiveSocket, IndicatorTruthful, ScreenOfCluster
<1>3. Covered' /\ Retryable' /\ Heard'
  BY DEF TimerFires, ShellInv, IndicatorTruthful, Covered, Retryable, Heard
<1> QED
  BY <1>1, <1>2, <1>3 DEF ShellInv

LEMMA OpenedKeeps ==
  ASSUME ShellInv, NEW s \in Sockets, Opened(s)
  PROVE  ShellInv'
<1>1. /\ socket \in [Sockets -> Line] /\ ui \in Status /\ wsRef = s /\ s # None
      /\ socket[s].state = "connecting" /\ ui.connected = FALSE /\ rerun = FALSE
  BY ShellAssumption DEF Opened, ShellInv, LinkTypeOK, IndicatorTruthful, Status
<1>2. /\ socket' \in [Sockets -> Line] /\ socket'[s].state = "open" /\ socket'[s].peer = socket[s].peer
      /\ \A t \in Sockets \ {s} : socket'[t] = socket[t]
  BY <1>1 DEF Opened, Line
<1>3. ui' \in Status /\ ui'.connecting = FALSE /\ ui'.connected = FALSE
  BY <1>1 DEF Opened, Status
<1>4. LinkTypeOK'
  <2>1. screen' \subseteq Clusters
    BY DEF Opened, ShellInv, LinkTypeOK
  <2>2. attempts' \in 0..MaxAttempts
    BY Limits DEF Opened
  <2>3. QED
    BY <1>2, <1>3, <2>1, <2>2 DEF Opened, env, ShellInv, LinkTypeOK
<1>5. OneLiveSocket'
  BY <1>1, <1>2 DEF Opened, ShellInv, OneLiveSocket, Live
<1>6. IndicatorTruthful' /\ Heard'
  BY <1>1, <1>2, <1>3 DEF Opened, IndicatorTruthful, Heard
<1>7. ScreenOfCluster'
  BY DEF Opened, ShellInv, ScreenOfCluster
<1>8. Covered' /\ Retryable'
  BY <1>1, <1>2 DEF Opened, ShellInv, Covered, Retryable, Live
<1> QED
  BY <1>4, <1>5, <1>6, <1>7, <1>8 DEF ShellInv

LEMMA OutputKeeps ==
  ASSUME ShellInv, NEW s \in Sockets, Output(s)
  PROVE  ShellInv'
<1>1. /\ s = wsRef /\ s # None /\ socket[s].state = "open" /\ socket[s].peer = shown
      /\ shown \in Clusters /\ ui \in Status
  BY ShellAssumption DEF Output, ShellInv, LinkTypeOK, OneLiveSocket, Live, Covered
<1>2. ui' \in Status /\ ui'.connecting = ui.connecting
  BY <1>1 DEF Output, Status, ShellInv, LinkTypeOK
<1>3. screen' = screen \cup {shown}
  BY <1>1 DEF Output
<1>4. LinkTypeOK'
  BY <1>1, <1>2, <1>3 DEF Output, env, ShellInv, LinkTypeOK
<1>5. OneLiveSocket' /\ ScreenOfCluster' /\ Covered' /\ Retryable' /\ Heard'
  BY <1>3 DEF Output, ShellInv, OneLiveSocket, ScreenOfCluster, Covered, Retryable, Heard
<1>6. IndicatorTruthful'
  BY <1>1, <1>2 DEF Output, ShellInv, IndicatorTruthful
<1> QED
  BY <1>4, <1>5, <1>6 DEF ShellInv

\* The two messages after which the backend closes the socket.
LEMMA ExitKeeps ==
  ASSUME ShellInv, NEW s \in Sockets, ShellExits(s) \/ ShellFails(s)
  PROVE  ShellInv'
<1>1. /\ s = wsRef /\ s # None /\ socket[s].state = "open" /\ socket[s].peer = shown
      /\ ui \in Status /\ socket \in [Sockets -> Line] /\ ui.connecting = FALSE
      /\ socket' = [socket EXCEPT ![s].state = "exited"]
      /\ UNCHANGED <<shown, refs, screen, env>>
  BY ShellAssumption
     DEF ShellExits, ShellFails, ShellInv, LinkTypeOK, OneLiveSocket, Live, IndicatorTruthful, Status
<1>2. ui' \in Status /\ ui'.connecting = FALSE /\ ui'.connected = FALSE
  <2>1. CASE ShellExits(s)
    BY <1>1, <2>1 DEF ShellExits, Status
  <2>2. CASE ShellFails(s)
    <3>1. ui.connected = FALSE
      BY <1>1, <2>2 DEF ShellFails, ShellInv, Heard, Status
    <3>2. QED
      BY <1>1, <2>2, <3>1 DEF ShellFails, Status
  <2>3. QED
    BY <2>1, <2>2
<1>3. /\ socket' \in [Sockets -> Line] /\ socket'[s].state = "exited" /\ socket'[s].peer = shown
      /\ \A t \in Sockets \ {s} : socket'[t] = socket[t]
  BY <1>1 DEF Line
<1>4. LinkTypeOK'
  BY <1>1, <1>2, <1>3 DEF ShellInv, LinkTypeOK, refs, env
<1>5. OneLiveSocket' /\ ScreenOfCluster'
  BY <1>1, <1>3 DEF ShellInv, OneLiveSocket, ScreenOfCluster, refs
<1>6. IndicatorTruthful' /\ Heard'
  BY <1>1, <1>2, <1>3 DEF ShellInv, IndicatorTruthful, Heard, refs
<1>7. Covered' /\ Retryable'
  BY <1>1, <1>3 DEF ShellInv, Covered, Retryable, Live, refs
<1> QED
  BY <1>4, <1>5, <1>6, <1>7 DEF ShellInv

LEMMA EndKeeps ==
  ASSUME ShellInv, NEW s \in Sockets, ConnectionEnds(s)
  PROVE  ShellInv'
<1> DEFINE retry == ~intentional /\ attempts < MaxAttempts
           lost  == ~intentional /\ attempts >= MaxAttempts
<1>1. /\ s = wsRef /\ s # None /\ socket \in [Sockets -> Line] /\ ui \in Status
      /\ cleanup /\ timer = FALSE /\ rerun = FALSE
      /\ \A t \in Sockets \ {s} : socket[t].state \notin Live
  BY ShellAssumption
     DEF ConnectionEnds, ShellInv, LinkTypeOK, Covered, IndicatorTruthful, OneLiveSocket
<1>2. /\ socket' = [socket EXCEPT ![s] = Unused] /\ wsRef' = None
      /\ timer' = (timer \/ retry)
      /\ ui' = [ui EXCEPT !.connecting = FALSE, !.connected = FALSE,
                          !.reconnecting = retry,
                          !.error = IF retry THEN "none" ELSE IF lost THEN "lost" ELSE @]
      /\ UNCHANGED <<shown, cleanup, attempts, intentional, rerun, gotOutput, screen, env>>
  BY DEF ConnectionEnds
<1>3. retry \in BOOLEAN /\ (retry => attempts < MaxAttempts)
  OBVIOUS
<1> HIDE DEF retry, lost
<1>4. ui' \in Status /\ ui'.connecting = FALSE /\ ui'.connected = FALSE
  BY <1>1, <1>2, <1>3 DEF Status
<1>5. timer' = retry
  BY <1>1, <1>2, <1>3
<1>6. socket' \in [Sockets -> Line] /\ \A t \in Sockets : socket'[t].state \notin Live
  BY <1>1, <1>2, LinesTyped DEF Unused, Live
<1>7. LinkTypeOK'
  BY <1>2, <1>3, <1>4, <1>5, <1>6 DEF ShellInv, LinkTypeOK, env
<1>8. OneLiveSocket' /\ IndicatorTruthful' /\ ScreenOfCluster' /\ Retryable' /\ Heard'
  BY <1>2, <1>4, <1>6
     DEF ShellInv, OneLiveSocket, IndicatorTruthful, ScreenOfCluster, Retryable, Heard
<1>9. Covered'
  BY <1>1, <1>2, <1>3, <1>5 DEF ShellInv, Covered
<1> QED
  BY <1>7, <1>8, <1>9 DEF ShellInv

LEMMA UnheardKeeps ==
  ASSUME ShellInv, NEW s \in Sockets, CloseUnheard(s)
  PROVE  ShellInv' /\ wsRef # s
<1>1. wsRef # s /\ socket \in [Sockets -> Line]
  BY ShellAssumption DEF CloseUnheard, ShellInv, LinkTypeOK, Covered, Live
<1>2. /\ socket' \in [Sockets -> Line] /\ socket'[s].state \notin Live
      /\ \A t \in Sockets \ {s} : socket'[t] = socket[t]
  BY <1>1, LinesTyped DEF CloseUnheard, Unused, Live
<1>3. wsRef \in (Sockets \ {s}) \cup {None}
  BY <1>1 DEF ShellInv, LinkTypeOK
<1>4. LinkTypeOK' /\ OneLiveSocket' /\ ScreenOfCluster'
  BY <1>2 DEF CloseUnheard, refs, env, ShellInv, LinkTypeOK, OneLiveSocket, ScreenOfCluster
<1>5. IndicatorTruthful' /\ Covered' /\ Retryable' /\ Heard'
  BY <1>2, <1>3 DEF CloseUnheard, refs, env, ShellInv, IndicatorTruthful, Covered, Retryable, Heard
<1> QED
  BY <1>1, <1>4, <1>5 DEF ShellInv

\* Whatever happens to the circuit and the backend.
LEMMA EnvironmentKeeps ==
  ASSUME ShellInv, UNCHANGED <<shown, socket, refs, ui, screen>>, circuit' \in BOOLEAN, up' \in BOOLEAN
  PROVE  ShellInv'
  BY DEF ShellInv, LinkTypeOK, OneLiveSocket, IndicatorTruthful, ScreenOfCluster, Covered,
         Retryable, Heard, refs

LEMMA ShellStep == ShellInv /\ [LinkNext]_svars => ShellInv'
<1> SUFFICES ASSUME ShellInv, [LinkNext]_svars PROVE ShellInv'
  OBVIOUS
<1>1. CASE User \/ EffectReruns
  BY <1>1, Rerunning, Rerun, CloseKeeps DEF User
<1>2. CASE TimerFires
  BY <1>2, TimerKeeps
<1>3. ASSUME NEW s \in Sockets, Event(s) PROVE ShellInv'
  BY <1>3, OpenedKeeps, OutputKeeps, ExitKeeps, EndKeeps, UnheardKeeps DEF Event
<1>4. CASE CircuitOpens \/ CircuitCloses \/ BackendChanges \/ UNCHANGED svars
  <2>1. UNCHANGED <<shown, socket, refs, ui, screen>> /\ circuit' \in BOOLEAN /\ up' \in BOOLEAN
    BY <1>4 DEF CircuitOpens, CircuitCloses, BackendChanges, svars, env, ShellInv, LinkTypeOK
  <2>2. QED
    BY <2>1, EnvironmentKeeps
<1> QED
  BY <1>1, <1>2, <1>3, <1>4 DEF LinkNext

LEMMA ShellInvariant == LinkSpec => []ShellInv
  BY ShellInitially, ShellStep, PTL DEF LinkSpec

-----------------------------------------------------------------------------
\* The tab's refs and states keep their types; the attempts stay in their bound.
THEOREM LinkTypes == LinkSpec => []LinkTypeOK
<1>1. ShellInv => LinkTypeOK
  BY DEF ShellInv
<1> QED
  BY <1>1, ShellInvariant, PTL

\* No switch, retry or click leaves a second live socket behind.
THEOREM NoSecondSocket == LinkSpec => []OneLiveSocket
<1>1. ShellInv => OneLiveSocket
  BY DEF ShellInv
<1> QED
  BY <1>1, ShellInvariant, PTL

\* What the tab reports fits its socket.
THEOREM IndicatorIsTruthful == LinkSpec => []IndicatorTruthful
<1>1. ShellInv => IndicatorTruthful
  BY DEF ShellInv
<1> QED
  BY <1>1, ShellInvariant, PTL

\* The terminal shows the output of the cluster it is named after.
THEOREM ScreenIsOfCluster == LinkSpec => []ScreenOfCluster
<1>1. ShellInv => ScreenOfCluster
  BY DEF ShellInv
<1> QED
  BY <1>1, ShellInvariant, PTL

-----------------------------------------------------------------------------
(* The refinement: every step is one of TerminalLink, or a stutter.        *)

LEMMA LinkInitially == LinkInit => Terminal!Init
  BY DEF LinkInit, Terminal!Init, Link, LinkLine

LEMMA RerunShows ==
  ASSUME ShellInv, NEW c \in Clusters, Reruns(c)
  PROVE  Terminal!Show(c)
<1>1. shown' = c /\ c # None /\ circuit' = circuit
  BY ShellAssumption DEF Reruns, env
<1>2. LinkLine' = None /\ Link' = IF circuit THEN "idle" ELSE "trying"
  <2>1. timer' = FALSE /\ rerun' = FALSE
    BY Rerun
  <2>2. CASE circuit
    <3>1. wsRef' = None
      BY <2>2, Rerun
    <3>2. QED
      BY <1>1, <2>1, <2>2, <3>1 DEF Link, LinkLine
  <2>3. CASE ~circuit
    <3>1. wsRef' # None /\ socket'[wsRef'].state = "connecting"
      BY <2>3, Rerun
    <3>2. QED
      BY <1>1, <2>3, <3>1 DEF Link, LinkLine
  <2>4. QED
    BY <2>2, <2>3
<1> QED
  BY <1>1, <1>2 DEF Terminal!Show

LEMMA CloseHides ==
  ASSUME ShellInv, ClosePanel
  PROVE  Terminal!Hide
  BY DEF ClosePanel, env, Terminal!Hide, Link, LinkLine

LEMMA TimerStutters ==
  ASSUME ShellInv, TimerFires
  PROVE  UNCHANGED Terminal!abstract
<1>1. shown # None /\ wsRef = None
  BY DEF TimerFires, ShellInv, Covered, IndicatorTruthful
<1>2. Link = "trying" /\ Link' = "trying"
  BY <1>1 DEF TimerFires, Link
<1> QED
  BY <1>2 DEF TimerFires, env, Terminal!abstract, LinkLine

LEMMA OpenedAttaches ==
  ASSUME ShellInv, NEW s \in Sockets, Opened(s)
  PROVE  Terminal!Attach
<1>1. /\ wsRef = s /\ s # None /\ shown # None /\ socket[s].state = "connecting"
      /\ socket[s].peer = shown
  BY ShellAssumption DEF Opened, ShellInv, Covered, OneLiveSocket, Live
<1>2. /\ wsRef' = s /\ shown' = shown /\ circuit' = circuit
      /\ socket'[s].state = "open" /\ socket'[s].peer = shown
  BY <1>1 DEF Opened, env, ShellInv, LinkTypeOK, Line
<1>3. Link = "trying" /\ Link' = "attached" /\ LinkLine' = shown
  BY <1>1, <1>2 DEF Link, LinkLine
<1> QED
  BY <1>2, <1>3 DEF Terminal!Attach

LEMMA OutputStutters ==
  ASSUME ShellInv, NEW s \in Sockets, Output(s)
  PROVE  UNCHANGED Terminal!abstract
  BY DEF Output, env, Terminal!abstract, Link, LinkLine

LEMMA ExitStutters ==
  ASSUME ShellInv, NEW s \in Sockets, ShellExits(s) \/ ShellFails(s)
  PROVE  UNCHANGED Terminal!abstract
<1>1. /\ wsRef = s /\ s # None /\ shown # None /\ socket[s].state = "open"
      /\ UNCHANGED <<shown, refs, screen, env>>
  BY ShellAssumption DEF ShellExits, ShellFails, ShellInv, Covered
<1>2. socket'[s].state = "exited" /\ socket'[s].peer = socket[s].peer
  BY <1>1 DEF ShellExits, ShellFails, ShellInv, LinkTypeOK, Line
<1> QED
  BY <1>1, <1>2 DEF refs, env, Terminal!abstract, Link, LinkLine

\* A line that was up is lost and tried again; an attempt fails, or, while its
\* retry is pending, goes on.
LEMMA EndLoses ==
  ASSUME ShellInv, NEW s \in Sockets, ConnectionEnds(s)
  PROVE  Terminal!Lose \/ Terminal!Fail \/ UNCHANGED Terminal!abstract
<1>1. /\ wsRef = s /\ s # None /\ shown # None /\ socket[s].state \in Live
      /\ timer = FALSE /\ rerun = FALSE
  BY ShellAssumption
     DEF ConnectionEnds, ShellInv, LinkTypeOK, Covered, IndicatorTruthful
<1>2. /\ wsRef' = None /\ timer' = (timer \/ (~intentional /\ attempts < MaxAttempts))
      /\ shown' = shown /\ rerun' = rerun /\ circuit' = circuit
  BY DEF ConnectionEnds, env
<1>3. LinkLine' = None /\ Link' = IF timer' THEN "trying" ELSE "idle"
  BY <1>1, <1>2 DEF Link, LinkLine
<1>4. CASE socket[s].state \in {"open", "exited"}
  <2>1. timer' = TRUE
    BY <1>1, <1>2, <1>4, Limits DEF ShellInv, Retryable
  <2>2. Link = "attached"
    BY <1>1, <1>4 DEF Link
  <2>3. QED
    BY <1>2, <1>3, <2>1, <2>2 DEF Terminal!Lose
<1>5. CASE socket[s].state = "connecting"
  <2>1. Link = "trying" /\ LinkLine = None
    BY <1>1, <1>5 DEF Link, LinkLine
  <2>2. QED
    BY <1>2, <1>3, <2>1 DEF Terminal!Fail, Terminal!abstract
<1> QED
  BY <1>1, <1>4, <1>5 DEF Live

LEMMA UnheardStutters ==
  ASSUME ShellInv, NEW s \in Sockets, CloseUnheard(s)
  PROVE  UNCHANGED Terminal!abstract
<1>1. wsRef = None \/ socket'[wsRef] = socket[wsRef]
  BY UnheardKeeps DEF CloseUnheard, ShellInv, LinkTypeOK
<1> QED
  BY <1>1 DEF CloseUnheard, refs, env, Terminal!abstract, Link, LinkLine

LEMMA EnvironmentLearns ==
  ASSUME ShellInv, CircuitOpens \/ CircuitCloses \/ BackendChanges \/ UNCHANGED svars
  PROVE  Terminal!Learn \/ UNCHANGED Terminal!abstract
<1>1. UNCHANGED <<shown, wsRef, socket, timer, rerun>>
  BY DEF CircuitOpens, CircuitCloses, BackendChanges, svars, refs
<1>2. Link' = Link /\ LinkLine' = LinkLine /\ shown' = shown
  BY <1>1 DEF Link, LinkLine
<1>3. circuit' = ~circuit \/ circuit' = circuit
  BY DEF CircuitOpens, CircuitCloses, BackendChanges, svars, env
<1> QED
  BY <1>2, <1>3 DEF Terminal!Learn, Terminal!abstract

LEMMA LinkStep == ShellInv /\ [LinkNext]_svars => [Terminal!Next]_(Terminal!abstract)
<1> SUFFICES ASSUME ShellInv, [LinkNext]_svars
             PROVE  Terminal!Next \/ UNCHANGED Terminal!abstract
  OBVIOUS
<1>1. CASE User \/ EffectReruns
  BY <1>1, Rerunning, RerunShows, CloseHides DEF User, Terminal!Next
<1>2. CASE TimerFires
  BY <1>2, TimerStutters
<1>3. ASSUME NEW s \in Sockets, Event(s)
      PROVE  Terminal!Next \/ UNCHANGED Terminal!abstract
  BY <1>3, OpenedAttaches, OutputStutters, ExitStutters, EndLoses, UnheardStutters
     DEF Event, Terminal!Next
<1>4. CASE CircuitOpens \/ CircuitCloses \/ BackendChanges \/ UNCHANGED svars
  BY <1>4, EnvironmentLearns DEF Terminal!Next
<1> QED
  BY <1>1, <1>2, <1>3, <1>4 DEF LinkNext

\* Sockets, refs and timer implement one line to the cluster shown, and a line
\* that was up is never given up without another attempt.
THEOREM TabImplementsLink == LinkSpec => ImplementsLink
  BY LinkInitially, LinkStep, ShellInvariant, PTL DEF LinkSpec, ImplementsLink, Terminal!Spec
=============================================================================
