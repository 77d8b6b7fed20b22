--------------------------- MODULE LiveUpdatesProofs ---------------------------
(***************************************************************************)
(* Proofs about LiveUpdates for any clusters, any finite set of sockets    *)
(* and any number of switches.                                             *)
(***************************************************************************)
EXTENDS LiveUpdates, FiniteSetTheorems, TLAPS

\* A retry is held only if one is armed, and while a cluster is shown without a
\* current socket one is held; so reconnecting by hand replaces it.
Retrying ==
  /\ held => armed > 0
  /\ shown # None /\ wsRef = None => held

\* The current socket is not closed; only open sockets have messages waiting and
\* every socket in use has handlers of some cluster.
Lines ==
  /\ wsRef # None => socket[wsRef].state \in {"connecting", "open"}
  /\ \A s \in Sockets : /\ socket[s].state # "open" => inbox[s] = 0
                        /\ socket[s].state # "unused" => socket[s].peer \in Clusters

\* A batch and its timer have the ref set, and the ref is set without one of the
\* two only when an update without a type has come.
Batch ==
  /\ pending \/ flush # None => flushRef
  /\ flushRef /\ (flush = None \/ ~pending) => untyped

LiveInv == LiveTypeOK /\ Retrying /\ Lines /\ Batch /\ LeaksBounded /\ NoLostUpdate

-----------------------------------------------------------------------------
(* How a step changes the sockets in use.                                  *)

LEMMA UsedSize == IsFiniteSet(Used) /\ Cardinality(Used) \in Nat
<1>1. Used \subseteq Sockets
  BY DEF Used
<1> QED
  BY <1>1, LiveAssumption, FS_Subset, FS_CardinalityType

LEMMA UsedKept ==
  ASSUME \A s \in Sockets : socket'[s].state = "unused" <=> socket[s].state = "unused"
  PROVE  Used' = Used
  BY DEF Used

LEMMA UsedGrows ==
  ASSUME NEW s \in Sockets, socket[s].state = "unused", socket'[s].state # "unused",
         \A t \in Sockets \ {s} : socket'[t].state = "unused" <=> socket[t].state = "unused"
  PROVE  Cardinality(Used') = Cardinality(Used) + 1
<1>1. Used' = Used \cup {s} /\ s \notin Used
  BY DEF Used
<1> QED
  BY <1>1, UsedSize, FS_AddElement

LEMMA UsedShrinks ==
  ASSUME NEW s \in Sockets, socket[s].state # "unused", socket'[s].state = "unused",
         \A t \in Sockets \ {s} : socket'[t].state = "unused" <=> socket[t].state = "unused"
  PROVE  Cardinality(Used') = Cardinality(Used) - 1
<1>1. Used' = Used \ {s} /\ s \in Used
  BY DEF Used
<1> QED
  BY <1>1, UsedSize, FS_RemoveElement

\* What connect does to sockets that are the present ones, up to a close().
LEMMA Connecting ==
  ASSUME LiveTypeOK, NEW c \in Clusters \cup {None}, NEW lines \in [Sockets -> Line],
         NEW ref \in Sockets \cup {None}, Connect(c, lines, ref),
         \A s \in Sockets : /\ lines[s].state = "unused" <=> socket[s].state = "unused"
                            /\ lines[s].peer = socket[s].peer
  PROVE  /\ socket' \in [Sockets -> Line] /\ wsRef' \in Sockets \cup {None}
         /\ c = None => socket' = lines /\ wsRef' = ref /\ Used' = Used
         /\ c # None => /\ Cardinality(Used') = Cardinality(Used) + 1
                        /\ wsRef' \in Sockets /\ wsRef' # None
                        /\ socket[wsRef'].state = "unused"
                        /\ socket' = [lines EXCEPT ![wsRef'] = [state |-> "connecting", peer |-> c]]
<1>1. CASE c = None
  BY <1>1, UsedKept DEF Connect
<1>2. CASE c # None
  <2>1. PICK s \in Sockets : /\ lines[s].state = "unused"
                             /\ socket' = [lines EXCEPT ![s] = [state |-> "connecting", peer |-> c]]
                             /\ wsRef' = s
    BY <1>2 DEF Connect
  <2>2. socket' \in [Sockets -> Line]
    BY <1>2, <2>1 DEF Line
  <2>3. /\ socket[s].state = "unused" /\ socket'[s].state # "unused"
        /\ \A t \in Sockets \ {s} : socket'[t].state = "unused" <=> socket[t].state = "unused"
    BY <2>1
  <2>4. Cardinality(Used') = Cardinality(Used) + 1
    BY <2>3, UsedGrows
  <2>5. s # None
    BY LiveAssumption
  <2>6. QED
    BY <1>2, <2>1, <2>2, <2>4, <2>5
<1> QED
  BY <1>1, <1>2

-----------------------------------------------------------------------------
LEMMA LiveInitially == LiveInit => LiveInv
<1> SUFFICES ASSUME LiveInit PROVE LiveInv
  OBVIOUS
<1>1. LiveTypeOK
  <2>1. Unused \in Line
    BY DEF Line, Unused
  <2>2. socket \in [Sockets -> Line]
    BY <2>1 DEF LiveInit
  <2>3. inbox \in [Sockets -> 0..MaxInbox] /\ switches \in 0..MaxSwitches
    BY LiveAssumption DEF LiveInit
  <2>4. QED
    BY <2>2, <2>3 DEF LiveInit, LiveTypeOK
<1>2. Retrying /\ Lines /\ Batch /\ NoLostUpdate
  BY DEF LiveInit, Retrying, Lines, Batch, NoLostUpdate, Stuck, Unused
<1>3. LeaksBounded
  <2>1. Used = {}
    BY DEF LiveInit, Used, Unused
  <2>2. QED
    BY <2>1, FS_EmptySet DEF LiveInit, LeaksBounded
<1> QED
  BY <1>1, <1>2, <1>3 DEF LiveInv

LEMMA OthersCount ==
  ASSUME LiveInv
  PROVE  OthersArmed \in Nat /\ OthersArmed <= armed /\ (held => OthersArmed = armed - 1)
  BY DEF LiveInv, LiveTypeOK, Retrying, OthersArmed

LEMMA SwitchKeeps ==
  ASSUME LiveInv, NEW c \in Clusters \cup {None}, Switch(c)
  PROVE  LiveInv'
<1> DEFINE lines == IF wsRef = None THEN socket ELSE [socket EXCEPT ![wsRef].state = "closing"]
<1>1. LiveTypeOK /\ Lines
  BY DEF LiveInv
<1>2. lines \in [Sockets -> Line]
  BY <1>1 DEF LiveTypeOK, Line
<1>3. \A s \in Sockets : /\ lines[s].state = "unused" <=> socket[s].state = "unused"
                         /\ lines[s].peer = socket[s].peer
  BY <1>1 DEF LiveTypeOK, Lines, Line
<1>4. \A s \in Sockets : lines[s].state \in {socket[s].state, "closing"} /\ (lines[s].state = "closing" => s = wsRef \/ socket[s].state = "closing")
  BY <1>1 DEF LiveTypeOK, Line
<1>5. Connect(c, lines, None)
  BY DEF Switch, batch
<1> HIDE DEF lines
<1>6. /\ socket' \in [Sockets -> Line] /\ wsRef' \in Sockets \cup {None}
      /\ c = None => socket' = lines /\ wsRef' = None /\ Used' = Used
      /\ c # None => /\ Cardinality(Used') = Cardinality(Used) + 1
                     /\ wsRef' \in Sockets /\ wsRef' # None
                     /\ socket[wsRef'].state = "unused"
                     /\ socket' = [lines EXCEPT ![wsRef'] = [state |-> "connecting", peer |-> c]]
  BY <1>1, <1>2, <1>3, <1>5, Connecting
<1>7. /\ shown' = c /\ armed' = OthersArmed /\ held' = FALSE /\ owed' = FALSE
      /\ switches' = switches + 1 /\ switches < MaxSwitches /\ excuse' = FALSE
      /\ UNCHANGED <<pending, flush, flushRef, untyped, up>>
      /\ inbox' = [s \in Sockets |-> IF s = wsRef THEN 0 ELSE inbox[s]]
  BY DEF Switch, batch
<1>8. LiveTypeOK'
  <2>1. inbox' \in [Sockets -> 0..MaxInbox]
    BY <1>1, <1>7, LiveAssumption DEF LiveTypeOK
  <2>2. switches' \in 0..MaxSwitches
    BY <1>1, <1>7, LiveAssumption DEF LiveTypeOK
  <2>3. QED
    BY <1>1, <1>6, <1>7, <2>1, <2>2, OthersCount DEF LiveTypeOK
<1>9. Retrying'
  BY <1>6, <1>7 DEF Retrying
<1>10. Lines'
  <2>1. wsRef' # None => socket'[wsRef'].state \in {"connecting", "open"}
    BY <1>2, <1>6
  <2>2. ASSUME NEW s \in Sockets, socket'[s].state # "open" PROVE inbox'[s] = 0
    <3>1. socket[s].state # "open" \/ s = wsRef
      BY <1>2, <1>4, <1>6, <2>2
    <3>2. QED
      BY <1>1, <1>7, <3>1 DEF Lines
  <2>3. ASSUME NEW s \in Sockets, socket'[s].state # "unused" PROVE socket'[s].peer \in Clusters
    <3>1. CASE c # None /\ s = wsRef'
      BY <1>2, <1>6, <3>1
    <3>2. CASE ~(c # None /\ s = wsRef')
      <4>1. socket'[s] = lines[s]
        BY <1>2, <1>6, <3>2
      <4>2. QED
        BY <1>1, <1>3, <2>3, <4>1 DEF Lines
    <3>3. QED
      BY <3>1, <3>2
  <2>4. QED
    BY <2>1, <2>2, <2>3 DEF Lines
<1>11. LeaksBounded'
  <2>1. Cardinality(Used) + armed <= switches /\ armed \in Nat /\ switches \in Nat
    BY <1>1 DEF LiveInv, LeaksBounded, LiveTypeOK
  <2>2. Cardinality(Used') <= Cardinality(Used) + 1
    BY <1>6, UsedSize
  <2>3. Cardinality(Used') \in Nat
    BY <1>6, UsedSize
  <2>4. QED
    BY <1>7, <2>1, <2>2, <2>3, UsedSize, OthersCount DEF LeaksBounded
<1>12. Batch' /\ NoLostUpdate'
  BY <1>7 DEF LiveInv, Batch, NoLostUpdate, Stuck
<1> QED
  BY <1>8, <1>9, <1>10, <1>11, <1>12 DEF LiveInv

\* A retry, and the reconnection of a tab that has become visible, begin a
\* connection to the cluster shown in the place of an armed timer.
LEMMA RetryKeeps ==
  ASSUME LiveInv, Connect(shown, socket, wsRef),
         armed > 0, armed' = armed - 1, held' = FALSE,
         UNCHANGED <<shown, inbox, pending, flush, flushRef, untyped, up, owed, excuse, switches>>
  PROVE  LiveInv'
<1>1. LiveTypeOK /\ Lines
  BY DEF LiveInv
<1>2. socket \in [Sockets -> Line] /\ wsRef \in Sockets \cup {None} /\ shown \in Clusters \cup {None}
  BY <1>1 DEF LiveTypeOK
<1>3. /\ socket' \in [Sockets -> Line] /\ wsRef' \in Sockets \cup {None}
      /\ shown = None => socket' = socket /\ wsRef' = wsRef /\ Used' = Used
      /\ shown # None => /\ Cardinality(Used') = Cardinality(Used) + 1
                         /\ wsRef' \in Sockets /\ wsRef' # None
                         /\ socket[wsRef'].state = "unused"
                         /\ socket' = [socket EXCEPT ![wsRef'] = [state |-> "connecting", peer |-> shown]]
  BY <1>1, <1>2, Connecting
<1>4. LiveTypeOK'
  <2>1. armed' \in Nat
    BY <1>1 DEF LiveTypeOK
  <2>2. QED
    BY <1>1, <1>3, <2>1 DEF LiveTypeOK
<1>5. Retrying'
  <2>1. wsRef' = None => shown' = None
    BY <1>3
  <2>2. QED
    BY <2>1 DEF Retrying
<1>6. Lines'
  BY <1>1, <1>2, <1>3 DEF Lines
<1>7. LeaksBounded'
  <2>1. Cardinality(Used) + armed <= switches /\ armed \in Nat /\ switches \in Nat
    BY <1>1 DEF LiveInv, LeaksBounded, LiveTypeOK
  <2>2. Cardinality(Used') <= Cardinality(Used) + 1 /\ Cardinality(Used') \in Nat
    BY <1>3, UsedSize
  <2>3. QED
    BY <2>1, <2>2, UsedSize DEF LeaksBounded
<1>8. Batch'
  BY DEF LiveInv, Batch
<1>9. NoLostUpdate'
  <2>1. \A s \in Sockets : socket[s].state = "open" => socket'[s].state = "open"
    BY <1>2, <1>3
  <2>2. QED
    BY <2>1 DEF LiveInv, NoLostUpdate, Stuck
<1> QED
  BY <1>4, <1>5, <1>6, <1>7, <1>8, <1>9 DEF LiveInv

LEMMA TimerKeeps ==
  ASSUME LiveInv, TimerFires
  PROVE  LiveInv'
  BY RetryKeeps DEF TimerFires, batch

LEMMA VisibleKeeps ==
  ASSUME LiveInv, TabVisible
  PROVE  LiveInv'
<1>1. held /\ armed > 0
  BY DEF TabVisible, LiveInv, Retrying, batch
<1>2. armed' = armed - 1
  BY <1>1, OthersCount DEF TabVisible, batch
<1> QED
  BY <1>1, <1>2, RetryKeeps DEF TabVisible, batch

LEMMA OpenedKeeps ==
  ASSUME LiveInv, NEW s \in Sockets, Opened(s)
  PROVE  LiveInv'
<1>1. LiveTypeOK' /\ Retrying' /\ Lines' /\ Batch' /\ NoLostUpdate'
  BY DEF LiveInv, LiveTypeOK, Line, Retrying, Lines, Batch, NoLostUpdate, Stuck, Opened, batch
<1>2. Used' = Used
  BY UsedKept DEF LiveInv, LiveTypeOK, Line, Opened, batch
<1>3. LeaksBounded'
  BY <1>2 DEF LiveInv, LeaksBounded, Opened, batch
<1> QED
  BY <1>1, <1>3 DEF LiveInv

LEMMA ClosedKeeps ==
  ASSUME LiveInv, NEW s \in Sockets, Closed(s)
  PROVE  LiveInv'
<1>1. /\ socket[s].state # "unused" /\ socket' = [socket EXCEPT ![s] = Unused]
      /\ wsRef' = None /\ armed' = armed + 1 /\ held' = TRUE
      /\ inbox' = [inbox EXCEPT ![s] = 0]
      /\ excuse' = (excuse \/ (owed /\ inbox[s] > 0))
      /\ UNCHANGED <<shown, pending, flush, flushRef, untyped, up, owed, switches>>
  BY DEF Closed, batch
<1>2. LiveTypeOK /\ socket \in [Sockets -> Line] /\ inbox \in [Sockets -> 0..MaxInbox]
  BY DEF LiveInv, LiveTypeOK
<1>3. LiveTypeOK'
  <2>1. socket' \in [Sockets -> Line]
    BY <1>1, <1>2 DEF Line, Unused
  <2>2. inbox' \in [Sockets -> 0..MaxInbox] /\ armed' \in Nat
    BY <1>1, <1>2, LiveAssumption DEF LiveTypeOK
  <2>3. QED
    BY <1>1, <1>2, <2>1, <2>2 DEF LiveTypeOK
<1>4. Retrying' /\ Batch'
  BY <1>1, <1>2 DEF LiveInv, LiveTypeOK, Retrying, Batch
<1>5. Lines'
  BY <1>1, <1>2 DEF LiveInv, Lines, Unused
<1>6. LeaksBounded'
  <2>1. Cardinality(Used') = Cardinality(Used) - 1
    BY <1>1, <1>2, UsedShrinks DEF Unused
  <2>2. QED
    BY <1>1, <1>2, <2>1, UsedSize DEF LiveInv, LeaksBounded, LiveTypeOK
<1>7. NoLostUpdate'
  BY <1>1, <1>2 DEF LiveInv, NoLostUpdate, Stuck
<1> QED
  BY <1>3, <1>4, <1>5, <1>6, <1>7 DEF LiveInv

LEMMA Arming ==
  ASSUME LiveInv, NEW s \in Sockets, socket[s].state = "open", ArmFlush(s)
  PROVE  /\ flushRef' = TRUE /\ flush' \in Clusters \cup {None}
         /\ flush' # None \/ (flush = None /\ flushRef /\ flush' = None)
         /\ flush # None => flush' = flush
<1>1. socket[s].peer \in Clusters /\ socket[s].peer # None
  BY LiveAssumption DEF LiveInv, Lines
<1> QED
  BY <1>1 DEF ArmFlush, LiveInv, LiveTypeOK, Batch

LEMMA ReceivedKeeps ==
  ASSUME LiveInv, NEW s \in Sockets, Received(s)
  PROVE  LiveInv'
<1>1. /\ socket[s].state = "open" /\ inbox[s] > 0 /\ pending' = TRUE
      /\ inbox' = [inbox EXCEPT ![s] = @ - 1] /\ ArmFlush(s)
      /\ UNCHANGED <<shown, socket, wsRef, armed, held, untyped, up, owed, excuse, switches>>
  BY DEF Received
<1>2. /\ flushRef' = TRUE /\ flush' \in Clusters \cup {None}
      /\ flush' # None \/ (flush = None /\ flushRef /\ flush' = None)
  BY <1>1, Arming
<1>3. LiveTypeOK'
  <2>1. inbox' \in [Sockets -> 0..MaxInbox]
    BY <1>1, LiveAssumption DEF LiveInv, LiveTypeOK
  <2>2. QED
    BY <1>1, <1>2, <2>1 DEF LiveInv, LiveTypeOK
<1>4. Batch'
  BY <1>1, <1>2 DEF LiveInv, Batch
<1>5. NoLostUpdate'
  BY <1>1, <1>2, <1>4 DEF NoLostUpdate, Stuck, Batch
<1>6. Retrying' /\ Lines'
  BY <1>1 DEF LiveInv, LiveTypeOK, Retrying, Lines
<1>7. LeaksBounded'
  <2>1. Used' = Used
    BY <1>1 DEF Used
  <2>2. QED
    BY <1>1, <2>1 DEF LiveInv, LeaksBounded
<1> QED
  BY <1>3, <1>4, <1>5, <1>6, <1>7 DEF LiveInv

LEMMA UntypedKeeps ==
  ASSUME LiveInv, NEW s \in Sockets, ReceivedUntyped(s)
  PROVE  LiveInv'
<1>1. /\ socket[s].state = "open" /\ ArmFlush(s) /\ untyped' = TRUE
      /\ UNCHANGED <<shown, socket, wsRef, armed, held, inbox, pending, up, owed, excuse, switches>>
  BY DEF ReceivedUntyped
<1>2. /\ flushRef' = TRUE /\ flush' \in Clusters \cup {None}
      /\ flush # None => flush' = flush
  BY <1>1, Arming
<1>3. LiveTypeOK' /\ Batch'
  BY <1>1, <1>2 DEF LiveInv, LiveTypeOK, Batch
<1>4. NoLostUpdate'
  BY <1>1, <1>2 DEF LiveInv, NoLostUpdate, Stuck
<1>5. Retrying' /\ Lines'
  BY <1>1 DEF LiveInv, Retrying, Lines
<1>6. LeaksBounded'
  <2>1. Used' = Used
    BY <1>1 DEF Used
  <2>2. QED
    BY <1>1, <2>1 DEF LiveInv, LeaksBounded
<1> QED
  BY <1>3, <1>4, <1>5, <1>6 DEF LiveInv

LEMMA JoinedKeeps ==
  ASSUME LiveInv, NEW s \in Sockets, ReceivedJoined(s)
  PROVE  LiveInv'
<1>1. PICK n \in 2..inbox[s] : inbox' = [inbox EXCEPT ![s] = @ - n]
  BY DEF ReceivedJoined, batch
<1>2. /\ socket[s].state = "open" /\ excuse' = (excuse \/ owed)
      /\ UNCHANGED <<shown, socket, wsRef, armed, held, pending, flush, flushRef, untyped, up, owed, switches>>
  BY DEF ReceivedJoined, batch
<1>3. LiveTypeOK'
  <2>1. inbox' \in [Sockets -> 0..MaxInbox]
    BY <1>1, LiveAssumption DEF LiveInv, LiveTypeOK
  <2>2. QED
    BY <1>2, <2>1 DEF LiveInv, LiveTypeOK, batch
<1>4. Batch' /\ Retrying' /\ NoLostUpdate'
  BY <1>2 DEF LiveInv, Batch, Retrying, NoLostUpdate, Stuck, batch
<1>5. Lines'
  BY <1>1, <1>2 DEF LiveInv, LiveTypeOK, Lines
<1>6. LeaksBounded'
  <2>1. Used' = Used
    BY <1>2 DEF Used
  <2>2. QED
    BY <1>2, <2>1 DEF LiveInv, LeaksBounded
<1> QED
  BY <1>3, <1>4, <1>5, <1>6 DEF LiveInv

LEMMA FlushKeeps ==
  ASSUME LiveInv, FlushFires
  PROVE  LiveInv'
<1>1. /\ flush # None /\ flush' = None
      /\ UNCHANGED <<shown, socket, wsRef, armed, held, inbox, untyped, up, switches>>
  BY DEF FlushFires
<1>2. LiveTypeOK' /\ Batch' /\ NoLostUpdate'
  <2>1. CASE pending
    <3>1. /\ pending' = FALSE /\ flushRef' = FALSE
          /\ owed' = (owed /\ flush # shown) /\ excuse' = (owed /\ flush # shown)
      BY <2>1 DEF FlushFires
    <3>2. QED
      BY <1>1, <3>1 DEF LiveInv, LiveTypeOK, Batch, NoLostUpdate, Stuck
  <2>2. CASE ~pending
    <3>1. UNCHANGED <<pending, flushRef, owed, excuse>>
      BY <2>2 DEF FlushFires
    <3>2. QED
      BY <1>1, <2>2, <3>1 DEF LiveInv, LiveTypeOK, Batch, NoLostUpdate, Stuck
  <2>3. QED
    BY <2>1, <2>2
<1>3. Retrying' /\ Lines'
  BY <1>1 DEF LiveInv, Retrying, Lines
<1>4. LeaksBounded'
  <2>1. Used' = Used
    BY <1>1 DEF Used
  <2>2. QED
    BY <1>1, <2>1 DEF LiveInv, LeaksBounded
<1> QED
  BY <1>2, <1>3, <1>4 DEF LiveInv

LEMMA ChangesKeeps ==
  ASSUME LiveInv, NEW c \in Clusters, Changes(c)
  PROVE  LiveInv'
<1> DEFINE heard == c = shown /\ \E s \in Sockets : socket[s].state = "open" /\ socket[s].peer = c
<1>1. /\ \A s \in Sockets : socket[s].state = "open" => inbox[s] < MaxInbox
      /\ inbox' = [s \in Sockets |-> IF socket[s].state = "open" THEN inbox[s] + 1 ELSE inbox[s]]
      /\ owed' = (owed \/ heard) /\ excuse' = (excuse /\ ~heard)
      /\ UNCHANGED <<shown, socket, wsRef, armed, held, pending, flush, flushRef, untyped, up, switches>>
  BY DEF Changes, batch
<1>2. inbox \in [Sockets -> 0..MaxInbox]
  BY DEF LiveInv, LiveTypeOK
<1>3. LiveTypeOK'
  <2>1. inbox' \in [Sockets -> 0..MaxInbox]
    BY <1>1, <1>2, LiveAssumption
  <2>2. owed' \in BOOLEAN /\ excuse' \in BOOLEAN
    BY <1>1
  <2> HIDE DEF heard
  <2>3. QED
    BY <1>1, <2>1, <2>2 DEF LiveInv, LiveTypeOK
<1>4. \A s \in Sockets : socket[s].state = "open" => inbox'[s] > 0
  BY <1>1, <1>2
<1>5. heard => \E s \in Sockets : socket[s].state = "open"
  OBVIOUS
<1> HIDE DEF heard
<1>6. NoLostUpdate'
  <2>1. CASE heard
    BY <1>1, <1>4, <1>5, <2>1 DEF NoLostUpdate, Stuck
  <2>2. CASE ~heard
    BY <1>1, <1>4, <2>2 DEF LiveInv, NoLostUpdate, Stuck
  <2>3. QED
    BY <2>1, <2>2
<1>7. Retrying' /\ Batch' /\ Lines'
  BY <1>1, <1>2 DEF LiveInv, Retrying, Batch, Lines
<1>8. LeaksBounded'
  <2>1. Used' = Used
    BY <1>1 DEF Used
  <2>2. QED
    BY <1>1, <2>1 DEF LiveInv, LeaksBounded
<1> QED
  BY <1>3, <1>6, <1>7, <1>8 DEF LiveInv

LEMMA LiveStep == LiveInv /\ [LiveNext]_lvars => LiveInv'
<1> SUFFICES ASSUME LiveInv, [LiveNext]_lvars PROVE LiveInv'
  OBVIOUS
<1> USE DEF LiveInv, LiveTypeOK, Retrying, Lines, Batch, LeaksBounded, NoLostUpdate, Stuck, Used
<1>1. CASE UNCHANGED lvars
  BY <1>1 DEF lvars, batch
<1>2. CASE BackendChanges
  BY <1>2 DEF BackendChanges, batch
<1> HIDE DEF LiveInv, LiveTypeOK, Retrying, Lines, Batch, LeaksBounded, NoLostUpdate, Stuck, Used
<1> QED
  BY <1>1, <1>2, SwitchKeeps, TimerKeeps, VisibleKeeps, OpenedKeeps, ClosedKeeps,
     ReceivedKeeps, UntypedKeeps, JoinedKeeps, FlushKeeps, ChangesKeeps DEF LiveNext

LEMMA LiveInvariant == LiveSpec => []LiveInv
  BY LiveInitially, LiveStep, PTL DEF LiveSpec

-----------------------------------------------------------------------------
\* The hook's refs, its timers and the batch keep their types.
THEOREM LiveTypes == LiveSpec => []LiveTypeOK
<1>1. LiveInv => LiveTypeOK
  BY DEF LiveInv
<1> QED
  BY <1>1, LiveInvariant, PTL

\* While a cluster is shown, some socket or retry stands for its connection.
THEOREM ConnectionNeverGivenUp == LiveSpec => []NeverGivesUp
<1>1. LiveInv => NeverGivesUp
  <2> SUFFICES ASSUME LiveInv, shown # None PROVE Used # {} \/ armed > 0
    BY DEF NeverGivesUp
  <2>1. wsRef # None => wsRef \in Used
    BY DEF LiveInv, LiveTypeOK, Lines, Used
  <2>2. wsRef = None => armed > 0
    BY DEF LiveInv, Retrying
  <2>3. QED
    BY <2>1, <2>2
<1> QED
  BY <1>1, LiveInvariant, PTL

\* Sockets and retries together are never more than the switches there were.
THEOREM LeaksAreBounded == LiveSpec => []LeaksBounded
<1>1. LiveInv => LeaksBounded
  BY DEF LiveInv
<1> QED
  BY <1>1, LiveInvariant, PTL

\* An announced change stays on its way into the lists of the cluster shown.
THEOREM UpdatesKept == LiveSpec => []NoLostUpdate
<1>1. LiveInv => NoLostUpdate
  BY DEF LiveInv
<1> QED
  BY <1>1, LiveInvariant, PTL
=============================================================================
