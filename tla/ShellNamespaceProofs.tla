-------------------------- MODULE ShellNamespaceProofs --------------------------
(***************************************************************************)
(* Proofs about ShellNamespace for any clusters, namespaces, bounds and    *)
(* finite set of polls.                                                    *)
(***************************************************************************)
EXTENDS ShellNamespace, FiniteSetTheorems, TLAPS

\* The refs hold timers of the mounted tab: one of a loop, one of a single poll.
RefsHold ==
  /\ loopRef # NoOne =>
       /\ poller[loopRef].phase = "timer" /\ poller[loopRef].loop /\ poller[loopRef].own
  /\ shotRef # NoOne =>
       /\ poller[shotRef].phase = "timer" /\ ~poller[shotRef].loop /\ poller[shotRef].own
  /\ at = NoOne => /\ loopRef = NoOne /\ shotRef = NoOne /\ ~attached
                   /\ \A p \in Pollers : ~poller[p].own

\* A poll that is not free is one of a cluster, and an answer is a namespace.
PollsPlaced ==
  \A p \in Pollers :
    /\ poller[p].phase = "free" => ~poller[p].loop
    /\ poller[p].phase # "free" => poller[p].cluster \in Contexts
    /\ poller[p].phase = "answered" => poller[p].ns \in Namespaces

SyncInv == SyncTypeOK /\ RefsHold /\ PollsPlaced /\ OneLoop

Loops == {p \in Pollers : poller[p].loop}

LEMMA Apart ==
  /\ NoOne \notin Contexts /\ NoOne \notin Namespaces /\ NoOne \notin Pollers
  /\ "all" \notin Namespaces /\ IsFiniteSet(Pollers) /\ Pollers # {}
  /\ MaxMounts \in Nat /\ MaxPicks \in Nat
  BY NamespaceAssumption

LEMMA PollsTyped ==
  /\ Free \in Poll
  /\ \A c \in Contexts, loop \in BOOLEAN, phase \in {"timer", "asking"} : Started(phase, c, loop) \in Poll
  BY DEF Free, Started, Poll

LEMMA LoopsCount == IsFiniteSet(Loops) /\ Cardinality(Loops) \in Nat
<1>1. Loops \subseteq Pollers
  BY DEF Loops
<1> QED
  BY <1>1, Apart, FS_Subset, FS_CardinalityType

\* As long as loops only end, there are no more than before.
LEMMA LoopsShrink ==
  ASSUME \A p \in Pollers : poller'[p].loop => poller[p].loop
  PROVE  Cardinality(Loops') <= Cardinality(Loops)
<1>1. Loops' \subseteq Loops
  BY DEF Loops
<1> QED
  BY <1>1, LoopsCount, FS_Subset

\* One that begins adds one.
LEMMA LoopsGrow ==
  ASSUME NEW p \in Pollers, \A q \in Pollers \ {p} : poller'[q].loop => poller[q].loop
  PROVE  Cardinality(Loops') <= Cardinality(Loops) + 1
<1>1. Loops' \subseteq Loops \cup {p}
  BY DEF Loops
<1>2. IsFiniteSet(Loops \cup {p}) /\ Cardinality(Loops \cup {p}) <= Cardinality(Loops) + 1
  BY LoopsCount, FS_AddElement
<1>3. Cardinality(Loops') <= Cardinality(Loops \cup {p})
  BY <1>1, <1>2, FS_Subset
<1>4. /\ Cardinality(Loops') \in Nat /\ Cardinality(Loops \cup {p}) \in Nat /\ Cardinality(Loops) \in Nat
  <2>1. IsFiniteSet(Loops')
    BY <1>1, <1>2, FS_Subset
  <2>2. QED
    BY <1>2, <2>1, LoopsCount, FS_CardinalityType
<1> QED
  BY <1>2, <1>3, <1>4

LEMMA FreeOfIsOne ==
  ASSUME NEW polls
  PROVE  FreeOf(polls) \in Pollers
<1>1. \E p \in Pollers : (\E q \in Pollers : polls[q].phase = "free") => polls[p].phase = "free"
  BY Apart
<1> QED
  BY <1>1 DEF FreeOf

\* OneLoop survives whatever leaves the loops' clusters, owners and timers alone.
LEMMA LoopUntouched ==
  ASSUME OneLoop, UNCHANGED <<at, loopRef, overtaken, mounts>>, SyncTypeOK,
         \A p \in Pollers : /\ poller'[p].loop <=> poller[p].loop
                            /\ poller[p].loop =>
                                 /\ poller'[p].cluster = poller[p].cluster
                                 /\ poller'[p].own = poller[p].own
                                 /\ poller'[p].phase = "timer" <=> poller[p].phase = "timer"
  PROVE  OneLoop'
<1>1. Cardinality(Loops') <= mounts'
  <2>1. Loops' = Loops
    BY DEF Loops
  <2>2. QED
    BY <2>1 DEF OneLoop, Loops
<1> QED
  BY <1>1 DEF OneLoop, Loops

\* scheduleStateSync replaces the single poll's timer, or takes a free poll.
LEMMA Scheduling ==
  ASSUME NEW polls \in [Pollers -> Poll], NEW c \in Contexts, Schedule(polls, c),
         shotRef \in Pollers \cup {NoOne},
         shotRef # NoOne => ~polls[shotRef].loop,
         \A p \in Pollers : polls[p].phase = "free" => ~polls[p].loop
  PROVE  /\ poller' \in [Pollers -> Poll] /\ shotRef' \in Pollers /\ shotRef' # NoOne
         /\ poller'[shotRef'] = Started("timer", c, FALSE)
         /\ ~polls[shotRef'].loop
         /\ \A p \in Pollers \ {shotRef'} : poller'[p] = polls[p]
<1>1. PICK p \in Pollers :
        /\ IF shotRef # NoOne THEN p = shotRef ELSE p = FreeOf(polls) /\ polls[p].phase = "free"
        /\ poller' = [polls EXCEPT ![p] = Started("timer", c, FALSE)]
        /\ shotRef' = p
  BY DEF Schedule
<1>2. Started("timer", c, FALSE) \in Poll
  BY PollsTyped
<1> QED
  BY <1>1, <1>2, Apart

\* A step that schedules a poll, or changes no poll, in the mounted tab.
LEMMA ScheduleKeeps ==
  ASSUME SyncInv, UNCHANGED <<at, loopRef, overtaken, mounts>>, at # NoOne,
         Schedule(poller, at) \/ UNCHANGED <<poller, shotRef>>
  PROVE  /\ RefsHold' /\ PollsPlaced' /\ OneLoop'
         /\ poller' \in [Pollers -> Poll] /\ shotRef' \in Pollers \cup {NoOne}
<1>1. CASE UNCHANGED <<poller, shotRef>>
  <2>1. OneLoop'
    BY <1>1, LoopUntouched DEF SyncInv
  <2>2. QED
    BY <1>1, <2>1 DEF SyncInv, SyncTypeOK, RefsHold, PollsPlaced
<1>2. CASE Schedule(poller, at)
  <2>1. at \in Contexts /\ poller \in [Pollers -> Poll] /\ shotRef \in Pollers \cup {NoOne}
    BY DEF SyncInv, SyncTypeOK
  <2>2. /\ poller' \in [Pollers -> Poll] /\ shotRef' \in Pollers /\ shotRef' # NoOne
        /\ poller'[shotRef'] = Started("timer", at, FALSE)
        /\ ~poller[shotRef'].loop
        /\ \A p \in Pollers \ {shotRef'} : poller'[p] = poller[p]
    BY <1>2, <2>1, Scheduling DEF SyncInv, RefsHold, PollsPlaced
  <2>3. OneLoop'
    BY <2>2, LoopUntouched DEF SyncInv, Started
  <2>4. RefsHold' /\ PollsPlaced'
    BY <2>1, <2>2 DEF SyncInv, SyncTypeOK, RefsHold, PollsPlaced, Started
  <2>5. QED
    BY <2>2, <2>3, <2>4
<1> QED
  BY <1>1, <1>2

-----------------------------------------------------------------------------
LEMMA SyncInitially == SyncInit => SyncInv
<1> SUFFICES ASSUME SyncInit PROVE SyncInv
  OBVIOUS
<1>1. SyncTypeOK
  <2>1. poller \in [Pollers -> Poll]
    BY PollsTyped DEF SyncInit
  <2>2. mounts \in 0..MaxMounts /\ picks \in 0..MaxPicks
    BY Apart DEF SyncInit
  <2>3. typed \in Seq(Namespaces)
    BY DEF SyncInit
  <2>4. QED
    BY <2>1, <2>2, <2>3 DEF SyncInit, SyncTypeOK
<1>2. RefsHold /\ PollsPlaced
  BY DEF SyncInit, RefsHold, PollsPlaced, Free
<1>3. OneLoop
  <2>1. Loops = {}
    BY DEF SyncInit, Loops, Free
  <2>2. Cardinality(Loops) = 0
    BY <2>1, FS_EmptySet
  <2>3. at = NoOne /\ mounts = 0 /\ \A p \in Pollers : ~poller[p].loop
    BY DEF SyncInit, Free
  <2>4. QED
    BY <2>2, <2>3 DEF OneLoop, Loops
<1> QED
  BY <1>1, <1>2, <1>3 DEF SyncInv

\* What the cleanup leaves: no timer of the tab, and no loop unless it overtook one.
LEMMA Cleared ==
  ASSUME SyncInv
  PROVE  /\ ClearTimers \in [Pollers -> Poll]
         /\ \A p \in Pollers : ClearTimers[p] = Free \/ ClearTimers[p] = poller[p]
         /\ \A p \in Pollers : ClearTimers[p].phase = "free" => ~ClearTimers[p].loop
         /\ \A p \in Pollers : p = loopRef => ClearTimers[p] = Free
         /\ Overtakes \in BOOLEAN
         /\ ~Overtakes => \A p \in Pollers : ~ClearTimers[p].loop
<1>1. poller \in [Pollers -> Poll]
  BY DEF SyncInv, SyncTypeOK
<1>2. ClearTimers \in [Pollers -> Poll]
  BY <1>1, PollsTyped DEF ClearTimers
<1>3. \A p \in Pollers : /\ ClearTimers[p] = Free \/ ClearTimers[p] = poller[p]
                         /\ p = loopRef => ClearTimers[p] = Free
  BY DEF ClearTimers
<1>4. ~Free.loop
  BY DEF Free
<1> QED
  BY <1>2, <1>3, <1>4 DEF SyncInv, PollsPlaced, Overtakes

\* A loop for cluster c begins among the polls the last one left.
LEMMA LoopBegins ==
  ASSUME SyncInv, NEW c \in Contexts, NEW p \in Pollers,
         poller'[p].loop, poller'[p].own, poller'[p].cluster = c, poller'[p].phase = "asking",
         \A q \in Pollers \ {p} : poller'[q].loop => poller[q].loop,
         at' = c, loopRef' = NoOne, mounts' = mounts + 1,
         overtaken' \/ \A q \in Pollers \ {p} : ~poller'[q].loop
  PROVE  OneLoop'
<1>1. Cardinality(Loops') <= mounts'
  <2>1. Cardinality(Loops) <= mounts /\ mounts \in Nat
    BY Apart DEF SyncInv, SyncTypeOK, OneLoop, Loops
  <2>2. Cardinality(Loops') <= Cardinality(Loops) + 1
    BY LoopsGrow
  <2>3. Cardinality(Loops') \in Nat
    <3>1. IsFiniteSet(Loops')
      <4>1. Loops' \subseteq Pollers
        BY DEF Loops
      <4>2. QED
        BY <4>1, Apart, FS_Subset
    <3>2. QED
      BY <3>1, FS_CardinalityType
  <2>4. QED
    BY <2>1, <2>2, <2>3, LoopsCount
<1>2. p # NoOne
  BY Apart
<1> QED
  BY <1>1, <1>2 DEF OneLoop, Loops

LEMMA OpenKeeps ==
  ASSUME SyncInv, NEW c \in Contexts, Open(c)
  PROVE  SyncInv'
<1> DEFINE p == FreeOf(poller)
<1>1. /\ p \in Pollers /\ poller[p].phase = "free" /\ at = NoOne /\ at' = c
      /\ poller' = [poller EXCEPT ![p] = Started("asking", c, TRUE)]
      /\ mounts' = mounts + 1 /\ mounts < MaxMounts
      /\ UNCHANGED <<attached, just, active, status, file, typed, timers, overtaken, picks>>
  BY FreeOfIsOne DEF Open, Mounts
<1> HIDE DEF p
<1>2. poller \in [Pollers -> Poll] /\ c # NoOne
  BY Apart DEF SyncInv, SyncTypeOK
<1>3. /\ poller'[p] = Started("asking", c, TRUE)
      /\ \A q \in Pollers \ {p} : poller'[q] = poller[q]
      /\ poller' \in [Pollers -> Poll]
  BY <1>1, <1>2, PollsTyped
<1>4. SyncTypeOK'
  <2>1. mounts' \in 0..MaxMounts
    BY <1>1, Apart DEF SyncInv, SyncTypeOK
  <2>2. QED
    BY <1>1, <1>3, <2>1 DEF SyncInv, SyncTypeOK, timers
<1>5. loopRef' = NoOne /\ shotRef' = NoOne
  BY <1>1 DEF timers, SyncInv, RefsHold
<1>6. RefsHold' /\ PollsPlaced'
  BY <1>1, <1>2, <1>3, <1>5 DEF SyncInv, RefsHold, PollsPlaced, Started
<1>7. OneLoop'
  <2>1. overtaken \/ \A q \in Pollers : ~poller[q].loop
    BY <1>1, Apart DEF SyncInv, OneLoop, PollsPlaced
  <2>2. overtaken' \/ \A q \in Pollers \ {p} : ~poller'[q].loop
    BY <1>1, <1>3, <2>1
  <2>3. /\ poller'[p].loop /\ poller'[p].own /\ poller'[p].cluster = c /\ poller'[p].phase = "asking"
        /\ \A q \in Pollers \ {p} : poller'[q].loop => poller[q].loop
    BY <1>3 DEF Started
  <2>4. QED
    BY <1>1, <1>5, <2>2, <2>3, LoopBegins
<1> QED
  BY <1>4, <1>6, <1>7 DEF SyncInv

LEMMA SwitchKeeps ==
  ASSUME SyncInv, NEW c \in Contexts, Switch(c)
  PROVE  SyncInv'
<1> DEFINE p     == FreeOf(ClearTimers)
           polls == [ClearTimers EXCEPT ![p] = Started("asking", c, TRUE)]
           q     == FreeOf(polls)
<1>1. /\ at # NoOne /\ at' = c /\ attached' = FALSE /\ typed' = <<>> /\ loopRef' = NoOne
      /\ overtaken' = (overtaken \/ Overtakes)
      /\ mounts' = mounts + 1 /\ mounts < MaxMounts
      /\ ClearTimers[p].phase = "free"
      /\ IF Types(attached, active, status, just)
         THEN /\ polls[q].phase = "free"
              /\ poller' = [polls EXCEPT ![q] = Started("timer", c, FALSE)]
              /\ shotRef' = q
         ELSE poller' = polls /\ shotRef' = NoOne
      /\ UNCHANGED <<just, active, status, file, picks>>
  BY DEF Switch, Mounts
<1>2. p \in Pollers /\ q \in Pollers /\ c # NoOne
  BY FreeOfIsOne, Apart
<1>3. /\ polls \in [Pollers -> Poll] /\ polls[p] = Started("asking", c, TRUE)
      /\ \A r \in Pollers \ {p} : polls[r] = ClearTimers[r]
  BY <1>2, Cleared, PollsTyped
<1> HIDE DEF p, q, polls
<1>4. /\ poller' \in [Pollers -> Poll] /\ poller'[p] = Started("asking", c, TRUE)
      /\ \A r \in Pollers \ {p} : poller'[r] = ClearTimers[r] \/ poller'[r] = Started("timer", c, FALSE)
      /\ shotRef' \in Pollers \cup {NoOne}
      /\ shotRef' # NoOne => poller'[shotRef'] = Started("timer", c, FALSE)
  <2>1. CASE Types(attached, active, status, just)
    <3>1. polls[q].phase = "free" /\ shotRef' = q
          /\ poller' = [polls EXCEPT ![q] = Started("timer", c, FALSE)]
      BY <1>1, <2>1
    <3>2. q # p
      BY <1>3, <3>1 DEF Started
    <3>3. QED
      BY <1>2, <1>3, <3>1, <3>2, PollsTyped
  <2>2. CASE ~Types(attached, active, status, just)
    <3>1. poller' = polls /\ shotRef' = NoOne
      BY <1>1, <2>2
    <3>2. QED
      BY <1>3, <3>1
  <2>3. QED
    BY <2>1, <2>2
<1>5. SyncTypeOK'
  <2>1. mounts' \in 0..MaxMounts
    BY <1>1, Apart DEF SyncInv, SyncTypeOK
  <2>2. overtaken' \in BOOLEAN /\ typed' \in Seq(Namespaces)
    BY <1>1, Cleared
  <2>3. QED
    BY <1>1, <1>4, <2>1, <2>2 DEF SyncInv, SyncTypeOK
<1>6. RefsHold'
  BY <1>1, <1>2, <1>4 DEF RefsHold, Started
<1>7. PollsPlaced'
  <2>1. ASSUME NEW r \in Pollers
        PROVE  \/ poller'[r] = Started("asking", c, TRUE) \/ poller'[r] = Started("timer", c, FALSE)
               \/ poller'[r] = Free \/ poller'[r] = poller[r]
    BY <1>4, Cleared
  <2>2. QED
    BY <2>1 DEF SyncInv, PollsPlaced, Started, Free
<1>8. OneLoop'
  <2>1. /\ poller'[p].loop /\ poller'[p].own /\ poller'[p].cluster = c /\ poller'[p].phase = "asking"
        /\ \A r \in Pollers \ {p} : poller'[r].loop => ClearTimers[r].loop
    BY <1>4 DEF Started
  <2>2. \A r \in Pollers \ {p} : poller'[r].loop => poller[r].loop
    BY <2>1, Cleared DEF Free
  <2>3. overtaken' \/ \A r \in Pollers \ {p} : ~poller'[r].loop
    BY <1>1, <2>1, Cleared
  <2>4. QED
    BY <1>1, <1>2, <2>1, <2>2, <2>3, LoopBegins
<1> QED
  BY <1>5, <1>6, <1>7, <1>8 DEF SyncInv

LEMMA CloseKeeps ==
  ASSUME SyncInv, Close
  PROVE  SyncInv'
<1>1. /\ at' = NoOne /\ attached' = FALSE /\ just' = FALSE /\ status' = NoOne /\ typed' = <<>>
      /\ overtaken' = (overtaken \/ Overtakes) /\ loopRef' = NoOne /\ shotRef' = NoOne
      /\ poller' = [p \in Pollers |-> [ClearTimers[p] EXCEPT !.own = FALSE]]
      /\ UNCHANGED <<active, file, mounts, picks>>
  BY DEF Close
<1>2. \A p \in Pollers :
        /\ poller'[p] \in Poll /\ poller'[p].own = FALSE
        /\ poller'[p].loop = ClearTimers[p].loop /\ poller'[p].phase = ClearTimers[p].phase
        /\ poller'[p].cluster = ClearTimers[p].cluster /\ poller'[p].ns = ClearTimers[p].ns
  BY <1>1, Cleared DEF Poll
<1>3. SyncTypeOK'
  <2>1. poller' \in [Pollers -> Poll]
    BY <1>1, <1>2
  <2>2. overtaken' \in BOOLEAN /\ typed' \in Seq(Namespaces)
    BY <1>1, Cleared
  <2>3. QED
    BY <1>1, <2>1, <2>2 DEF SyncInv, SyncTypeOK
<1>4. RefsHold'
  BY <1>1, <1>2 DEF RefsHold
<1>5. PollsPlaced'
  BY <1>2, Cleared DEF SyncInv, PollsPlaced, Free
<1>6. OneLoop'
  <2>1. \A p \in Pollers : poller'[p].loop => poller[p].loop
    BY <1>2, Cleared DEF Free
  <2>2. Cardinality(Loops') <= mounts'
    <3>1. Loops' \subseteq Loops
      BY <2>1 DEF Loops
    <3>2. Cardinality(Loops') \in Nat
      BY <3>1, LoopsCount, FS_Subset, FS_CardinalityType
    <3>3. Cardinality(Loops) <= mounts /\ mounts \in Nat
      BY Apart DEF SyncInv, SyncTypeOK, OneLoop, Loops
    <3>4. QED
      BY <1>1, <2>1, <3>2, <3>3, LoopsShrink, LoopsCount
  <2>3. overtaken' \/ \A p \in Pollers : ~poller'[p].loop
    BY <1>1, <1>2, Cleared
  <2>4. QED
    BY <1>1, <2>2, <2>3 DEF OneLoop, Loops
<1> QED
  BY <1>3, <1>4, <1>5, <1>6 DEF SyncInv

-----------------------------------------------------------------------------
(* The connection, the shell and the user.                                 *)

LEMMA AttachKeeps ==
  ASSUME SyncInv, NEW fresh \in BOOLEAN, Attach(fresh)
  PROVE  SyncInv'
<1>1. /\ at # NoOne /\ attached' = TRUE /\ just' = fresh
      /\ UNCHANGED <<at, active, status, file, loopRef, overtaken, mounts, picks>>
      /\ Schedule(poller, at) \/ UNCHANGED <<poller, shotRef>>
  BY DEF Attach
<1>2. /\ RefsHold' /\ PollsPlaced' /\ OneLoop'
      /\ poller' \in [Pollers -> Poll] /\ shotRef' \in Pollers \cup {NoOne}
  BY <1>1, ScheduleKeeps
<1>3. typed' \in Seq(Namespaces)
  <2>1. CASE Types(TRUE, active, status, fresh)
    <3>1. active \in Namespaces
      BY <2>1 DEF Types, SyncInv, SyncTypeOK
    <3>2. typed' = <<active>>
      BY <2>1 DEF Attach
    <3>3. QED
      BY <3>1, <3>2
  <2>2. CASE ~Types(TRUE, active, status, fresh)
    BY <2>2 DEF Attach, SyncInv, SyncTypeOK
  <2>3. QED
    BY <2>1, <2>2
<1>4. SyncTypeOK'
  BY <1>1, <1>2, <1>3 DEF SyncInv, SyncTypeOK
<1> QED
  BY <1>2, <1>4 DEF SyncInv

LEMMA DetachKeeps ==
  ASSUME SyncInv, Detach
  PROVE  SyncInv'
<1>1. at # NoOne
  BY DEF Detach, SyncInv, RefsHold
<1>2. RefsHold' /\ PollsPlaced' /\ OneLoop'
  BY <1>1, ScheduleKeeps DEF Detach, timers
<1>3. typed' \in Seq(Namespaces)
  BY DEF Detach
<1>4. SyncTypeOK'
  BY <1>3 DEF Detach, timers, SyncInv, SyncTypeOK
<1> QED
  BY <1>2, <1>4 DEF SyncInv

LEMMA ReconnectKeeps ==
  ASSUME SyncInv, ClickReconnect
  PROVE  SyncInv'
<1>1. /\ RefsHold' /\ PollsPlaced' /\ OneLoop'
      /\ poller' \in [Pollers -> Poll] /\ shotRef' \in Pollers \cup {NoOne}
  BY ScheduleKeeps DEF ClickReconnect
<1>2. typed' \in Seq(Namespaces)
  BY DEF ClickReconnect
<1>3. SyncTypeOK'
  BY <1>1, <1>2 DEF ClickReconnect, SyncInv, SyncTypeOK
<1> QED
  BY <1>1, <1>3 DEF SyncInv

LEMMA JustKeeps ==
  ASSUME SyncInv, JustEnds
  PROVE  SyncInv'
<1>1. OneLoop'
  BY LoopUntouched DEF JustEnds, timers, SyncInv
<1> QED
  BY <1>1 DEF JustEnds, timers, SyncInv, SyncTypeOK, RefsHold, PollsPlaced

LEMMA ShellKeeps ==
  ASSUME SyncInv, ShellRuns
  PROVE  SyncInv'
<1>1. OneLoop'
  BY LoopUntouched DEF ShellRuns, timers, SyncInv
<1>2. typed \in Seq(Namespaces) /\ typed # <<>>
  BY DEF ShellRuns, SyncInv, SyncTypeOK
<1>3. Head(typed) \in Namespaces /\ Tail(typed) \in Seq(Namespaces)
  BY <1>2
<1>4. file' \in [Contexts -> Namespaces] /\ typed' \in Seq(Namespaces)
  BY <1>3 DEF ShellRuns, SyncInv, SyncTypeOK
<1>5. SyncTypeOK'
  BY <1>4 DEF ShellRuns, timers, SyncInv, SyncTypeOK
<1>6. RefsHold' /\ PollsPlaced'
  BY DEF ShellRuns, timers, SyncInv, RefsHold, PollsPlaced
<1> QED
  BY <1>1, <1>5, <1>6 DEF SyncInv

LEMMA MayActCounts ==
  ASSUME SyncInv, MayAct
  PROVE  picks' \in 0..MaxPicks
  BY Apart DEF MayAct, SyncInv, SyncTypeOK

LEMMA PickKeeps ==
  ASSUME SyncInv, NEW ns \in Namespaces \cup {"all"}, PickNamespace(ns)
  PROVE  SyncInv'
<1>1. /\ active' = ns /\ picks' \in 0..MaxPicks
      /\ UNCHANGED <<at, attached, just, status, file, loopRef, overtaken, mounts>>
  BY MayActCounts DEF PickNamespace
<1>2. CASE Types(attached, ns, status, just)
  <2>1. /\ typed' = Append(typed, ns) /\ Schedule(poller, at) /\ ns \in Namespaces /\ at # NoOne
    BY <1>2 DEF PickNamespace, Types, SyncInv, RefsHold
  <2>2. /\ RefsHold' /\ PollsPlaced' /\ OneLoop'
        /\ poller' \in [Pollers -> Poll] /\ shotRef' \in Pollers \cup {NoOne}
    BY <1>1, <2>1, ScheduleKeeps
  <2>3. typed' \in Seq(Namespaces)
    BY <2>1 DEF SyncInv, SyncTypeOK
  <2>4. SyncTypeOK'
    BY <1>1, <2>2, <2>3 DEF SyncInv, SyncTypeOK
  <2>5. QED
    BY <2>2, <2>4 DEF SyncInv
<1>3. CASE ~Types(attached, ns, status, just)
  <2>1. UNCHANGED <<typed, poller, shotRef>>
    BY <1>3 DEF PickNamespace
  <2>2. OneLoop'
    BY <1>1, <2>1, LoopUntouched DEF SyncInv
  <2>3. QED
    BY <1>1, <2>1, <2>2 DEF SyncInv, SyncTypeOK, RefsHold, PollsPlaced
<1> QED
  BY <1>2, <1>3

LEMMA TypeKeeps ==
  ASSUME SyncInv, NEW ns \in Namespaces, TypeNamespace(ns)
  PROVE  SyncInv'
<1>1. at # NoOne
  BY DEF TypeNamespace, SyncInv, RefsHold
<1>2. /\ RefsHold' /\ PollsPlaced' /\ OneLoop'
      /\ poller' \in [Pollers -> Poll] /\ shotRef' \in Pollers \cup {NoOne}
  BY <1>1, ScheduleKeeps DEF TypeNamespace
<1>3. typed' \in Seq(Namespaces) /\ picks' \in 0..MaxPicks
  BY MayActCounts DEF TypeNamespace, SyncInv, SyncTypeOK
<1>4. SyncTypeOK'
  BY <1>2, <1>3 DEF TypeNamespace, SyncInv, SyncTypeOK
<1> QED
  BY <1>2, <1>4 DEF SyncInv

-----------------------------------------------------------------------------
(* Polls.                                                                  *)

LEMMA TimerKeeps ==
  ASSUME SyncInv, NEW p \in Pollers, TimerExpires(p)
  PROVE  SyncInv'
<1>1. /\ poller[p].phase = "timer" /\ poller' = [poller EXCEPT ![p].phase = "asking"]
      /\ IF ~poller[p].own THEN UNCHANGED timers
         ELSE IF poller[p].loop THEN loopRef' = NoOne /\ UNCHANGED shotRef
         ELSE shotRef' = NoOne /\ UNCHANGED loopRef
      /\ UNCHANGED <<at, attached, just, active, status, file, typed, overtaken, mounts, picks>>
  BY DEF TimerExpires
<1>2. poller \in [Pollers -> Poll]
  BY DEF SyncInv, SyncTypeOK
<1>3. /\ poller' \in [Pollers -> Poll] /\ poller'[p].phase = "asking"
      /\ \A q \in Pollers \ {p} : poller'[q] = poller[q]
      /\ \A q \in Pollers : /\ poller'[q].loop = poller[q].loop /\ poller'[q].own = poller[q].own
                            /\ poller'[q].cluster = poller[q].cluster
                            /\ poller'[q].ns = poller[q].ns
  BY <1>1, <1>2 DEF Poll
<1>4. SyncTypeOK'
  BY <1>1, <1>3 DEF SyncInv, SyncTypeOK, timers
<1>5. RefsHold'
  BY <1>1, <1>3, Apart DEF SyncInv, SyncTypeOK, RefsHold, timers
<1>6. PollsPlaced'
  BY <1>1, <1>3 DEF SyncInv, PollsPlaced
<1>7. OneLoop'
  <2>1. Loops' = Loops
    BY <1>3 DEF Loops
  <2>2. Cardinality(Loops') <= mounts'
    BY <1>1, <2>1 DEF SyncInv, OneLoop, Loops
  <2>3. at' # NoOne => \E q \in Pollers : poller'[q].loop /\ poller'[q].own /\ poller'[q].cluster = at'
    BY <1>1, <1>3 DEF SyncInv, OneLoop
  <2>4. ASSUME ~overtaken', NEW q \in Pollers, poller'[q].loop
        PROVE  /\ poller'[q].cluster = at'
               /\ \A r \in Pollers : poller'[r].loop => r = q
               /\ poller'[q].phase = "timer" <=> loopRef' = q
    <3>1. /\ poller[q].loop /\ poller[q].cluster = at /\ ~overtaken
          /\ \A r \in Pollers : poller[r].loop => r = q
          /\ poller[q].phase = "timer" <=> loopRef = q
      BY <1>1, <1>3, <2>4 DEF SyncInv, OneLoop
    <3>2. poller[q].own
      BY <3>1, Apart DEF SyncInv, OneLoop, PollsPlaced
    <3>3. poller'[q].phase = "timer" <=> loopRef' = q
      <4>1. CASE p = q
        BY <1>1, <1>3, <3>1, <3>2, <4>1, Apart
      <4>2. CASE p # q
        BY <1>1, <1>3, <3>1, <4>2 DEF timers
      <4>3. QED
        BY <4>1, <4>2
    <3>4. QED
      BY <1>1, <1>3, <3>1, <3>3
  <2>5. QED
    BY <2>2, <2>3, <2>4 DEF OneLoop, Loops
<1> QED
  BY <1>4, <1>5, <1>6, <1>7 DEF SyncInv

LEMMA ReadKeeps ==
  ASSUME SyncInv, NEW p \in Pollers, BackendReads(p)
  PROVE  SyncInv'
<1>1. /\ poller[p].phase = "asking"
      /\ poller' = [poller EXCEPT ![p].phase = "answered", ![p].ns = file[poller[p].cluster]]
      /\ UNCHANGED <<at, attached, just, active, status, file, typed, timers, overtaken, mounts, picks>>
  BY DEF BackendReads
<1>2. poller \in [Pollers -> Poll] /\ file[poller[p].cluster] \in Namespaces
  BY <1>1 DEF SyncInv, SyncTypeOK, PollsPlaced
<1>3. /\ poller' \in [Pollers -> Poll] /\ poller'[p].phase = "answered" /\ poller'[p].ns \in Namespaces
      /\ \A q \in Pollers \ {p} : poller'[q] = poller[q]
      /\ \A q \in Pollers : /\ poller'[q].loop = poller[q].loop /\ poller'[q].own = poller[q].own
                            /\ poller'[q].cluster = poller[q].cluster
  BY <1>1, <1>2 DEF Poll
<1>4. SyncTypeOK'
  BY <1>1, <1>3 DEF SyncInv, SyncTypeOK, timers
<1>5. RefsHold'
  BY <1>1, <1>3, Apart DEF SyncInv, SyncTypeOK, RefsHold, timers
<1>6. PollsPlaced'
  BY <1>1, <1>3 DEF SyncInv, PollsPlaced
<1>7. OneLoop'
  <2>1. \A q \in Pollers : poller'[q].phase = "timer" <=> poller[q].phase = "timer"
    BY <1>1, <1>3
  <2>2. QED
    BY <1>1, <1>3, <2>1, LoopUntouched DEF SyncInv, timers
<1> QED
  BY <1>4, <1>5, <1>6, <1>7 DEF SyncInv

\* A request that is over leaves the loops as many as they are.
LEMMA Rearming ==
  ASSUME SyncInv, NEW p \in Pollers, poller[p].phase \in {"asking", "answered"}
  PROVE  /\ Rearmed(p) \in [Pollers -> Poll] /\ RearmedRef(p) \in Pollers \cup {NoOne}
         /\ \A q \in Pollers \ {p} : Rearmed(p)[q] = poller[q]
         /\ poller[p].loop => /\ Rearmed(p)[p].loop /\ Rearmed(p)[p].phase = "timer"
                              /\ Rearmed(p)[p].own = poller[p].own
                              /\ Rearmed(p)[p].cluster = poller[p].cluster
         /\ ~poller[p].loop => Rearmed(p)[p] = Free
         /\ \A q \in Pollers : /\ Rearmed(p)[q].loop = poller[q].loop
                               /\ Rearmed(p)[q].phase = "free" => ~Rearmed(p)[q].loop
         /\ loopRef # p /\ shotRef # p
<1>1. poller \in [Pollers -> Poll] /\ loopRef \in Pollers \cup {NoOne}
  BY DEF SyncInv, SyncTypeOK
<1>2. /\ Rearmed(p) \in [Pollers -> Poll] /\ RearmedRef(p) \in Pollers \cup {NoOne}
      /\ \A q \in Pollers \ {p} : Rearmed(p)[q] = poller[q]
      /\ poller[p].loop => /\ Rearmed(p)[p].loop /\ Rearmed(p)[p].phase = "timer"
                           /\ Rearmed(p)[p].own = poller[p].own
                           /\ Rearmed(p)[p].cluster = poller[p].cluster
      /\ ~poller[p].loop => Rearmed(p)[p] = Free
  BY <1>1, PollsTyped DEF Rearmed, RearmedRef, Poll
<1>3. \A q \in Pollers : /\ Rearmed(p)[q].loop = poller[q].loop
                         /\ Rearmed(p)[q].phase = "free" => ~Rearmed(p)[q].loop
  BY <1>1, <1>2 DEF Free, Poll, SyncInv, PollsPlaced
<1>4. loopRef # p /\ shotRef # p
  BY Apart DEF SyncInv, RefsHold
<1> QED
  BY <1>2, <1>3, <1>4

\* A loop's timer is armed, in its own tab's ref, and a poll may be scheduled.
LEMMA RearmKeeps ==
  ASSUME SyncInv, NEW p \in Pollers, poller[p].phase \in {"asking", "answered"},
         loopRef' = RearmedRef(p), UNCHANGED <<at, attached, overtaken, mounts>>,
         \/ Schedule(Rearmed(p), at) /\ at # NoOne
         \/ poller' = Rearmed(p) /\ shotRef' = shotRef
  PROVE  /\ RefsHold' /\ PollsPlaced' /\ OneLoop'
         /\ poller' \in [Pollers -> Poll] /\ loopRef' \in Pollers \cup {NoOne}
         /\ shotRef' \in Pollers \cup {NoOne}
<1> DEFINE polls == Rearmed(p)
<1>1. /\ polls \in [Pollers -> Poll] /\ RearmedRef(p) \in Pollers \cup {NoOne}
      /\ \A q \in Pollers \ {p} : polls[q] = poller[q]
      /\ poller[p].loop => /\ polls[p].loop /\ polls[p].phase = "timer"
                           /\ polls[p].own = poller[p].own /\ polls[p].cluster = poller[p].cluster
      /\ ~poller[p].loop => polls[p] = Free
      /\ \A q \in Pollers : /\ polls[q].loop = poller[q].loop
                            /\ polls[q].phase = "free" => ~polls[q].loop
      /\ loopRef # p /\ shotRef # p
  BY Rearming
<1>2. /\ poller \in [Pollers -> Poll] /\ at \in Contexts \cup {NoOne}
      /\ loopRef \in Pollers \cup {NoOne} /\ shotRef \in Pollers \cup {NoOne}
  BY DEF SyncInv, SyncTypeOK
<1>3. \/ Schedule(polls, at) /\ at # NoOne
      \/ poller' = polls /\ shotRef' = shotRef
  OBVIOUS
<1>4. loopRef' = IF poller[p].loop /\ poller[p].own THEN p ELSE loopRef
  BY DEF RearmedRef
<1> HIDE DEF polls
<1>5. /\ poller' \in [Pollers -> Poll] /\ shotRef' \in Pollers \cup {NoOne}
      /\ \A q \in Pollers : \/ poller'[q] = polls[q]
                            \/ /\ q = shotRef' /\ at \in Contexts /\ at # NoOne
                               /\ ~polls[q].loop /\ poller'[q] = Started("timer", at, FALSE)
      /\ \/ shotRef' = shotRef
         \/ at # NoOne /\ poller'[shotRef'] = Started("timer", at, FALSE)
  <2>1. CASE Schedule(polls, at) /\ at # NoOne
    <3>1. shotRef # NoOne => ~polls[shotRef].loop
      BY <1>1, <1>2 DEF SyncInv, RefsHold
    <3>2. /\ poller' \in [Pollers -> Poll] /\ shotRef' \in Pollers /\ shotRef' # NoOne
          /\ poller'[shotRef'] = Started("timer", at, FALSE)
          /\ ~polls[shotRef'].loop
          /\ \A q \in Pollers \ {shotRef'} : poller'[q] = polls[q]
      BY <1>1, <1>2, <2>1, <3>1, Scheduling
    <3>3. QED
      BY <1>2, <2>1, <3>2
  <2>2. CASE poller' = polls /\ shotRef' = shotRef
    BY <1>1, <1>2, <2>2
  <2>3. QED
    BY <1>3, <2>1, <2>2
<1>6. \A q \in Pollers : poller'[q].loop = poller[q].loop
  <2>1. \A q \in Pollers : polls[q].loop \in BOOLEAN
    BY <1>1 DEF Poll
  <2>2. Started("timer", at, FALSE).loop = FALSE
    BY DEF Started
  <2>3. QED
    BY <1>1, <1>5, <2>1, <2>2
<1>7. \A q \in Pollers : poller[q].loop => poller'[q] = polls[q]
  BY <1>1, <1>5
<1>8. RefsHold'
  <2>1. loopRef' # NoOne => poller'[loopRef'].phase = "timer" /\ poller'[loopRef'].loop /\ poller'[loopRef'].own
    BY <1>1, <1>2, <1>4, <1>7 DEF SyncInv, RefsHold
  <2>2. shotRef' # NoOne => poller'[shotRef'].phase = "timer" /\ ~poller'[shotRef'].loop /\ poller'[shotRef'].own
    <3>1. CASE poller'[shotRef'] = Started("timer", at, FALSE)
      BY <3>1 DEF Started
    <3>2. CASE shotRef' = shotRef /\ poller'[shotRef'] # Started("timer", at, FALSE)
      BY <1>1, <1>2, <1>5, <3>2 DEF SyncInv, RefsHold
    <3>3. QED
      BY <1>5, <3>1, <3>2
  <2>3. at' = NoOne => /\ loopRef' = NoOne /\ shotRef' = NoOne /\ ~attached'
                       /\ \A q \in Pollers : ~poller'[q].own
    BY <1>1, <1>4, <1>5 DEF SyncInv, RefsHold, Free
  <2>4. QED
    BY <2>1, <2>2, <2>3 DEF RefsHold
<1>9. PollsPlaced'
  BY <1>1, <1>5 DEF SyncInv, PollsPlaced, Free, Started
<1>10. OneLoop'
  <2>1. Cardinality(Loops') <= mounts'
    <3>1. Loops' = Loops
      BY <1>6 DEF Loops
    <3>2. QED
      BY <3>1 DEF SyncInv, OneLoop, Loops
  <2>2. at' # NoOne => \E q \in Pollers : poller'[q].loop /\ poller'[q].own /\ poller'[q].cluster = at'
    BY <1>1, <1>6, <1>7 DEF SyncInv, OneLoop
  <2>3. ASSUME ~overtaken', NEW q \in Pollers, poller'[q].loop
        PROVE  /\ poller'[q].cluster = at'
               /\ \A r \in Pollers : poller'[r].loop => r = q
               /\ poller'[q].phase = "timer" <=> loopRef' = q
    <3>1. /\ poller[q].loop /\ poller[q].cluster = at /\ ~overtaken
          /\ \A r \in Pollers : poller[r].loop => r = q
          /\ poller[q].phase = "timer" <=> loopRef = q
      BY <1>6, <2>3 DEF SyncInv, OneLoop
    <3>2. poller[q].own /\ poller'[q] = polls[q]
      BY <1>7, <3>1, Apart DEF SyncInv, OneLoop, PollsPlaced
    <3>3. poller'[q].phase = "timer" <=> loopRef' = q
      <4>1. CASE p = q
        BY <1>1, <1>4, <3>1, <3>2, <4>1
      <4>2. CASE p # q
        <5>1. ~poller[p].loop
          BY <3>1, <4>2
        <5>2. QED
          BY <1>1, <1>4, <3>1, <3>2, <4>2, <5>1
      <4>3. QED
        BY <4>1, <4>2
    <3>4. poller'[q].cluster = at'
      BY <1>1, <3>1, <3>2
    <3>5. QED
      BY <1>6, <3>1, <3>3, <3>4
  <2>4. QED
    BY <2>1, <2>2, <2>3 DEF OneLoop, Loops
<1> QED
  BY <1>1, <1>5, <1>8, <1>9, <1>10

LEMMA FailKeeps ==
  ASSUME SyncInv, NEW p \in Pollers, PollFails(p)
  PROVE  SyncInv'
<1>1. /\ RefsHold' /\ PollsPlaced' /\ OneLoop'
      /\ poller' \in [Pollers -> Poll] /\ loopRef' \in Pollers \cup {NoOne}
      /\ shotRef' \in Pollers \cup {NoOne}
  BY RearmKeeps DEF PollFails
<1>2. SyncTypeOK'
  BY <1>1 DEF PollFails, SyncInv, SyncTypeOK
<1> QED
  BY <1>1, <1>2 DEF SyncInv

LEMMA AppliedKeeps ==
  ASSUME SyncInv, NEW p \in Pollers, ApplyShellState(p)
  PROVE  SyncInv'
<1> DEFINE ns    == poller[p].ns
           types == active # ns /\ Types(attached, ns, status, just)
<1>1. /\ poller[p].phase = "answered" /\ active' = ns /\ loopRef' = RearmedRef(p)
      /\ status' = IF poller[p].own THEN ns ELSE status
      /\ types => typed' = Append(typed, ns) /\ Schedule(Rearmed(p), at)
      /\ ~types => poller' = Rearmed(p) /\ typed' = typed /\ shotRef' = shotRef
      /\ UNCHANGED <<at, attached, just, file, overtaken, mounts, picks>>
  BY DEF ApplyShellState
<1>2. ns \in Namespaces /\ typed \in Seq(Namespaces) /\ status \in Namespaces \cup {NoOne}
  BY <1>1 DEF SyncInv, SyncTypeOK, PollsPlaced
<1>3. types => at # NoOne
  BY DEF SyncInv, RefsHold, Types
<1> HIDE DEF ns, types
<1>4. /\ RefsHold' /\ PollsPlaced' /\ OneLoop'
      /\ poller' \in [Pollers -> Poll] /\ loopRef' \in Pollers \cup {NoOne}
      /\ shotRef' \in Pollers \cup {NoOne}
  BY <1>1, <1>3, RearmKeeps
<1>5. typed' \in Seq(Namespaces)
  BY <1>1, <1>2
<1>6. SyncTypeOK'
  BY <1>1, <1>2, <1>4, <1>5 DEF SyncInv, SyncTypeOK
<1> QED
  BY <1>4, <1>6 DEF SyncInv

-----------------------------------------------------------------------------
LEMMA SyncStep == SyncInv /\ [SyncNext]_nvars => SyncInv'
<1> SUFFICES ASSUME SyncInv, [SyncNext]_nvars PROVE SyncInv'
  OBVIOUS
<1>1. CASE UNCHANGED nvars
  <2>1. UNCHANGED <<at, attached, just, active, status, file, typed, poller, loopRef, shotRef,
                    overtaken, mounts, picks>>
    BY <1>1 DEF nvars, timers
  <2>2. OneLoop'
    BY <2>1, LoopUntouched DEF SyncInv
  <2>3. QED
    BY <2>1, <2>2 DEF SyncInv, SyncTypeOK, RefsHold, PollsPlaced
<1>2. ASSUME NEW p \in Pollers, Polling(p) PROVE SyncInv'
  BY <1>2, TimerKeeps, ReadKeeps, FailKeeps, AppliedKeeps DEF Polling
<1> QED
  BY <1>1, <1>2, OpenKeeps, SwitchKeeps, CloseKeeps, AttachKeeps, DetachKeeps, ReconnectKeeps,
     JustKeeps, ShellKeeps, PickKeeps, TypeKeeps DEF SyncNext

LEMMA SyncInvariant == SyncSpec => []SyncInv
  BY SyncInitially, SyncStep, PTL DEF SyncSpec

\* Polls, refs, filter and namespaces keep their types: in particular the filter
\* value "all" is never typed into a shell.
THEOREM SyncTypes == SyncSpec => []SyncTypeOK
<1>1. SyncInv => SyncTypeOK
  BY DEF SyncInv
<1> QED
  BY <1>1, SyncInvariant, PTL

\* A tab has one polling loop, and a switch leaves none behind unless it overtook
\* an answer; there are never more loops than clusters were shown.
THEOREM PollingDoesNotMultiply == SyncSpec => []OneLoop
<1>1. SyncInv => OneLoop
  BY DEF SyncInv
<1> QED
  BY <1>1, SyncInvariant, PTL

-----------------------------------------------------------------------------
(* Agreements.                                                             *)

\* Nothing is typed while filter and status are those of the kubeconfig, and a
\* step that only moves polls of the cluster shown keeps the agreement.
LEMMA AgreedKeeps ==
  ASSUME SyncInv, Agreed, UNCHANGED <<at, active, status, file, typed>>,
         \A p \in Pollers : poller'[p].phase # "free" =>
           /\ poller'[p].cluster = at
           /\ poller'[p].phase = "answered" => poller'[p].ns = file[at]
  PROVE  Agreed'
  BY DEF Agreed

\* A poll that is scheduled is one of the cluster shown.
LEMMA AgreedSchedules ==
  ASSUME SyncInv, Agreed, UNCHANGED <<at, active, status, file, typed>>,
         Schedule(poller, at)
  PROVE  Agreed'
<1>1. /\ poller' \in [Pollers -> Poll] /\ shotRef' \in Pollers /\ shotRef' # NoOne
      /\ poller'[shotRef'] = Started("timer", at, FALSE)
      /\ \A p \in Pollers \ {shotRef'} : poller'[p] = poller[p]
  <2>1. at \in Contexts /\ poller \in [Pollers -> Poll] /\ shotRef \in Pollers \cup {NoOne}
    BY DEF SyncInv, SyncTypeOK, Agreed
  <2>2. QED
    BY <2>1, Scheduling DEF SyncInv, RefsHold, PollsPlaced
<1>2. \A p \in Pollers : poller'[p].phase # "free" =>
        /\ poller'[p].cluster = at
        /\ poller'[p].phase = "answered" => poller'[p].ns = file[at]
  BY <1>1 DEF Agreed, Started
<1> QED
  BY <1>2, AgreedKeeps

LEMMA AgreementStep ==
  ASSUME SyncInv, [SyncNext]_nvars, Agreed
  PROVE  Agreed' \/ at' # at \/ picks' # picks
<1>1. CASE UNCHANGED nvars
  <2>1. UNCHANGED <<at, active, status, file, typed, poller>>
    BY <1>1 DEF nvars
  <2>2. QED
    BY <2>1 DEF Agreed
<1>2. ASSUME NEW c \in Contexts, Open(c) \/ Switch(c)
      PROVE  at' # at
  <2>1. at' = c /\ c # at
    BY <1>2, Apart DEF Open, Switch
  <2>2. QED
    BY <2>1
<1>3. CASE Close
  BY <1>3 DEF Close
<1>4. ASSUME NEW fresh \in BOOLEAN, Attach(fresh)
      PROVE  Agreed'
  <2>1. ~Types(TRUE, active, status, fresh)
    BY DEF Types, Agreed
  <2>2. UNCHANGED <<at, active, status, file, typed, poller>>
    BY <1>4, <2>1 DEF Attach
  <2>3. QED
    BY <2>2 DEF Agreed
<1>5. CASE Detach
  <2>1. typed' = typed /\ UNCHANGED <<at, active, status, file, poller>>
    BY <1>5 DEF Detach, Agreed
  <2>2. QED
    BY <2>1 DEF Agreed
<1>6. CASE ClickReconnect
  <2>1. typed' = typed /\ UNCHANGED <<at, active, status, file>> /\ Schedule(poller, at)
    BY <1>6 DEF ClickReconnect, Agreed
  <2>2. QED
    BY <2>1, AgreedSchedules
<1>7. CASE JustEnds
  BY <1>7 DEF JustEnds, Agreed
<1>8. CASE ShellRuns
  BY <1>8 DEF ShellRuns, Agreed
<1>9. ASSUME NEW ns \in Namespaces \cup {"all"}, PickNamespace(ns) \/ TypeNamespace(ns)
      PROVE  picks' # picks
  <2>1. picks' = picks + 1 /\ picks \in Nat
    BY <1>9, Apart DEF PickNamespace, TypeNamespace, MayAct, SyncInv, SyncTypeOK
  <2>2. QED
    BY <2>1
<1>10. ASSUME NEW p \in Pollers, Polling(p)
       PROVE  Agreed'
  <2>1. CASE TimerExpires(p)
    <3>1. UNCHANGED <<at, active, status, file, typed>>
      BY <2>1 DEF TimerExpires
    <3>2. /\ poller[p].phase = "timer" /\ poller' = [poller EXCEPT ![p].phase = "asking"]
          /\ poller \in [Pollers -> Poll]
      BY <2>1 DEF TimerExpires, SyncInv, SyncTypeOK
    <3>3. \A q \in Pollers : /\ poller'[q].cluster = poller[q].cluster
                             /\ poller'[q].ns = poller[q].ns
                             /\ q # p => poller'[q].phase = poller[q].phase
      BY <3>2 DEF Poll
    <3>4. poller'[p].phase = "asking"
      BY <3>2 DEF Poll
    <3>5. QED
      BY <3>1, <3>2, <3>3, <3>4, AgreedKeeps DEF Agreed
  <2>2. CASE BackendReads(p)
    <3>1. UNCHANGED <<at, active, status, file, typed>>
      BY <2>2 DEF BackendReads
    <3>2. /\ poller[p].phase = "asking" /\ poller \in [Pollers -> Poll]
          /\ poller' = [poller EXCEPT ![p].phase = "answered", ![p].ns = file[poller[p].cluster]]
      BY <2>2 DEF BackendReads, SyncInv, SyncTypeOK
    <3>3. poller[p].cluster = at
      BY <3>2 DEF Agreed
    <3>4. /\ \A q \in Pollers \ {p} : poller'[q] = poller[q]
          /\ poller'[p].cluster = at /\ poller'[p].ns = file[at]
      BY <3>2, <3>3 DEF Poll
    <3>5. QED
      BY <3>1, <3>4, AgreedKeeps DEF Agreed
  <2>3. CASE PollFails(p)
    <3>1. UNCHANGED <<at, active, status, file, typed>> /\ poller' = Rearmed(p)
      BY <2>3 DEF PollFails
    <3>2. poller[p].phase = "asking" /\ poller[p].phase # "free"
      BY <2>3 DEF PollFails
    <3>3. QED
      BY <3>1, <3>2, Rearming, AgreedKeeps DEF Agreed, Free
  <2>4. CASE ApplyShellState(p)
    <3>1. poller[p].phase = "answered" /\ poller[p].ns = file[at] /\ active = file[at] /\ status = file[at]
      BY <2>4 DEF ApplyShellState, Agreed
    <3>2. UNCHANGED <<at, active, status, file, typed>> /\ poller' = Rearmed(p)
      BY <2>4, <3>1 DEF ApplyShellState
    <3>3. QED
      BY <3>1, <3>2, Rearming, AgreedKeeps DEF Agreed, Free
  <2>5. QED
    BY <1>10, <2>1, <2>2, <2>3, <2>4 DEF Polling
<1> QED
  BY <1>1, <1>2, <1>3, <1>4, <1>5, <1>6, <1>7, <1>8, <1>9, <1>10 DEF SyncNext

\* An agreement of filter, status and kubeconfig lasts until the user acts or the
\* tab is shown another cluster.
THEOREM AgreementsLast == SyncSpec => AgreementLasts
<1>1. SyncInv /\ [SyncNext]_nvars => [Agreed => Agreed' \/ at' # at \/ picks' # picks]_nvars
  BY AgreementStep
<1> QED
  BY <1>1, SyncInvariant, PTL DEF SyncSpec, AgreementLasts
=============================================================================
