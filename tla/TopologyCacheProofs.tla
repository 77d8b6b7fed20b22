-------------------------- MODULE TopologyCacheProofs --------------------------
(***************************************************************************)
(* Proofs about GraphEngine and about TopologyCache, in which the same     *)
(* engine invalidates two caches, for any kinds of resources, numbers of   *)
(* rebuilds, requests and graphs, and any bounds.                          *)
(***************************************************************************)
EXTENDS TopologyCache, TLAPS

\* A rebuild lists what the stores hold; one that no other has crossed is not behind
\* the snapshot in what it has listed.
Listed ==
  \A r \in Rebuilds :
    /\ rebuild[r].left # {} => rebuild[r].step = "listing"
    /\ \A k \in Kinds :
         /\ rebuild[r].seen[k] <= store[k]
         /\ rebuild[r].step = "listing" /\ ~rebuild[r].crossed /\ k \notin rebuild[r].left
              => snapshot[k] <= rebuild[r].seen[k]

EngineInv == EngineTypeOK /\ Listed /\ NoLostChange

-----------------------------------------------------------------------------
(* The engine.                                                             *)

LEMMA EngineInitially == EngineInit => EngineInv
<1> SUFFICES ASSUME EngineInit PROVE EngineInv
  OBVIOUS
<1>1. Nothing \in Graph /\ Idle \in Rebuild
  BY DEF Nothing, Graph, Idle, Rebuild
<1>2. EngineTypeOK
  <2>1. api \in [Kinds -> 1..MaxChanges] /\ failures \in 0..MaxFailures
    BY EngineAssumption DEF EngineInit, EngineAssumption
  <2>2. \A k \in Kinds : api[k] = 1 /\ store[k] = 0 /\ told[k] = 0 /\ snapshot[k] = 0
    BY DEF EngineInit, Nothing
  <2>3. \A k \in Kinds : told[k] <= store[k] /\ store[k] <= api[k] /\ snapshot[k] <= store[k]
    BY <2>2
  <2>4. rebuild \in [Rebuilds -> Rebuild]
    BY <1>1 DEF EngineInit
  <2>5. store \in Graph /\ told \in Graph /\ snapshot \in Graph
    BY <1>1 DEF EngineInit
  <2> QED
    BY <2>1, <2>3, <2>4, <2>5 DEF EngineInit, EngineTypeOK
<1>3. Listed
  BY DEF EngineInit, Listed, Idle, Nothing
<1>4. NoLostChange
  BY DEF EngineInit, NoLostChange, Behind, Nothing
<1> QED
  BY <1>2, <1>3, <1>4 DEF EngineInv

\* Whatever changes no goroutine, no store and no snapshot and only adds to the
\* reasons to wait.
LEMMA Untouched ==
  ASSUME EngineInv, UNCHANGED <<store, rebuild, snapshot>>,
         \A k \in Kinds : told[k] < store[k] => told'[k] < store[k] \/ dirtyTimer',
         dirtyTimer => dirtyTimer', synced' => synced, excused \subseteq excused'
  PROVE  Listed' /\ NoLostChange'
<1>1. Listed'
  BY DEF EngineInv, Listed
<1>2. NoLostChange'
  <2> SUFFICES ASSUME NEW k \in Behind'
               PROVE  \/ told'[k] < store'[k]
                      \/ dirtyTimer'
                      \/ ~synced'
                      \/ \E r \in Rebuilds : WillHave(r, k)'
                      \/ k \in excused'
    BY DEF NoLostChange
  <2>1. k \in Behind
    BY DEF Behind
  <2>2. \A r \in Rebuilds : WillHave(r, k) => WillHave(r, k)'
    BY DEF WillHave
  <2>3. k \in Kinds
    BY DEF Behind
  <2> QED
    BY <2>1, <2>2, <2>3 DEF EngineInv, NoLostChange
<1> QED
  BY <1>1, <1>2

LEMMA EngineChange ==
  ASSUME EngineInv, NEW k \in Kinds, Change(k)
  PROVE  EngineInv'
<1>1. EngineTypeOK'
  BY EngineAssumption DEF EngineInv, EngineTypeOK, Change, Graph, EngineAssumption
<1>2. Listed' /\ NoLostChange'
  BY Untouched DEF Change
<1> QED
  BY <1>1, <1>2 DEF EngineInv

LEMMA EngineHandle ==
  ASSUME EngineInv, NEW k \in Kinds, Handle(k)
  PROVE  EngineInv'
<1>1. EngineTypeOK'
  BY DEF EngineInv, EngineTypeOK, Handle, MarkDirty, Graph
<1>2. Listed' /\ NoLostChange'
  BY Untouched DEF Handle, MarkDirty
<1> QED
  BY <1>1, <1>2 DEF EngineInv

LEMMA EngineResync ==
  ASSUME EngineInv, Resync
  PROVE  EngineInv'
<1>1. EngineTypeOK'
  BY DEF EngineInv, EngineTypeOK, Resync, MarkDirty
<1>2. Listed' /\ NoLostChange'
  BY Untouched DEF Resync, MarkDirty
<1> QED
  BY <1>1, <1>2 DEF EngineInv

LEMMA EngineObserve ==
  ASSUME EngineInv, NEW k \in Kinds, Observe(k)
  PROVE  EngineInv'
<1>1. EngineTypeOK'
  BY DEF EngineInv, EngineTypeOK, Observe, Graph
<1>2. \A j \in Kinds : store[j] \in Nat /\ store'[j] \in Nat /\ store[j] <= store'[j]
  BY DEF EngineInv, EngineTypeOK, Observe, Graph
<1>3. Listed'
  <2>1. \A r \in Rebuilds, j \in Kinds : rebuild[r].seen[j] \in Nat
    BY DEF EngineInv, EngineTypeOK, Rebuild, Graph
  <2> QED
    BY <1>2, <2>1 DEF EngineInv, Listed, Observe
<1>4. NoLostChange'
  <2> SUFFICES ASSUME NEW j \in Behind'
               PROVE  \/ told'[j] < store'[j]
                      \/ dirtyTimer'
                      \/ ~synced'
                      \/ \E r \in Rebuilds : WillHave(r, j)'
                      \/ j \in excused'
    BY DEF NoLostChange
  <2>1. j \in Kinds
    BY DEF Behind
  <2>2. CASE j = k
    <3>1. told[k] <= store[k] /\ told[k] \in Nat /\ store[k] \in Nat /\ store'[k] = store[k] + 1
      BY DEF EngineInv, EngineTypeOK, Observe, Graph
    <3>2. told' = told
      BY DEF Observe
    <3> QED
      BY <2>2, <3>1, <3>2
  <2>3. CASE j # k
    <3>1. store'[j] = store[j] /\ UNCHANGED <<told, dirtyTimer, synced, rebuild, snapshot>>
      BY <2>1, <2>3 DEF Observe, EngineInv, EngineTypeOK, Graph
    <3>2. j \in Behind
      BY <2>1, <3>1 DEF Behind
    <3>3. \A r \in Rebuilds : WillHave(r, j) => WillHave(r, j)'
      BY <3>1 DEF WillHave
    <3>4. j \in excused => j \in excused'
      BY <2>3 DEF Observe
    <3> QED
      BY <3>1, <3>2, <3>3, <3>4 DEF EngineInv, NoLostChange
  <2> QED
    BY <2>2, <2>3
<1> QED
  BY <1>1, <1>3, <1>4 DEF EngineInv

\* A goroutine that begins will have all there is.
LEMMA Beginning ==
  ASSUME EngineInv, NEW r \in Rebuilds, Begin(r), UNCHANGED <<store, snapshot>>
  PROVE  /\ rebuild' \in [Rebuilds -> Rebuild]
         /\ Listed'
         /\ \A k \in Kinds : WillHave(r, k)'
<1> DEFINE begun == [Idle EXCEPT !.step = "listing", !.left = Kinds]
<1>1. begun \in Rebuild
  BY DEF Idle, Rebuild, Nothing, Graph
<1>2. /\ rebuild \in [Rebuilds -> Rebuild]
      /\ rebuild' = [rebuild EXCEPT ![r] = begun]
  BY DEF EngineInv, EngineTypeOK, Begin
<1>3. rebuild' \in [Rebuilds -> Rebuild]
  BY <1>1, <1>2
<1>4. begun.step = "listing" /\ begun.left = Kinds /\ \A k \in Kinds : begun.seen[k] = 0
  BY DEF Idle, Nothing
<1>5. rebuild'[r] = begun /\ \A q \in Rebuilds \ {r} : rebuild'[q] = rebuild[q]
  BY <1>2
<1>6. Listed'
  <2>1. \A k \in Kinds : store[k] \in Nat
    BY DEF EngineInv, EngineTypeOK, Graph
  <2> HIDE DEF begun
  <2>2. SUFFICES ASSUME NEW q \in Rebuilds
        PROVE  /\ rebuild'[q].left # {} => rebuild'[q].step = "listing"
               /\ \A k \in Kinds :
                    /\ rebuild'[q].seen[k] <= store[k]
                    /\ rebuild'[q].step = "listing" /\ ~rebuild'[q].crossed /\ k \notin rebuild'[q].left
                         => snapshot[k] <= rebuild'[q].seen[k]
    BY DEF Listed
  <2>3. CASE q = r
    BY <2>1, <2>3, <1>4, <1>5
  <2>4. CASE q # r
    BY <2>4, <1>5 DEF EngineInv, Listed
  <2> QED
    BY <2>3, <2>4
<1>7. \A k \in Kinds : WillHave(r, k)'
  BY <1>4, <1>5 DEF WillHave
<1> QED
  BY <1>3, <1>6, <1>7

LEMMA EngineBegins ==
  ASSUME EngineInv, NEW r \in Rebuilds, TimerFires(r) \/ InitialRebuild(r)
  PROVE  EngineInv'
<1>1. Begin(r) /\ UNCHANGED <<api, store, told, snapshot, failures, excused>>
  BY DEF TimerFires, InitialRebuild
<1>2. rebuild' \in [Rebuilds -> Rebuild] /\ Listed' /\ \A k \in Kinds : WillHave(r, k)'
  BY <1>1, Beginning
<1>3. EngineTypeOK'
  BY <1>1, <1>2 DEF EngineInv, EngineTypeOK, TimerFires, InitialRebuild
<1>4. NoLostChange'
  BY <1>2 DEF NoLostChange, Behind
<1> QED
  BY <1>2, <1>3, <1>4 DEF EngineInv

LEMMA EngineLists ==
  ASSUME EngineInv, NEW r \in Rebuilds, NEW k \in Kinds, List(r, k)
  PROVE  EngineInv'
<1> DEFINE step == rebuild[r].step
           new == [rebuild[r] EXCEPT !.seen[k] = store[k], !.left = @ \ {k}]
<1>1. /\ rebuild[r] \in Rebuild
      /\ rebuild' = [rebuild EXCEPT ![r] = new]
      /\ UNCHANGED <<api, store, told, synced, dirtyTimer, snapshot, failures, excused>>
      /\ k \in rebuild[r].left
  BY DEF EngineInv, EngineTypeOK, List
<1>2. store[k] \in Nat /\ snapshot[k] <= store[k]
  BY DEF EngineInv, EngineTypeOK, Graph
<1>3. new \in Rebuild
  BY <1>1, <1>2 DEF Rebuild, Graph
<1>4. /\ rebuild'[r] = new
      /\ \A q \in Rebuilds \ {r} : rebuild'[q] = rebuild[q]
      /\ rebuild' \in [Rebuilds -> Rebuild]
  BY <1>1, <1>3 DEF EngineInv, EngineTypeOK
<1>5. /\ new.step = rebuild[r].step /\ new.crossed = rebuild[r].crossed
      /\ new.left = rebuild[r].left \ {k}
      /\ new.seen[k] = store[k]
      /\ \A j \in Kinds \ {k} : new.seen[j] = rebuild[r].seen[j]
  BY <1>1 DEF Rebuild, Graph
<1> HIDE DEF new
<1>6. EngineTypeOK'
  BY <1>1, <1>4 DEF EngineInv, EngineTypeOK
<1>7. Listed'
  <2> SUFFICES ASSUME NEW q \in Rebuilds
               PROVE  /\ rebuild'[q].left # {} => rebuild'[q].step = "listing"
                      /\ \A j \in Kinds :
                           /\ rebuild'[q].seen[j] <= store[j]
                           /\ rebuild'[q].step = "listing" /\ ~rebuild'[q].crossed /\ j \notin rebuild'[q].left
                                => snapshot[j] <= rebuild'[q].seen[j]
    BY <1>1 DEF Listed
  <2>1. CASE q # r
    BY <1>4, <2>1 DEF EngineInv, Listed
  <2>2. CASE q = r
    BY <1>1, <1>2, <1>4, <1>5, <2>2 DEF EngineInv, Listed
  <2> QED
    BY <2>1, <2>2
<1>8. NoLostChange'
  <2>1. \A q \in Rebuilds, j \in Kinds : WillHave(q, j) => WillHave(q, j)'
    BY <1>1, <1>4, <1>5 DEF WillHave
  <2>2. Behind' = Behind
    BY <1>1 DEF Behind
  <2>3. Behind \subseteq Kinds
    BY DEF Behind
  <2> QED
    BY <1>1, <2>1, <2>2, <2>3 DEF EngineInv, NoLostChange
<1> QED
  BY <1>6, <1>7, <1>8 DEF EngineInv

\* A goroutine that ends is no longer listing.
LEMMA Ending ==
  ASSUME EngineInv, NEW r \in Rebuilds, rebuild' = [rebuild EXCEPT ![r] = Idle],
         UNCHANGED <<store, snapshot>>
  PROVE  /\ rebuild' \in [Rebuilds -> Rebuild]
         /\ Listed'
<1>1. Idle \in Rebuild
  BY DEF Idle, Rebuild, Nothing, Graph
<1>2. Idle.step = "idle" /\ Idle.left = {} /\ \A k \in Kinds : Idle.seen[k] = 0
  BY DEF Idle, Nothing
<1>3. rebuild'[r] = Idle /\ \A q \in Rebuilds \ {r} : rebuild'[q] = rebuild[q]
  BY DEF EngineInv, EngineTypeOK
<1>4. \A k \in Kinds : store[k] \in Nat
  BY DEF EngineInv, EngineTypeOK, Graph
<1>5. rebuild' \in [Rebuilds -> Rebuild]
  BY <1>1 DEF EngineInv, EngineTypeOK
<1>6. Listed'
  <2> SUFFICES ASSUME NEW q \in Rebuilds
               PROVE  /\ rebuild'[q].left # {} => rebuild'[q].step = "listing"
                      /\ \A k \in Kinds :
                           /\ rebuild'[q].seen[k] <= store[k]
                           /\ rebuild'[q].step = "listing" /\ ~rebuild'[q].crossed /\ k \notin rebuild'[q].left
                                => snapshot[k] <= rebuild'[q].seen[k]
    BY DEF Listed
  <2>1. CASE q = r
    BY <2>1, <1>2, <1>3, <1>4
  <2>2. CASE q # r
    BY <2>2, <1>3 DEF EngineInv, Listed
  <2> QED
    BY <2>1, <2>2
<1> QED
  BY <1>5, <1>6

LEMMA EngineFails ==
  ASSUME EngineInv, NEW r \in Rebuilds, ListFails(r)
  PROVE  EngineInv'
<1>1. rebuild' \in [Rebuilds -> Rebuild] /\ Listed'
  BY Ending DEF ListFails
<1>2. EngineTypeOK'
  <2>1. failures' \in 0..MaxFailures
    BY EngineAssumption DEF EngineInv, EngineTypeOK, ListFails, EngineAssumption
  <2>2. excused' \in SUBSET Kinds
    BY DEF EngineInv, EngineTypeOK, ListFails, Behind
  <2> QED
    BY <1>1, <2>1, <2>2 DEF EngineInv, EngineTypeOK, ListFails
<1>3. NoLostChange'
  BY DEF ListFails, NoLostChange, Behind
<1> QED
  BY <1>1, <1>2, <1>3 DEF EngineInv

LEMMA EngineSwaps ==
  ASSUME EngineInv, NEW r \in Rebuilds, Swap(r)
  PROVE  EngineInv'
<1> DEFINE after == [Idle EXCEPT !.step = "clearV2"]
<1>1. /\ rebuild \in [Rebuilds -> Rebuild] /\ store \in Graph /\ snapshot \in Graph
      /\ \A k \in Kinds : store[k] \in Nat /\ snapshot[k] \in Nat /\ snapshot[k] <= store[k]
  BY DEF EngineInv, EngineTypeOK, Graph
<1>2. after \in Rebuild /\ after.step = "clearV2" /\ after.left = {} /\ \A k \in Kinds : after.seen[k] = 0
  BY DEF Idle, Rebuild, Nothing, Graph
<1> HIDE DEF after
<1>3. rebuild' = Swapped(r) /\ rebuild'[r] = after
  BY DEF Swap, Swapped, after
<1>4. ASSUME NEW q \in Rebuilds \ {r}
      PROVE  /\ rebuild[q].step = "listing" => rebuild'[q] = [rebuild[q] EXCEPT !.crossed = TRUE]
             /\ rebuild[q].step # "listing" => rebuild'[q] = rebuild[q]
  BY <1>3 DEF Swapped
<1>5. ASSUME NEW q \in Rebuilds \ {r}
      PROVE  /\ rebuild'[q] \in Rebuild
             /\ rebuild'[q].step = rebuild[q].step
             /\ rebuild'[q].left = rebuild[q].left
             /\ rebuild'[q].seen = rebuild[q].seen
             /\ rebuild[q].step = "listing" => rebuild'[q].crossed
  BY <1>1, <1>4 DEF Rebuild
<1>6. rebuild' \in [Rebuilds -> Rebuild]
  <2>1. \A q \in Rebuilds : rebuild'[q] \in Rebuild
    BY <1>2, <1>3, <1>5
  <2>2. rebuild' = [q \in Rebuilds |-> rebuild'[q]]
    BY <1>3 DEF Swapped
  <2> QED
    BY <2>1, <2>2
<1>7. /\ rebuild[r].step = "listing" /\ rebuild[r].left = {}
      /\ snapshot' = rebuild[r].seen /\ rebuild[r].seen \in Graph
      /\ \A k \in Kinds : rebuild[r].seen[k] <= store[k]
      /\ UNCHANGED <<api, store, told, synced, dirtyTimer, failures>>
      /\ excused' = excused \cup {k \in Kinds : rebuild[r].seen[k] < snapshot[k]}
  BY <1>1 DEF Swap, EngineInv, Listed, Rebuild
<1>8. EngineTypeOK'
  BY <1>6, <1>7 DEF EngineInv, EngineTypeOK
<1>9. Listed'
  <2> SUFFICES ASSUME NEW q \in Rebuilds
               PROVE  /\ rebuild'[q].left # {} => rebuild'[q].step = "listing"
                      /\ \A k \in Kinds :
                           /\ rebuild'[q].seen[k] <= store[k]
                           /\ rebuild'[q].step = "listing" /\ ~rebuild'[q].crossed /\ k \notin rebuild'[q].left
                                => snapshot'[k] <= rebuild'[q].seen[k]
    BY <1>7 DEF Listed
  <2>1. CASE q = r
    BY <2>1, <1>1, <1>2, <1>3
  <2>2. CASE q # r
    BY <2>2, <1>5 DEF EngineInv, Listed
  <2> QED
    BY <2>1, <2>2
<1>10. NoLostChange'
  <2> SUFFICES ASSUME NEW k \in Behind'
               PROVE  \/ told'[k] < store'[k]
                      \/ dirtyTimer'
                      \/ ~synced'
                      \/ \E q \in Rebuilds : WillHave(q, k)'
                      \/ k \in excused'
    BY DEF NoLostChange
  <2>1. k \in Kinds /\ rebuild[r].seen[k] < store[k] /\ rebuild[r].seen[k] \in Nat
    BY <1>7 DEF Behind, Graph
  <2>2. CASE rebuild[r].seen[k] < snapshot[k]
    BY <1>7, <2>1, <2>2
  <2>3. CASE snapshot[k] <= rebuild[r].seen[k]
    <3>1. k \in Behind
      BY <1>1, <2>1, <2>3 DEF Behind
    <3>2. ~WillHave(r, k)
      BY <1>1, <1>7, <2>1 DEF WillHave
    <3>3. \A q \in Rebuilds \ {r} : WillHave(q, k) => WillHave(q, k)'
      BY <1>5, <1>7 DEF WillHave
    <3> QED
      BY <1>7, <3>1, <3>2, <3>3 DEF EngineInv, NoLostChange
  <2> QED
    BY <1>1, <2>1, <2>2, <2>3
<1> QED
  BY <1>8, <1>9, <1>10 DEF EngineInv

\* The callback's calls: the goroutine has swapped before and lists nothing.
LEMMA EngineClears ==
  ASSUME EngineInv, NEW r \in Rebuilds, ClearV2(r) \/ ClearV1(r)
  PROVE  EngineInv'
<1>1. /\ UNCHANGED <<api, store, told, synced, dirtyTimer, snapshot, failures, excused>>
      /\ rebuild[r].step # "listing"
  BY DEF ClearV2, ClearV1
<1>2. rebuild' \in [Rebuilds -> Rebuild] /\ Listed'
  <2>1. CASE ClearV1(r)
    BY <2>1, Ending DEF ClearV1
  <2>2. CASE ClearV2(r)
    <3>1. /\ rebuild[r] \in Rebuild
          /\ rebuild' = [rebuild EXCEPT ![r].step = "clearV1"]
          /\ rebuild \in [Rebuilds -> Rebuild]
      BY <2>2 DEF ClearV2, EngineInv, EngineTypeOK
    <3>2. /\ rebuild'[r] \in Rebuild /\ rebuild'[r].step = "clearV1"
          /\ rebuild'[r].left = rebuild[r].left /\ rebuild'[r].seen = rebuild[r].seen
          /\ \A q \in Rebuilds \ {r} : rebuild'[q] = rebuild[q]
      BY <3>1 DEF Rebuild
    <3>3. rebuild' \in [Rebuilds -> Rebuild]
      BY <3>1, <3>2
    <3>4. Listed'
      BY <1>1, <3>2 DEF EngineInv, Listed
    <3> QED
      BY <3>3, <3>4
  <2> QED
    BY <2>1, <2>2
<1>3. EngineTypeOK'
  BY <1>1, <1>2 DEF EngineInv, EngineTypeOK
<1>4. NoLostChange'
  <2>1. \A q \in Rebuilds, k \in Kinds : WillHave(q, k) => WillHave(q, k)'
    <3> SUFFICES ASSUME NEW q \in Rebuilds, NEW k \in Kinds, WillHave(q, k) PROVE WillHave(q, k)'
      OBVIOUS
    <3>1. q # r
      BY <1>1 DEF WillHave
    <3>2. rebuild'[q] = rebuild[q]
      BY <3>1 DEF ClearV1, ClearV2, EngineInv, EngineTypeOK
    <3> QED
      BY <1>1, <3>2 DEF WillHave
  <2>2. Behind' = Behind /\ Behind \subseteq Kinds
    BY <1>1 DEF Behind
  <2> QED
    BY <1>1, <2>1, <2>2 DEF EngineInv, NoLostChange
<1> QED
  BY <1>2, <1>3, <1>4 DEF EngineInv

LEMMA EngineStepKeeps == EngineInv /\ [EngineNext]_evars => EngineInv'
<1> SUFFICES ASSUME EngineInv, [EngineNext]_evars PROVE EngineInv'
  OBVIOUS
<1>1. CASE Informs
  BY <1>1, EngineChange, EngineObserve, EngineHandle, EngineResync DEF Informs
<1>2. ASSUME NEW r \in Rebuilds, Collects(r) PROVE EngineInv'
  BY <1>2, EngineBegins, EngineLists, EngineFails, EngineSwaps DEF Collects
<1>3. ASSUME NEW r \in Rebuilds, ClearV2(r) \/ ClearV1(r) PROVE EngineInv'
  BY <1>3, EngineClears
<1>4. CASE UNCHANGED evars
  BY <1>4 DEF evars, EngineInv, EngineTypeOK, Listed, NoLostChange, Behind, WillHave
<1> QED
  BY <1>1, <1>2, <1>3, <1>4 DEF EngineNext

LEMMA EngineInvariant == EngineSpec => []EngineInv
  BY EngineInitially, EngineStepKeeps, PTL DEF EngineSpec

-----------------------------------------------------------------------------
\* The engine's variables keep their types: no informer has told more than its store
\* holds, and no snapshot is ahead of the stores.
THEOREM EngineTypes == EngineSpec => []EngineTypeOK
<1>1. EngineInv => EngineTypeOK
  BY DEF EngineInv
<1> QED
  BY <1>1, EngineInvariant, PTL

\* For any kinds and any number of overlapping rebuilds, a change in a store is in the
\* snapshot or on its way, unless a list failed or an older rebuild swapped last.
THEOREM ChangesReachSnapshot == EngineSpec => []NoLostChange
<1>1. EngineInv => NoLostChange
  BY DEF EngineInv
<1> QED
  BY <1>1, EngineInvariant, PTL

\* A rebuild that no other overlaps never takes the snapshot back.
THEOREM NeverBackAlone == EngineSpec => BackOnlyWhenCrossed
<1>1. EngineInv /\ [EngineNext]_evars
        => [\A r \in Rebuilds :
              Swap(r) /\ ~rebuild[r].crossed => \A k \in Kinds : snapshot[k] <= snapshot'[k]]_evars
  <2> SUFFICES ASSUME EngineInv, NEW r \in Rebuilds, Swap(r), ~rebuild[r].crossed, NEW k \in Kinds
               PROVE  snapshot[k] <= snapshot'[k]
    OBVIOUS
  <2> QED
    BY DEF EngineInv, Listed, Swap
<1> QED
  BY <1>1, EngineInvariant, PTL DEF EngineSpec, BackOnlyWhenCrossed

-----------------------------------------------------------------------------
(* The caches.                                                             *)

\* A graph about to be stored that lacks something the snapshot has was outrun by an
\* invalidation, or will be removed by one.
StoresFollow ==
  \A q \in Requests :
    request[q].step = "store" /\ Older(request[q].graph, snapshot)
      => request[q].outrun \/ ToBeCleared(request[q].key)

CacheInv == CacheTypeOK /\ StoresFollow /\ CacheFollows

LEMMA CacheInitially == CacheInit => CacheInv
<1> SUFFICES ASSUME CacheInit PROVE CacheInv
  OBVIOUS
<1>1. NoRequest \in Request /\ NoRequest.step = "idle" /\ NoRequest.graph = None
  BY DEF NoRequest, Request
<1>2. CacheTypeOK
  BY <1>1 DEF CacheInit, CacheTypeOK
<1>3. StoresFollow /\ CacheFollows
  BY <1>1 DEF CacheInit, StoresFollow, CacheFollows
<1> QED
  BY <1>2, <1>3 DEF CacheInv

\* What the engine does between invalidations: it takes no pending one back, and a
\* swap announces one of every key.
LEMMA EngineAnnounces ==
  ASSUME EngineInv, Informs \/ \E r \in Rebuilds : Collects(r)
  PROVE  \/ snapshot' = snapshot /\ \A key \in Keys : ToBeCleared(key) => ToBeCleared(key)'
         \/ \A key \in Keys : ToBeCleared(key)'
<1>1. CASE Informs
  BY <1>1 DEF Informs, Change, Observe, Handle, Resync, ToBeCleared
<1>2. ASSUME NEW r \in Rebuilds, Swap(r)
      PROVE  \A key \in Keys : ToBeCleared(key)'
  <2>1. rebuild'[r].step = "clearV2"
    BY <1>2 DEF Swap, Swapped, Idle
  <2> QED
    BY <2>1 DEF ToBeCleared
<1>3. ASSUME NEW r \in Rebuilds, rebuild[r].step \in {"idle", "listing"}, snapshot' = snapshot,
             \A q \in Rebuilds \ {r} : rebuild'[q] = rebuild[q]
      PROVE  \A key \in Keys : ToBeCleared(key) => ToBeCleared(key)'
  <2>1. \A key \in Keys, q \in Rebuilds :
          rebuild[q].step \in (IF key = "v1" THEN {"clearV2", "clearV1"} ELSE {"clearV2"}) => q # r
    BY <1>3
  <2> QED
    BY <1>3, <2>1 DEF ToBeCleared
<1>4. ASSUME NEW r \in Rebuilds, TimerFires(r) \/ InitialRebuild(r) \/ (\E k \in Kinds : List(r, k)) \/ ListFails(r)
      PROVE  snapshot' = snapshot /\ \A key \in Keys : ToBeCleared(key) => ToBeCleared(key)'
  <2>1. rebuild[r].step \in {"idle", "listing"}
    BY <1>4 DEF TimerFires, InitialRebuild, Begin, List, ListFails, EngineInv, Listed
  <2>2. snapshot' = snapshot
    BY <1>4 DEF TimerFires, InitialRebuild, List, ListFails
  <2>3. \A q \in Rebuilds \ {r} : rebuild'[q] = rebuild[q]
    BY <1>4 DEF TimerFires, InitialRebuild, Begin, List, ListFails, EngineInv, EngineTypeOK
  <2> QED
    BY <1>3, <2>1, <2>2, <2>3
<1> QED
  BY <1>1, <1>2, <1>4 DEF Collects

LEMMA CachesUnderEngine ==
  ASSUME EngineInv, CacheInv, Informs \/ (\E r \in Rebuilds : Collects(r)), UNCHANGED cvars
  PROVE  CacheInv'
<1>1. CacheTypeOK'
  BY DEF CacheInv, CacheTypeOK, cvars
<1>2. \A q \in Requests : request[q].step = "store" => request[q].key \in Keys
  BY DEF CacheInv, CacheTypeOK
<1>3. CASE snapshot' = snapshot /\ \A key \in Keys : ToBeCleared(key) => ToBeCleared(key)'
  <2>1. StoresFollow'
    BY <1>2, <1>3 DEF CacheInv, StoresFollow, Older, cvars
  <2>2. CacheFollows'
    BY <1>3 DEF CacheInv, CacheFollows, Older, cvars
  <2> QED
    BY <1>1, <2>1, <2>2 DEF CacheInv
<1>4. CASE \A key \in Keys : ToBeCleared(key)'
  BY <1>1, <1>2, <1>4 DEF CacheInv, StoresFollow, CacheFollows, cvars
<1> QED
  BY <1>3, <1>4, EngineAnnounces

\* An invalidation: what is cached under the key is gone, and what is about to be
\* stored there is outrun; the other key is invalidated as before.
LEMMA CachesInvalidated ==
  ASSUME CacheInv, NEW key \in {"v1", "v2"}, Invalidate(key), snapshot' = snapshot,
         \A other \in Keys \ {key} : ToBeCleared(other) => ToBeCleared(other)'
  PROVE  CacheInv'
<1>1. /\ cached \in [Keys -> Graph \cup {None}]
      /\ request \in [Requests -> Request]
      /\ late \in SUBSET Keys
      /\ late' = late \ {key}
      /\ \A q \in Requests : request[q].step = "store" => request[q].key \in Keys
  BY DEF CacheInv, CacheTypeOK, Invalidate
<1>2. \A other \in Keys : cached'[other] = IF other = key THEN None ELSE cached[other]
  BY <1>1 DEF Invalidate
<1>3. ASSUME NEW q \in Requests
      PROVE  /\ request'[q] \in Request
             /\ request'[q].step = request[q].step /\ request'[q].key = request[q].key
             /\ request'[q].graph = request[q].graph
             /\ request[q].outrun => request'[q].outrun
             /\ request[q].step = "store" /\ request[q].key = key => request'[q].outrun
  <2>1. CASE request[q].key = key /\ request[q].step = "store"
    <3>1. request'[q] = [request[q] EXCEPT !.outrun = TRUE]
      BY <2>1 DEF Invalidate
    <3> QED
      BY <1>1, <3>1 DEF Request
  <2>2. CASE ~(request[q].key = key /\ request[q].step = "store")
    <3>1. request'[q] = request[q]
      BY <2>2 DEF Invalidate
    <3> QED
      BY <1>1, <2>2, <3>1
  <2> QED
    BY <2>1, <2>2
<1>4. CacheTypeOK'
  <2>1. cached' \in [Keys -> Graph \cup {None}]
    BY <1>1 DEF Invalidate
  <2>2. request' \in [Requests -> Request]
    <3>1. request' = [q \in Requests |-> request'[q]]
      BY DEF Invalidate
    <3> QED
      BY <1>3, <3>1
  <2> QED
    BY <1>1, <1>3, <2>1, <2>2 DEF CacheInv, CacheTypeOK
<1>5. StoresFollow'
  <2> SUFFICES ASSUME NEW q \in Requests, request[q].step = "store",
                      Older(request[q].graph, snapshot)
               PROVE  request'[q].outrun \/ ToBeCleared(request[q].key)'
    BY <1>3 DEF StoresFollow, Older
  <2>1. request[q].outrun \/ ToBeCleared(request[q].key)
    BY DEF CacheInv, StoresFollow
  <2> QED
    BY <1>1, <1>3, <2>1
<1>6. CacheFollows'
  <2> SUFFICES ASSUME NEW other \in Keys, cached'[other] # None, Older(cached'[other], snapshot)
               PROVE  ToBeCleared(other)' \/ other \in late'
    BY DEF CacheFollows, Older
  <2>1. other # key /\ cached'[other] = cached[other]
    BY <1>2
  <2>2. ToBeCleared(other) \/ other \in late
    BY <2>1 DEF CacheInv, CacheFollows
  <2> QED
    BY <1>1, <2>1, <2>2
<1> QED
  BY <1>4, <1>5, <1>6 DEF CacheInv

LEMMA CachesCleared ==
  ASSUME EngineInv, CacheInv, NEW r \in Rebuilds,
         (ClearV2(r) /\ Invalidate("v2")) \/ (ClearV1(r) /\ Invalidate("v1"))
  PROVE  CacheInv'
<1>1. rebuild \in [Rebuilds -> Rebuild]
  BY DEF EngineInv, EngineTypeOK
<1>2. CASE ClearV2(r) /\ Invalidate("v2")
  <2>1. snapshot' = snapshot
    BY <1>2 DEF ClearV2
  <2>2. rebuild'[r].step = "clearV1" /\ \A q \in Rebuilds \ {r} : rebuild'[q] = rebuild[q]
    BY <1>1, <1>2 DEF ClearV2, Rebuild
  <2>3. ASSUME NEW other \in Keys \ {"v2"}, ToBeCleared(other)
        PROVE  ToBeCleared(other)'
    <3>1. other = "v1"
      BY CacheAssumption DEF CacheAssumption
    <3> QED
      BY <2>2, <2>3, <3>1 DEF ToBeCleared
  <2> QED
    BY <1>2, <2>1, <2>3, CachesInvalidated
<1>3. CASE ClearV1(r) /\ Invalidate("v1")
  <2>1. snapshot' = snapshot
    BY <1>3 DEF ClearV1
  <2>2. rebuild[r].step = "clearV1" /\ \A q \in Rebuilds \ {r} : rebuild'[q] = rebuild[q]
    BY <1>1, <1>3 DEF ClearV1
  <2>3. ASSUME NEW other \in Keys \ {"v1"}, ToBeCleared(other)
        PROVE  ToBeCleared(other)'
    BY <2>2, <2>3 DEF ToBeCleared
  <2> QED
    BY <1>3, <2>1, <2>3, CachesInvalidated
<1> QED
  BY <1>2, <1>3

LEMMA CacheExpires ==
  ASSUME CacheInv, NEW key \in Keys, Expire(key)
  PROVE  CacheInv'
<1>1. /\ UNCHANGED <<evars, request>>
      /\ late' = late \ {key}
      /\ cached' \in [Keys -> Graph \cup {None}]
      /\ \A other \in Keys : cached'[other] = IF other = key THEN None ELSE cached[other]
  BY DEF CacheInv, CacheTypeOK, Expire
<1>2. CacheTypeOK'
  BY <1>1 DEF CacheInv, CacheTypeOK
<1>3. StoresFollow'
  BY <1>1 DEF CacheInv, StoresFollow, Older, ToBeCleared, evars
<1>4. CacheFollows'
  <2> SUFFICES ASSUME NEW other \in Keys, cached'[other] # None, Older(cached'[other], snapshot)
               PROVE  ToBeCleared(other)' \/ other \in late'
    BY <1>1 DEF CacheFollows, Older, evars
  <2>1. other # key /\ cached'[other] = cached[other]
    BY <1>1
  <2>2. ToBeCleared(other) \/ other \in late
    BY <2>1 DEF CacheInv, CacheFollows
  <2>3. ToBeCleared(other)' <=> ToBeCleared(other)
    BY <1>1 DEF ToBeCleared, evars
  <2> QED
    BY <1>1, <2>1, <2>2, <2>3
<1> QED
  BY <1>2, <1>3, <1>4 DEF CacheInv

\* What a request may make of itself: if it is about to store, its graph is not behind
\* the snapshot.
LEMMA RequestTurns ==
  ASSUME CacheInv, NEW r \in Requests, NEW new \in Request,
         request' = [request EXCEPT ![r] = new],
         new.step # "idle" => new.key \in Keys,
         new.step = "store" <=> new.graph # None,
         new.step = "store" => ~Older(new.graph, snapshot),
         UNCHANGED evars
  PROVE  /\ request' \in [Requests -> Request]
         /\ \A q \in Requests : request'[q].step # "idle" => request'[q].key \in Keys
         /\ \A q \in Requests : request'[q].step = "store" <=> request'[q].graph # None
         /\ StoresFollow'
<1>1. /\ request'[r] = new
      /\ \A q \in Requests \ {r} : request'[q] = request[q]
      /\ request' \in [Requests -> Request]
  BY DEF CacheInv, CacheTypeOK
<1>2. StoresFollow'
  <2> SUFFICES ASSUME NEW q \in Requests, request'[q].step = "store",
                      Older(request'[q].graph, snapshot)
               PROVE  request'[q].outrun \/ ToBeCleared(request[q].key)'
    BY <1>1 DEF StoresFollow, Older, evars
  <2>1. q # r /\ request'[q] = request[q]
    BY <1>1
  <2>2. request[q].outrun \/ ToBeCleared(request[q].key)
    BY <2>1 DEF CacheInv, StoresFollow
  <2> QED
    BY <2>1, <2>2 DEF ToBeCleared, evars
<1> QED
  BY <1>1, <1>2 DEF CacheInv, CacheTypeOK

\* As long as nothing is stored, what is cached follows the snapshot as before.
LEMMA EntriesKept ==
  ASSUME CacheInv, UNCHANGED <<evars, cached, late>>
  PROVE  CacheFollows'
<1>1. \A key \in Keys : ToBeCleared(key)' <=> ToBeCleared(key)
  BY DEF ToBeCleared, evars
<1> QED
  BY <1>1 DEF CacheInv, CacheFollows, Older, evars

LEMMA CacheMissed ==
  ASSUME CacheInv, NEW r \in Requests, Miss(r)
  PROVE  CacheInv'
<1>1. PICK key \in Keys :
        request' = [request EXCEPT ![r] = [NoRequest EXCEPT !.step = "build", !.key = key]]
  BY DEF Miss
<1> DEFINE new == [NoRequest EXCEPT !.step = "build", !.key = key]
<1>2. new \in Request /\ new.key = key /\ new.step = "build" /\ new.graph = None
  BY DEF NoRequest, Request
<1>3. UNCHANGED <<evars, cached, late>>
  BY DEF Miss
<1> HIDE DEF new
<1>4. /\ request' \in [Requests -> Request]
      /\ \A q \in Requests : request'[q].step # "idle" => request'[q].key \in Keys
      /\ \A q \in Requests : request'[q].step = "store" <=> request'[q].graph # None
      /\ StoresFollow'
  BY <1>1, <1>2, <1>3, RequestTurns DEF new
<1> QED
  BY <1>3, <1>4, EntriesKept DEF CacheInv, CacheTypeOK

\* A graph is built of what the API server has, which no snapshot is ahead of.
LEMMA CacheBuilt ==
  ASSUME EngineInv, CacheInv, NEW r \in Requests, Build(r)
  PROVE  CacheInv'
<1> DEFINE new == [request[r] EXCEPT !.step = "store", !.graph = api]
<1>1. /\ request \in [Requests -> Request] /\ request[r] \in Request
      /\ request[r].step = "build" /\ request[r].key \in Keys
      /\ request' = [request EXCEPT ![r].step = "store", ![r].graph = api]
      /\ UNCHANGED <<evars, cached, late>>
  BY DEF CacheInv, CacheTypeOK, Build
<1>2. api \in Graph /\ api # None
  BY EngineAssumption, CacheAssumption
     DEF EngineInv, EngineTypeOK, Graph, EngineAssumption, CacheAssumption
<1>3. new \in Request /\ new.step = "store" /\ new.key = request[r].key /\ new.graph = api
  BY <1>1, <1>2 DEF Request
<1>4. ~Older(api, snapshot)
  <2>1. \A k \in Kinds : snapshot[k] \in Nat /\ store[k] \in Nat /\ api[k] \in Nat
                           /\ snapshot[k] <= store[k] /\ store[k] <= api[k]
    BY <1>2 DEF EngineInv, EngineTypeOK, Graph
  <2> QED
    BY <2>1 DEF Older
<1>5. request' = [request EXCEPT ![r] = new]
  BY <1>1
<1> HIDE DEF new
<1>6. /\ request' \in [Requests -> Request]
      /\ \A q \in Requests : request'[q].step # "idle" => request'[q].key \in Keys
      /\ \A q \in Requests : request'[q].step = "store" <=> request'[q].graph # None
      /\ StoresFollow'
  BY <1>1, <1>2, <1>3, <1>4, <1>5, RequestTurns
<1> QED
  BY <1>1, <1>6, EntriesKept DEF CacheInv, CacheTypeOK

LEMMA CacheNotBuilt ==
  ASSUME CacheInv, NEW r \in Requests, BuildFails(r)
  PROVE  CacheInv'
<1>1. NoRequest \in Request /\ NoRequest.step = "idle" /\ NoRequest.graph = None
  BY DEF NoRequest, Request
<1>2. /\ request' \in [Requests -> Request]
      /\ \A q \in Requests : request'[q].step # "idle" => request'[q].key \in Keys
      /\ \A q \in Requests : request'[q].step = "store" <=> request'[q].graph # None
      /\ StoresFollow'
  BY <1>1, RequestTurns DEF BuildFails
<1> QED
  BY <1>2, EntriesKept DEF BuildFails, CacheInv, CacheTypeOK

\* A graph stored late is marked as such; any other follows the snapshot.
LEMMA CacheStored ==
  ASSUME CacheInv, NEW r \in Requests, Store(r)
  PROVE  CacheInv'
<1> DEFINE key == request[r].key
<1>1. /\ cached \in [Keys -> Graph \cup {None}] /\ request[r] \in Request
      /\ request[r].step = "store" /\ key \in Keys
      /\ late \in SUBSET Keys
  BY DEF CacheInv, CacheTypeOK, Store
<1>2. /\ cached' = [cached EXCEPT ![key] = request[r].graph]
      /\ late' = IF request[r].outrun THEN late \cup {key} ELSE late \ {key}
      /\ request' = [request EXCEPT ![r] = NoRequest]
      /\ UNCHANGED evars
  BY DEF Store
<1>3. NoRequest \in Request /\ NoRequest.step = "idle" /\ NoRequest.graph = None
  BY DEF NoRequest, Request
<1>4. /\ request' \in [Requests -> Request]
      /\ \A q \in Requests : request'[q].step # "idle" => request'[q].key \in Keys
      /\ \A q \in Requests : request'[q].step = "store" <=> request'[q].graph # None
      /\ StoresFollow'
  BY <1>2, <1>3, RequestTurns
<1>5. /\ cached' \in [Keys -> Graph \cup {None}]
      /\ cached'[key] = request[r].graph
      /\ \A other \in Keys \ {key} : cached'[other] = cached[other]
  BY <1>1, <1>2 DEF Request
<1>6. late' \in SUBSET Keys
  BY <1>1, <1>2
<1>7. \A other \in Keys : ToBeCleared(other)' <=> ToBeCleared(other)
  BY <1>2 DEF ToBeCleared, evars
<1>8. CacheFollows'
  <2> SUFFICES ASSUME NEW other \in Keys, cached'[other] # None, Older(cached'[other], snapshot)
               PROVE  ToBeCleared(other)' \/ other \in late'
    BY <1>2 DEF CacheFollows, Older, evars
  <2>1. CASE other = key
    <3>1. request[r].outrun \/ ToBeCleared(key)
      BY <1>1, <1>5, <2>1 DEF CacheInv, StoresFollow
    <3> QED
      BY <1>1, <1>2, <1>7, <2>1, <3>1
  <2>2. CASE other # key
    <3>1. ToBeCleared(other) \/ other \in late
      BY <1>5, <2>2 DEF CacheInv, CacheFollows
    <3> QED
      BY <1>2, <1>7, <2>2, <3>1
  <2> QED
    BY <2>1, <2>2
<1> QED
  BY <1>4, <1>5, <1>6, <1>8 DEF CacheInv, CacheTypeOK

-----------------------------------------------------------------------------
(* The engine and the caches together.                                     *)

\* Whatever the caches do, the engine does one of its own steps or none.
LEMMA StepsOfTheEngine ==
  ASSUME [Next]_tvars
  PROVE  [EngineNext]_evars
<1>1. CASE EngineStep
  BY <1>1 DEF EngineStep, EngineNext
<1>2. CASE \E r \in Requests : Handles(r)
  BY <1>2 DEF Handles, Miss, Build, BuildFails, Store
<1>3. CASE \E key \in Keys : Expire(key)
  BY <1>3 DEF Expire
<1>4. CASE UNCHANGED tvars
  BY <1>4 DEF tvars
<1> QED
  BY <1>1, <1>2, <1>3, <1>4 DEF Next

LEMMA CacheStepKeeps ==
  ASSUME EngineInv, CacheInv, [Next]_tvars
  PROVE  CacheInv'
<1>1. CASE EngineStep
  BY <1>1, CachesUnderEngine, CachesCleared DEF EngineStep
<1>2. ASSUME NEW r \in Requests, Handles(r) PROVE CacheInv'
  BY <1>2, CacheMissed, CacheBuilt, CacheNotBuilt, CacheStored DEF Handles
<1>3. ASSUME NEW key \in Keys, Expire(key) PROVE CacheInv'
  BY <1>3, CacheExpires
<1>4. CASE UNCHANGED tvars
  BY <1>4 DEF tvars, evars, cvars, CacheInv, CacheTypeOK, StoresFollow, CacheFollows, Older, ToBeCleared
<1> QED
  BY <1>1, <1>2, <1>3, <1>4 DEF Next

LEMMA CacheInvariant == Spec => [](EngineInv /\ CacheInv)
<1>1. EngineInit /\ CacheInit => EngineInv /\ CacheInv
  BY EngineInitially, CacheInitially
<1>2. EngineInv /\ CacheInv /\ [Next]_tvars => (EngineInv /\ CacheInv)'
  BY StepsOfTheEngine, EngineStepKeeps, CacheStepKeeps
<1> QED
  BY <1>1, <1>2, PTL DEF Spec, Init

\* The engine runs beside its caches as it would alone: they never hold it up, and
\* nothing but its own steps touches its state.
THEOREM EngineRuns == Spec => EngineSpec
<1>1. [Next]_tvars => [EngineNext]_evars
  BY StepsOfTheEngine
<1> QED
  BY <1>1, PTL DEF Spec, Init, EngineSpec

\* Engine, requests and entries keep their types: a request has a graph exactly when
\* it is about to store it.
THEOREM TopologyTypes == Spec => []TypeOK
<1>1. EngineInv /\ CacheInv => TypeOK
  BY DEF EngineInv, CacheInv, TypeOK
<1> QED
  BY <1>1, CacheInvariant, PTL

\* For any number of requests and overlapping rebuilds, an entry behind the snapshot
\* is about to be invalidated or was stored by a request an invalidation has outrun.
THEOREM CachesFollow == Spec => []CacheFollows
<1>1. EngineInv /\ CacheInv => CacheFollows
  BY DEF CacheInv
<1> QED
  BY <1>1, CacheInvariant, PTL

\* The reasons for an entry to lack a change of the cluster are those named: without
\* them the snapshot has the change, and then the entry is behind the snapshot.
THEOREM StalenessExplained == Spec => []StaleHasReason
<1>1. EngineInv /\ CacheInv => StaleHasReason
  <2> SUFFICES ASSUME EngineInv, CacheInv, NEW key \in Keys, NEW k \in Kinds,
                      cached[key] # None, cached[key][k] < api[k]
               PROVE  \/ store[k] < api[k] \/ told[k] < store[k] \/ dirtyTimer \/ ~synced
                      \/ \E r \in Rebuilds : WillHave(r, k)
                      \/ ToBeCleared(key)
                      \/ k \in excused
                      \/ key \in late
    BY DEF StaleHasReason
  <2>1. /\ api[k] \in Nat /\ store[k] \in Nat /\ snapshot[k] \in Nat
        /\ store[k] <= api[k] /\ snapshot[k] <= store[k]
    BY EngineAssumption DEF EngineInv, EngineTypeOK, Graph, EngineAssumption
  <2>2. CASE k \in Behind
    BY <2>2 DEF EngineInv, NoLostChange
  <2>3. CASE k \notin Behind /\ ~(store[k] < api[k])
    <3>1. snapshot[k] = api[k]
      BY <2>1, <2>3 DEF Behind
    <3>2. Older(cached[key], snapshot)
      BY <3>1 DEF Older
    <3> QED
      BY <3>2 DEF CacheInv, CacheFollows
  <2> QED
    BY <2>2, <2>3
<1> QED
  BY <1>1, CacheInvariant, PTL
===============================================================================
