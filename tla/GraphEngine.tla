------------------------------ MODULE GraphEngine ------------------------------
(***************************************************************************)
(* The dependency graph the backend keeps of a cluster                     *)
(* (internal/graph/engine.go).  Informers, one per kind of resource, call  *)
(* markDirty for each event; two seconds after the last event a timer      *)
(* starts rebuild in a goroutine of its own, which lists the informers'    *)
(* stores one after another, swaps the new snapshot in and calls           *)
(* onRebuild, which invalidates two caches of topologies.                  *)
(*                                                                         *)
(* Nothing keeps two rebuilds apart.  What a graph contains of a kind is   *)
(* the number of changes of that kind it reflects, 0 being nothing at all. *)
(***************************************************************************)
EXTENDS Naturals, FiniteSets

CONSTANTS
  Kinds,      \* kinds of resources, each with an informer
  Rebuilds,   \* goroutines that execute rebuild
  MaxChanges, \* bound on the changes of each kind
  MaxFailures \* bound on failing lists

ASSUME EngineAssumption ==
  /\ MaxChanges \in Nat \ {0}
  /\ MaxFailures \in Nat

VARIABLES
  api,        \* the resources as the API server has them
  store,      \* the informers' stores
  told,       \* the changes for which the informers have called markDirty
  synced,     \* WaitForCacheSync has returned
  dirtyTimer, \* the debounce timer is armed
  rebuild,    \* per goroutine: its step, what it has listed, what is left to
              \* list, and (history) whether another one has swapped meanwhile
  snapshot,   \* the snapshot served
  failures,   \* how many lists have failed
  excused     \* history: kinds the snapshot lacks a change of because a list
              \* failed or an older rebuild was the last to swap

evars == <<api, store, told, synced, dirtyTimer, rebuild, snapshot, failures, excused>>

Graph == [Kinds -> Nat]

Nothing == [k \in Kinds |-> 0]

\* A rebuild's last steps are the two calls of onRebuild.
Rebuild ==
  [step : {"idle", "listing", "clearV2", "clearV1"}, seen : Graph, left : SUBSET Kinds, crossed : BOOLEAN]

Idle == [step |-> "idle", seen |-> Nothing, left |-> {}, crossed |-> FALSE]

EngineTypeOK ==
  /\ api \in [Kinds -> 1..MaxChanges]
  /\ store \in Graph
  /\ told \in Graph
  /\ synced \in BOOLEAN
  /\ dirtyTimer \in BOOLEAN
  /\ rebuild \in [Rebuilds -> Rebuild]
  /\ snapshot \in Graph
  /\ failures \in 0..MaxFailures
  /\ excused \in SUBSET Kinds
  /\ \A k \in Kinds : told[k] <= store[k] /\ store[k] <= api[k] /\ snapshot[k] <= store[k]

EngineInit ==
  /\ api = [k \in Kinds |-> 1]
  /\ store = Nothing
  /\ told = Nothing
  /\ synced = FALSE
  /\ dirtyTimer = FALSE
  /\ rebuild = [r \in Rebuilds |-> Idle]
  /\ snapshot = Nothing
  /\ failures = 0
  /\ excused = {}

-----------------------------------------------------------------------------
(* The cluster and its informers.                                          *)

Change(k) ==
  /\ api[k] < MaxChanges
  /\ api' = [api EXCEPT ![k] = @ + 1]
  /\ UNCHANGED <<store, told, synced, dirtyTimer, rebuild, snapshot, failures, excused>>

\* An informer updates its store first and calls its handlers later.
Observe(k) ==
  /\ store[k] < api[k]
  /\ store' = [store EXCEPT ![k] = @ + 1]
  /\ excused' = excused \ {k}
  /\ UNCHANGED <<api, told, synced, dirtyTimer, rebuild, snapshot, failures>>

\* Faulty variant: no timer is armed while a rebuild runs.
MarkDirtyOnce == dirtyTimer' = (dirtyTimer \/ \A r \in Rebuilds : rebuild[r].step = "idle")

\* markDirty stops the timer that is armed and arms another.
MarkDirty == dirtyTimer' = TRUE

Handle(k) ==
  /\ told[k] < store[k]
  /\ told' = [told EXCEPT ![k] = @ + 1]
  /\ MarkDirty
  /\ UNCHANGED <<api, store, synced, rebuild, snapshot, failures, excused>>

\* Faulty variant: informers without a resync period.
NoResync ==
  /\ synced
  /\ ~dirtyTimer
  /\ UNCHANGED evars

\* Every five minutes the informers announce every object again; the first lists
\* are long complete by then.
Resync ==
  /\ synced
  /\ ~dirtyTimer
  /\ MarkDirty
  /\ UNCHANGED <<api, store, told, synced, rebuild, snapshot, failures, excused>>

-----------------------------------------------------------------------------
(* rebuild.                                                                *)

Begin(r) ==
  /\ rebuild[r].step = "idle"
  /\ rebuild' = [rebuild EXCEPT ![r] = [Idle EXCEPT !.step = "listing", !.left = Kinds]]

TimerFires(r) ==
  /\ dirtyTimer
  /\ Begin(r)
  /\ dirtyTimer' = FALSE
  /\ UNCHANGED <<api, store, told, synced, snapshot, failures, excused>>

\* The goroutine of Start, once every store holds its first list.
InitialRebuild(r) ==
  /\ ~synced
  /\ \A k \in Kinds : store[k] > 0
  /\ Begin(r)
  /\ synced' = TRUE
  /\ UNCHANGED <<api, store, told, dirtyTimer, snapshot, failures, excused>>

\* collectResources goes through the kinds; their order is left open.
List(r, k) ==
  /\ k \in rebuild[r].left
  /\ rebuild' = [rebuild EXCEPT ![r].seen[k] = store[k], ![r].left = @ \ {k}]
  /\ UNCHANGED <<api, store, told, synced, dirtyTimer, snapshot, failures, excused>>

Behind == {k \in Kinds : snapshot[k] < store[k]}

\* Faulty variant: collectResources goes on without what it could not list.
ListErrorIgnored(r) ==
  /\ rebuild[r].left # {}
  /\ failures < MaxFailures
  /\ failures' = failures + 1
  /\ rebuild' = [rebuild EXCEPT ![r].left = {}]
  /\ UNCHANGED <<api, store, told, synced, dirtyTimer, snapshot, excused>>

\* collectResources returns nil: nothing is swapped, and nothing tries again.
ListFails(r) ==
  /\ rebuild[r].left # {}
  /\ failures < MaxFailures
  /\ failures' = failures + 1
  /\ excused' = excused \cup Behind
  /\ rebuild' = [rebuild EXCEPT ![r] = Idle]
  /\ UNCHANGED <<api, store, told, synced, dirtyTimer, snapshot>>

\* Goroutine r goes on; those that are listing are crossed by its swap.
Swapped(r) ==
  [q \in Rebuilds |->
     CASE q = r -> [Idle EXCEPT !.step = "clearV2"]
       [] q # r /\ rebuild[q].step = "listing" -> [rebuild[q] EXCEPT !.crossed = TRUE]
       [] OTHER -> rebuild[q]]

Swap(r) ==
  /\ rebuild[r].step = "listing"
  /\ rebuild[r].left = {}
  /\ snapshot' = rebuild[r].seen
  /\ excused' = excused \cup {k \in Kinds : rebuild[r].seen[k] < snapshot[k]}
  /\ rebuild' = Swapped(r)
  /\ UNCHANGED <<api, store, told, synced, dirtyTimer, failures>>

\* onRebuild: TopologyCacheInvalidateForCluster, then InvalidateForCluster.
ClearV2(r) ==
  /\ rebuild[r].step = "clearV2"
  /\ rebuild' = [rebuild EXCEPT ![r].step = "clearV1"]
  /\ UNCHANGED <<api, store, told, synced, dirtyTimer, snapshot, failures, excused>>

ClearV1(r) ==
  /\ rebuild[r].step = "clearV1"
  /\ rebuild' = [rebuild EXCEPT ![r] = Idle]
  /\ UNCHANGED <<api, store, told, synced, dirtyTimer, snapshot, failures, excused>>

-----------------------------------------------------------------------------

Collects(r) ==
  \/ TimerFires(r)
  \/ InitialRebuild(r)
  \/ \E k \in Kinds : List(r, k)
  \/ ListFails(r)
  \/ Swap(r)

Informs == (\E k \in Kinds : Change(k) \/ Observe(k) \/ Handle(k)) \/ Resync

EngineNext == Informs \/ \E r \in Rebuilds : Collects(r) \/ ClearV2(r) \/ ClearV1(r)

\* Watches deliver, goroutines run, and two seconds without an event come: the
\* cluster's changes are bounded, and resyncs are minutes apart.
EngineFairness ==
  /\ \A k \in Kinds : WF_evars(Observe(k)) /\ WF_evars(Handle(k))
  /\ WF_evars(Resync)
  /\ WF_evars(\E r \in Rebuilds : TimerFires(r))
  /\ WF_evars(\E r \in Rebuilds : InitialRebuild(r))
  /\ \A r \in Rebuilds :
       /\ \A k \in Kinds : WF_evars(List(r, k))
       /\ WF_evars(Swap(r))
       /\ WF_evars(ClearV2(r))
       /\ WF_evars(ClearV1(r))

EngineSpec == EngineInit /\ [][EngineNext]_evars /\ EngineFairness

-----------------------------------------------------------------------------

\* Goroutine r will swap in a graph that has all the changes of kind k.
WillHave(r, k) ==
  /\ rebuild[r].step = "listing"
  /\ k \in rebuild[r].left \/ rebuild[r].seen[k] = store[k]

\* A change an informer has in its store is in the snapshot, or on its way there:
\* its event is to be handled yet, the timer or the initial rebuild is to come, or
\* a rebuild has listed it.  If not, a list has failed since, or an older rebuild
\* was the last to swap: the debounce does not lose changes by itself, although
\* timers are stopped, replaced and fire while rebuilds run.
NoLostChange ==
  \A k \in Behind :
    \/ told[k] < store[k]
    \/ dirtyTimer
    \/ ~synced
    \/ \E r \in Rebuilds : WillHave(r, k)
    \/ k \in excused

\* A snapshot is replaced by one that lacks a change it had only by a rebuild
\* during which another rebuild has swapped.
BackOnlyWhenCrossed ==
  [][\A r \in Rebuilds : Swap(r) /\ ~rebuild[r].crossed => \A k \in Kinds : snapshot[k] <= snapshot'[k]]_evars
===============================================================================
