----------------------------- MODULE TopologyCache -----------------------------
(***************************************************************************)
(* The two caches of topologies beside the graph engine of a cluster: that *)
(* of the topology service (internal/pkg/topologycache, used by            *)
(* GetTopologyWithClient) and that of the handlers (topologyCache in       *)
(* internal/api/rest/handler.go).  A request that finds nothing cached     *)
(* builds a graph from the API server and stores it afterwards; the        *)
(* engine's onRebuild invalidates both caches; entries expire after half a *)
(* minute.                                                                 *)
(*                                                                         *)
(* One key of each cache is modelled, "v1" of the service and "v2" of the  *)
(* handlers.  What matters of a graph is which changes it reflects.        *)
(***************************************************************************)
EXTENDS GraphEngine

CONSTANTS
  Keys,     \* the keys that are asked for
  Requests, \* concurrent requests for a topology
  None

ASSUME CacheAssumption ==
  /\ Keys \subseteq {"v1", "v2"}
  /\ None \notin [Kinds -> Nat]

VARIABLES
  cached,  \* per key: the graph cached and not expired
  request, \* per request that has missed: its step, the key, the graph it has
           \* built, and (history) whether its key was invalidated since then
  late     \* history: the keys whose graph was stored by such a request

cvars == <<cached, request, late>>
tvars == <<evars, cvars>>

Request ==
  [step : {"idle", "build", "store"}, key : Keys \cup {None}, graph : Graph \cup {None}, outrun : BOOLEAN]

NoRequest == [step |-> "idle", key |-> None, graph |-> None, outrun |-> FALSE]

CacheTypeOK ==
  /\ cached \in [Keys -> Graph \cup {None}]
  /\ request \in [Requests -> Request]
  /\ \A r \in Requests : request[r].step # "idle" => request[r].key \in Keys
  /\ \A r \in Requests : request[r].step = "store" <=> request[r].graph # None
  /\ late \in SUBSET Keys

TypeOK == EngineTypeOK /\ CacheTypeOK

CacheInit ==
  /\ cached = [key \in Keys |-> None]
  /\ request = [r \in Requests |-> NoRequest]
  /\ late = {}

Init == EngineInit /\ CacheInit

-----------------------------------------------------------------------------
(* The handlers.                                                           *)

\* A request that finds its key cached is answered and changes nothing; one with
\* force_refresh does not look.
Miss(r) ==
  /\ request[r].step = "idle"
  /\ \E key \in Keys, force \in BOOLEAN :
       /\ force => key = "v1"
       /\ force \/ cached[key] = None
       /\ request' = [request EXCEPT ![r] = [NoRequest EXCEPT !.step = "build", !.key = key]]
  /\ UNCHANGED <<evars, cached, late>>

\* BuildGraph and BuildTopology list from the API server.
Build(r) ==
  /\ request[r].step = "build"
  /\ request' = [request EXCEPT ![r].step = "store", ![r].graph = api]
  /\ UNCHANGED <<evars, cached, late>>

\* Faulty variant: the error is not looked at.
BuildErrorIgnored(r) ==
  /\ request[r].step = "build"
  /\ request' = [request EXCEPT ![r].step = "store"]
  /\ UNCHANGED <<evars, cached, late>>

BuildFails(r) ==
  /\ request[r].step = "build"
  /\ request' = [request EXCEPT ![r] = NoRequest]
  /\ UNCHANGED <<evars, cached, late>>

\* Set and topologyCacheSet store whatever they are given.
Store(r) ==
  /\ request[r].step = "store"
  /\ LET key == request[r].key IN
     /\ cached' = [cached EXCEPT ![key] = request[r].graph]
     /\ late' = IF request[r].outrun THEN late \cup {key} ELSE late \ {key}
  /\ request' = [request EXCEPT ![r] = NoRequest]
  /\ UNCHANGED evars

Handles(r) == Miss(r) \/ Build(r) \/ BuildFails(r) \/ Store(r)

-----------------------------------------------------------------------------
(* Entries go.                                                             *)

\* Get and topologyCacheGet do not return an entry after its time.
Expire(key) ==
  /\ cached[key] # None
  /\ cached' = [cached EXCEPT ![key] = None]
  /\ late' = late \ {key}
  /\ UNCHANGED <<evars, request>>

\* Faulty variant: the callback leaves out the cache of the handlers.
InvalidateService(key) ==
  /\ cached' = [cached EXCEPT !["v1"] = IF key = "v1" THEN None ELSE @]
  /\ UNCHANGED <<request, late>>

\* The loops of TopologyCacheInvalidateForCluster and InvalidateForCluster.
Invalidate(key) ==
  /\ cached' = [cached EXCEPT ![key] = None]
  /\ late' = late \ {key}
  /\ request' = [r \in Requests |->
       IF request[r].key = key /\ request[r].step = "store" THEN [request[r] EXCEPT !.outrun = TRUE]
       ELSE request[r]]

EngineStep ==
  \/ Informs /\ UNCHANGED cvars
  \/ \E r \in Rebuilds :
       \/ Collects(r) /\ UNCHANGED cvars
       \/ ClearV2(r) /\ Invalidate("v2")
       \/ ClearV1(r) /\ Invalidate("v1")

Next ==
  \/ EngineStep
  \/ \E r \in Requests : Handles(r)
  \/ \E key \in Keys : Expire(key)

\* Requests come to an end, and time passes.
CacheFairness ==
  /\ \A r \in Requests : WF_tvars(Build(r) \/ BuildFails(r)) /\ WF_tvars(Store(r))
  /\ \A key \in Keys : WF_tvars(Expire(key))

Spec == Init /\ [][Next]_tvars /\ EngineFairness /\ CacheFairness

-----------------------------------------------------------------------------

Older(g, h) == \E k \in Kinds : g[k] < h[k]

\* An invalidation of the key is to come from a rebuild that has swapped.
ToBeCleared(key) ==
  \E r \in Rebuilds : rebuild[r].step \in (IF key = "v1" THEN {"clearV2", "clearV1"} ELSE {"clearV2"})

\* A cached graph that lacks something the engine's snapshot has is about to be
\* invalidated, or was stored by a request that an invalidation has outrun.
CacheFollows ==
  \A key \in Keys :
    cached[key] # None /\ Older(cached[key], snapshot) => ToBeCleared(key) \/ key \in late

\* A cached graph that lacks a change of the cluster's has a reason to: the watch has
\* not brought the change yet, the engine is going to rebuild or to invalidate, a
\* list failed or an older rebuild swapped last, or the graph was stored late, which
\* no invalidation undoes (blast_radius.go:163-166 would have it fresh).
StaleHasReason ==
  \A key \in Keys, k \in Kinds :
    cached[key] # None /\ cached[key][k] < api[k] =>
      \/ store[k] < api[k] \/ told[k] < store[k] \/ dirtyTimer \/ ~synced
      \/ \E r \in Rebuilds : WillHave(r, k)
      \/ ToBeCleared(key)
      \/ k \in excused
      \/ key \in late

\* Once the cluster has stopped changing, the engine's snapshot and whatever is cached
\* come to hold nothing but its present state: the snapshot owes it to the informers'
\* resync, however lists failed and rebuilds overtook each other, and the caches to
\* their entries' expiry, however late a request stores.
Settles ==
  <>[](snapshot = api /\ \A key \in Keys : cached[key] \in {None, api})
===============================================================================
