--------------------------- MODULE ClusterSessions ---------------------------
(***************************************************************************)
(* The live session the backend keeps for one registered cluster: the      *)
(* client in clusterService.clients, the informers of the OverviewCache    *)
(* and the row of the clusters table (internal/service/cluster_service.go, *)
(* internal/service/overview_cache.go).                                    *)
(*                                                                         *)
(* HTTP requests run concurrently: each is a sequence of steps that are    *)
(* atomic because of clusterService.mu, OverviewCache.mu or the database,  *)
(* with calls to the cluster's API in between.  The three parts of the     *)
(* session are written under three different locks.                        *)
(***************************************************************************)
EXTENDS Naturals

CONSTANTS
  Requests,  \* requests about this cluster in progress at a time (a bound)
  NoRequest,
  Clients,   \* the Kubernetes clients in use at a time
  Foreign,   \* those of them that are built from ~/.kube/config
  NoClient

Operations == {"none", "poll", "reconnect", "lazy", "add", "remove"}
Steps == {"idle", "build", "test", "info", "stop", "store", "start", "reread", "save",
          "ensure", "queued", "joined", "served", "failed", "delete", "forget", "stopall"}

VARIABLES
  row,       \* clusters.status, "absent" when there is no row
  pool,      \* clients[id]
  informers, \* the client of overviewCache.informers[id]
  negative,  \* reconnectFailCache holds a recent failure
  flight,    \* the request that leads reconnectSF, if any
  op,        \* per request: what it was sent for
  pc,        \* per request: its next step
  mine,      \* per request: its local variable "client"
  file,      \* the stored kubeconfig is there and parses
  up,        \* the cluster's API answers and no caller gives up
  solo,      \* history: the request that has run without another since it began
  raced      \* history: the row was deleted while another request was past reading it

session == <<row, pool, informers, negative>>
locals  == <<op, pc, mine>>
vars    == <<session, flight, locals, file, up, solo, raced>>

\* Every client somebody still holds, and room for one more of either origin.
Holders == Requests \cup {"pool", "informers"}
ASSUME ClientsAssumption ==
  /\ Requests # {} /\ NoRequest \notin Requests
  /\ "pool" \notin Requests /\ "informers" \notin Requests
  /\ NoClient \notin Clients
  /\ Foreign \subseteq Clients
  /\ \A held \in [Holders -> Clients \cup {NoClient}] :
       \A r \in Requests : held[r] = NoClient =>
         /\ \E g \in Foreign : \A x \in Holders : held[x] # g
         /\ \E g \in Clients \ Foreign : \A x \in Holders : held[x] # g

TypeOK ==
  /\ row \in {"absent", "connected", "unavailable"}
  /\ pool \in Clients \cup {NoClient}
  /\ informers \in Clients \cup {NoClient}
  /\ negative \in BOOLEAN
  /\ flight \in Requests \cup {NoRequest}
  /\ op \in [Requests -> Operations]
  /\ pc \in [Requests -> Steps]
  /\ mine \in [Requests -> Clients \cup {NoClient}]
  /\ file \in BOOLEAN
  /\ up \in BOOLEAN
  /\ solo \in Requests \cup {NoRequest}
  /\ raced \in BOOLEAN
  \* a request that stores a client or starts informers for one has one
  /\ \A r \in Requests : pc[r] \in {"stop", "store", "start", "ensure"} => mine[r] # NoClient

-----------------------------------------------------------------------------
Free(g) == pool # g /\ informers # g /\ \A q \in Requests : mine[q] # g

\* k8s.NewClient: a client that nobody holds yet.
NewClient(origins) == CHOOSE g \in origins : Free(g)

\* The client's API calls succeed now; the cluster behind ~/.kube/config is another.
Reaches(r)  == mine[r] \in Foreign \/ up
Misses(r)   == mine[r] \in Foreign \/ ~up

\* UPDATE clusters SET status = ... WHERE id = ?
Saved(status) == row' = IF row = "absent" THEN "absent" ELSE status

\* The same with its error ignored: the update is made with the request's context, and
\* is lost when that has ended, as it has where a deadline made the call before fail.
Update(status) == Saved(status) \/ (~up /\ UNCHANGED row)

\* StartClusterCache does nothing where informers are already running.
StartClusterCache(g) == informers' = IF informers = NoClient THEN g ELSE informers

Alone(r) == \A q \in Requests \ {r} : pc[q] = "idle"

\* Request r arrives and takes its first step.
Begin(r, what, step, client) ==
  /\ pc[r] = "idle"
  /\ op' = [op EXCEPT ![r] = what]
  /\ pc' = [pc EXCEPT ![r] = step]
  /\ mine' = [mine EXCEPT ![r] = client]
  /\ solo' = IF Alone(r) THEN r ELSE NoRequest
  /\ UNCHANGED <<session, flight, file, up, raced>>

\* Request r goes on with another step, or has returned.
Goto(r, step) ==
  /\ pc' = [pc EXCEPT ![r] = step]
  /\ UNCHANGED <<op, mine, flight, file, up, solo, raced>>

Return(r) ==
  /\ op' = [op EXCEPT ![r] = "none"]
  /\ pc' = [pc EXCEPT ![r] = "idle"]
  /\ mine' = [mine EXCEPT ![r] = NoClient]
  /\ solo' = IF solo = r THEN NoRequest ELSE solo
  /\ UNCHANGED <<flight, file, up, raced>>

\* ReconnectCluster returns, to the handler of POST /reconnect or, when it was
\* called by the leader of the flight, to GetOrReconnectClient.
ReconnectReturns(r, result) ==
  IF op[r] = "lazy" THEN Goto(r, result) ELSE Return(r)

-----------------------------------------------------------------------------
(* GetCluster and one cluster of ListClusters.                             *)

Poll(r) ==
  /\ row # "absent"
  /\ IF pool = NoClient THEN Begin(r, "poll", "build", NoClient)
                        ELSE Begin(r, "poll", "info", pool)

\* A timeout, or the circuit breaker of this client is open.
InfoFails(r) ==
  /\ pc[r] = "info"
  /\ Update("unavailable")
  /\ Return(r)
  /\ UNCHANGED <<pool, informers, negative>>

InfoArrives(r) ==
  /\ pc[r] = "info"
  /\ Reaches(r)
  /\ Goto(r, "save")
  /\ UNCHANGED session

\* tryReconnectCluster without a client: the stored kubeconfig or, when its file is
\* gone, ~/.kube/config.
BuildForPoll(r) ==
  /\ pc[r] = "build"
  /\ op[r] = "poll"
  /\ mine' = [mine EXCEPT ![r] = NewClient(IF file THEN Clients \ Foreign ELSE Foreign)]
  /\ pc' = [pc EXCEPT ![r] = "test"]
  /\ UNCHANGED <<session, flight, op, file, up, solo, raced>>

\* No client can be built, and GetCluster does not save the status it returns.
CannotBuildForPoll(r) ==
  /\ pc[r] = "build"
  /\ op[r] = "poll"
  /\ ~file
  /\ Return(r)
  /\ UNCHANGED session

\* The client that a tryReconnectCluster left in the pool, or another by now.
Reread(r) ==
  /\ pc[r] = "reread"
  /\ pool # NoClient
  /\ mine' = [mine EXCEPT ![r] = pool]
  /\ pc' = [pc EXCEPT ![r] = "save"]
  /\ UNCHANGED <<session, flight, op, file, up, solo, raced>>

RereadFindsNone(r) ==
  /\ pc[r] = "reread"
  /\ pool = NoClient
  /\ Return(r)
  /\ UNCHANGED session

\* ListClusters, unlike GetCluster, makes sure that informers run.
EnsureCache(r) ==
  /\ pc[r] = "ensure"
  /\ StartClusterCache(mine[r])
  /\ Return(r)
  /\ UNCHANGED <<row, pool, negative>>

-----------------------------------------------------------------------------
(* ReconnectCluster and GetOrReconnectClient, which calls it.              *)

Reconnect(r) ==
  /\ row # "absent"
  /\ Begin(r, "reconnect", "build", NoClient)

\* Neither a client nor a recent failure.  With a client in the pool, or a failure
\* in the negative cache, the request is answered at once and changes nothing.
LazyMiss(r) ==
  /\ pool = NoClient
  /\ ~negative
  /\ Begin(r, "lazy", "queued", NoClient)

\* reconnectSF.Do: the leader looks again for a client before it reconnects.
LeadFlight(r) ==
  /\ pc[r] = "queued"
  /\ flight = NoRequest
  /\ flight' = r
  /\ pc' = [pc EXCEPT ![r] = IF pool # NoClient THEN "served"
                             ELSE IF row = "absent" THEN "failed" ELSE "build"]
  /\ UNCHANGED <<session, op, mine, file, up, solo, raced>>

JoinFlight(r) ==
  /\ pc[r] = "queued"
  /\ flight # NoRequest
  /\ Goto(r, "joined")
  /\ UNCHANGED session

\* Faulty variant: the flight ends only when the reconnect succeeded.
FlightKept(r) ==
  /\ pc[r] \in {"served", "failed"}
  /\ flight' = IF pc[r] = "served" THEN NoRequest ELSE flight
  /\ negative' = (negative \/ pc[r] = "failed")
  /\ LET done == {q \in Requests : q = r \/ pc[q] = "joined"} IN
       /\ op' = [q \in Requests |-> IF q \in done THEN "none" ELSE op[q]]
       /\ pc' = [q \in Requests |-> IF q \in done THEN "idle" ELSE pc[q]]
       /\ mine' = [q \in Requests |-> IF q \in done THEN NoClient ELSE mine[q]]
       /\ solo' = IF solo \in done THEN NoRequest ELSE solo
  /\ UNCHANGED <<row, pool, informers, file, up, raced>>

\* The flight lands: everybody who joined it returns with its leader.
FlightLands(r) ==
  /\ pc[r] \in {"served", "failed"}
  /\ flight' = NoRequest
  /\ negative' = (negative \/ pc[r] = "failed")
  /\ LET done == {q \in Requests : q = r \/ pc[q] = "joined"} IN
       /\ op' = [q \in Requests |-> IF q \in done THEN "none" ELSE op[q]]
       /\ pc' = [q \in Requests |-> IF q \in done THEN "idle" ELSE pc[q]]
       /\ mine' = [q \in Requests |-> IF q \in done THEN NoClient ELSE mine[q]]
       /\ solo' = IF solo \in done THEN NoRequest ELSE solo
  /\ UNCHANGED <<row, pool, informers, file, up, raced>>

\* Faulty variant: the missing kubeconfig is noticed, and forgotten.
BuildUnchecked(r) ==
  /\ pc[r] = "build"
  /\ op[r] \in {"reconnect", "lazy"}
  /\ mine' = [mine EXCEPT ![r] = IF file THEN NewClient(Clients \ Foreign) ELSE NoClient]
  /\ pc' = [pc EXCEPT ![r] = "test"]
  /\ UNCHANGED <<session, flight, op, file, up, solo, raced>>

\* Only the stored kubeconfig will do here.
BuildStrictly(r) ==
  /\ pc[r] = "build"
  /\ op[r] \in {"reconnect", "lazy"}
  /\ file
  /\ mine' = [mine EXCEPT ![r] = NewClient(Clients \ Foreign)]
  /\ pc' = [pc EXCEPT ![r] = "test"]
  /\ UNCHANGED <<session, flight, op, file, up, solo, raced>>

\* A file that cannot be read, unlike one that is missing or malformed, is not saved.
CannotBuild(r) ==
  /\ pc[r] = "build"
  /\ op[r] \in {"reconnect", "lazy"}
  /\ ~file
  /\ Update("unavailable") \/ UNCHANGED row
  /\ ReconnectReturns(r, "failed")
  /\ UNCHANGED <<pool, informers, negative>>

-----------------------------------------------------------------------------
(* TestConnection and what each operation does after it.                   *)

TestSucceeds(r) ==
  /\ pc[r] = "test"
  /\ Reaches(r)
  /\ Goto(r, CASE op[r] = "poll" -> "store"
               [] op[r] = "add"  -> "save"
               [] OTHER          -> "stop")
  /\ UNCHANGED session

\* tryReconnectCluster leaves the row alone, the others save the failure.
TestFails(r) ==
  /\ pc[r] = "test"
  /\ Misses(r)
  /\ IF op[r] = "poll" THEN UNCHANGED row ELSE Update("unavailable")
  /\ ReconnectReturns(r, "failed")
  /\ UNCHANGED <<pool, informers, negative>>

\* ReconnectCluster: StopClusterCache before the client is replaced.
StopCache(r) ==
  /\ pc[r] = "stop"
  /\ informers' = NoClient
  /\ Goto(r, "store")
  /\ UNCHANGED <<row, pool, negative>>

\* Faulty variant: a reconnect does not start informers for its client.
StoreWithoutStart(r) ==
  /\ pc[r] = "store"
  /\ pool' = mine[r]
  /\ Goto(r, IF op[r] \in {"reconnect", "lazy"} THEN "save" ELSE "start")
  /\ UNCHANGED <<row, informers, negative>>

StoreClient(r) ==
  /\ pc[r] = "store"
  /\ pool' = mine[r]
  /\ Goto(r, "start")
  /\ UNCHANGED <<row, informers, negative>>

\* ReconnectCluster clears the negative cache next.
StartCache(r) ==
  /\ pc[r] = "start"
  /\ StartClusterCache(mine[r])
  /\ negative' = (negative /\ op[r] \in {"poll", "add"})
  /\ CASE op[r] = "poll" -> Goto(r, "reread")
       [] op[r] = "add"  -> Return(r)
       [] OTHER          -> Goto(r, "save")
  /\ UNCHANGED <<row, pool>>

\* Faulty variant: the row is inserted where the update finds none.
SaveUpserts(r) ==
  /\ pc[r] = "save"
  /\ row' = "connected"
  /\ CASE op[r] = "poll" -> Return(r) \/ Goto(r, "ensure")
       [] op[r] = "add"  -> Goto(r, "store")
       [] OTHER          -> ReconnectReturns(r, "served")
  /\ UNCHANGED <<pool, informers, negative>>

\* GetCluster and ReconnectCluster are done then, ListClusters and AddCluster not.
SaveConnected(r) ==
  /\ pc[r] = "save"
  /\ IF op[r] = "add" THEN Saved("connected") ELSE Update("connected")
  /\ CASE op[r] = "poll" -> Return(r) \/ Goto(r, "ensure")
       [] op[r] = "add"  -> Goto(r, "store")
       [] OTHER          -> ReconnectReturns(r, "served")
  /\ UNCHANGED <<pool, informers, negative>>

\* AddCluster alone looks at the error of its update.
CannotSave(r) ==
  /\ pc[r] = "save"
  /\ op[r] = "add"
  /\ ~up
  /\ Return(r)
  /\ UNCHANGED session

-----------------------------------------------------------------------------
(* AddCluster for a cluster that is registered already, and RemoveCluster. *)

Add(r) ==
  /\ row # "absent"
  /\ file
  /\ Begin(r, "add", "test", NewClient(Clients \ Foreign))

Remove(r) ==
  /\ row # "absent"
  /\ Begin(r, "remove", "delete", NoClient)

DeleteRow(r) ==
  /\ pc[r] = "delete"
  /\ row' = "absent"
  /\ raced' = (raced \/ \E q \in Requests \ {r} :
                           pc[q] \notin {"idle", "queued", "joined", "delete", "forget", "stopall"})
  /\ pc' = [pc EXCEPT ![r] = "forget"]
  /\ UNCHANGED <<pool, informers, negative, flight, op, mine, file, up, solo>>

\* Faulty variant: the informers of a removed cluster run on.
ForgetOnly(r) ==
  /\ pc[r] = "forget"
  /\ pool' = NoClient
  /\ Return(r)
  /\ UNCHANGED <<row, informers, negative>>

ForgetClient(r) ==
  /\ pc[r] = "forget"
  /\ pool' = NoClient
  /\ Goto(r, "stopall")
  /\ UNCHANGED <<row, informers, negative>>

StopAll(r) ==
  /\ pc[r] = "stopall"
  /\ informers' = NoClient
  /\ Return(r)
  /\ UNCHANGED <<row, pool, negative>>

-----------------------------------------------------------------------------
(* The environment and the process.                                        *)

NegativeExpires ==
  /\ negative
  /\ negative' = FALSE
  /\ UNCHANGED <<row, pool, informers, flight, locals, file, up, solo, raced>>

ReachabilityChanges ==
  /\ up' = ~up
  /\ UNCHANGED <<session, flight, locals, file, solo, raced>>

KubeconfigChanges ==
  /\ file' = ~file
  /\ UNCHANGED <<session, flight, locals, up, solo, raced>>

\* The backend crashes and starts again: LoadClustersFromRepo is over before the
\* first request is served.
Restart ==
  /\ LET loads == row # "absent" /\ file /\ up
         client == IF loads THEN CHOOSE g \in Clients \ Foreign : TRUE ELSE NoClient IN
       /\ pool' = client
       /\ informers' = client
       /\ Saved(IF loads THEN "connected" ELSE "unavailable")
  /\ negative' = FALSE
  /\ flight' = NoRequest
  /\ op' = [r \in Requests |-> "none"]
  /\ pc' = [r \in Requests |-> "idle"]
  /\ mine' = [r \in Requests |-> NoClient]
  /\ solo' = NoRequest
  /\ raced' = FALSE
  /\ UNCHANGED <<file, up>>

\* A registered cluster that LoadClustersFromRepo could not reach.
Init ==
  /\ row = "unavailable"
  /\ pool = NoClient
  /\ informers = NoClient
  /\ negative = FALSE
  /\ flight = NoRequest
  /\ op = [r \in Requests |-> "none"]
  /\ pc = [r \in Requests |-> "idle"]
  /\ mine = [r \in Requests |-> NoClient]
  /\ file = TRUE
  /\ up \in BOOLEAN
  /\ solo = NoRequest
  /\ raced = FALSE

Arrive(r) == Poll(r) \/ Reconnect(r) \/ Add(r) \/ Remove(r)

Step(r) ==
  \/ InfoFails(r) \/ InfoArrives(r)
  \/ BuildForPoll(r) \/ CannotBuildForPoll(r)
  \/ Reread(r) \/ RereadFindsNone(r) \/ EnsureCache(r)
  \/ LeadFlight(r) \/ JoinFlight(r) \/ FlightLands(r)
  \/ BuildStrictly(r) \/ CannotBuild(r)
  \/ TestSucceeds(r) \/ TestFails(r)
  \/ StopCache(r) \/ StoreClient(r) \/ StartCache(r)
  \/ SaveConnected(r) \/ CannotSave(r)
  \/ DeleteRow(r) \/ ForgetClient(r) \/ StopAll(r)

Next ==
  \/ \E r \in Requests : Arrive(r) \/ LazyMiss(r) \/ Step(r)
  \/ NegativeExpires
  \/ ReachabilityChanges
  \/ KubeconfigChanges
  \/ Restart

Spec == Init /\ [][Next]_vars

\* Requests are served, failures expire after ten seconds, and the pages that
\* users look at keep asking for the cluster's resources.
FairSpec ==
  /\ Spec
  /\ WF_vars(NegativeExpires)
  /\ \A r \in Requests : WF_vars(Step(r)) /\ WF_vars(LazyMiss(r))

-----------------------------------------------------------------------------
(* Properties.                                                             *)

\* While the cluster is registered, a client without informers is one whose
\* informers somebody is about to start, and informers never run without a client.
SessionComplete ==
  row # "absent" =>
    /\ pool # NoClient /\ informers = NoClient =>
         \E r \in Requests : pc[r] \in {"store", "start"}
    /\ informers # NoClient => pool # NoClient

\* One lazy reconnect runs at a time, and it is the one that everybody who joined it
\* waits for (cluster_service.go:96-101): also when it failed, when its cluster was
\* removed under it, or when another operation filled the pool meanwhile.
OneReconnect ==
  /\ \A r \in Requests : op[r] = "lazy" /\ pc[r] \notin {"queued", "joined"} => flight = r
  /\ \A r \in Requests : pc[r] = "joined" => flight # NoRequest
  /\ flight # NoRequest => op[flight] = "lazy" /\ pc[flight] \notin {"queued", "joined"}

\* The late save of a request never brings back the row of a removed cluster.
NoResurrection == [][row = "absent" => row' = "absent"]_vars

\* A reconnect that had the cluster for itself replaces the informers together with
\* the client, whatever mismatch earlier requests had left (cluster_service.go:916).
ReconnectRepairs ==
  \A r \in Requests :
    op[r] = "reconnect" /\ pc[r] = "save" /\ solo = r =>
      pool = mine[r] /\ informers = mine[r]

\* Only a request that had read the row before it was deleted can leave a client or
\* informers of a removed cluster behind.
RemovalClean ==
  row = "absent" /\ ~raced /\ (\A r \in Requests : op[r] # "remove") =>
    pool = NoClient /\ informers = NoClient

\* A registered cluster that stays reachable has a client for good, in spite of the
\* negative cache, of flights that failed and of restarts.
ClientEventually ==
  <>[](up /\ file) => <>[](row = "absent" \/ pool # NoClient)

\* Pool, informers and row, written under three locks, are one session that is
\* offline, live, being changed by a request that will finish, or removed.
Life == INSTANCE SessionLife WITH
  phase <- IF row = "absent" THEN "removed"
           ELSE IF pool = NoClient THEN "offline"
           ELSE IF informers = NoClient THEN "changing" ELSE "live",
  busy  <- {r \in Requests : pc[r] \in {"store", "start"}}

\* A client that has been stored is never lost by requests, and is without informers
\* only while a request is at work that will start them.
ImplementsLife == Life!Spec

\* A client in the pool is one for the registered cluster (cluster_service.go:868).
IdentityKept == pool \notin Foreign
=============================================================================
