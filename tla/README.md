# TLA+ models of Kubilitics

Kubilitics is an operations platform for Kubernetes: a Go backend ("the hub") that holds
live sessions with many clusters, an agent that runs inside remote clusters, an AI server
("brain"), a command-line client, a desktop shell and a web frontend. This directory holds
TLA+ models of the parts of it in which ordering, concurrency and failure decide whether the
system is right, TLC configurations that check them on small instances, and proofs, checked
by TLAPS, of what holds for every instance.

Paths below are relative to the repository's `src/` unless they name a file of this
directory. `backend/` stands for `kubilitics-backend/`, `agent/` for `kubilitics-agent/`,
`fe/` for `kubilitics-frontend/src/`.

## 1. Inventory

| Part | State | Operations | Interacts with | Hard behaviour |
|---|---|---|---|---|
| Agent process (`agent/cmd`, `agent/internal`) | credentials in memory and in a Secret, place in the recovery loop | load or register, save, heartbeat, refresh, delete and start over | hub by HTTP, its twin of a rolling update through the Secret | time-outs, restarts, two pods at once, restored Secrets |
| Hub's agent registration (`backend/internal/api/rest/agent_*.go`, `repository/agent_repo.go`) | `bootstrap_tokens`, `agent_clusters`, `agent_credentials` | mint, register, refresh, heartbeat | agents | handlers of several SQL statements without a transaction |
| Circuit breaker (`backend/internal/k8s/circuit_breaker.go`) | state, failure count, probe count, time of last failure | `Execute`, `Reset` | every call to a cluster's API, reconnects | the call runs outside the lock; late results |
| Cluster session service (`backend/internal/service/cluster_service.go`) | pool of clients, negative cache, singleflight, row of `clusters` | get, list, add, remove, reconnect, lazy reconnect, load at start | breaker, overview cache, database, handlers, kubeconfig watcher | three locks, API calls in between, cancelled callers, restarts |
| Overview cache (`backend/internal/service/overview_cache.go`) | informers, counters and listeners per cluster | start, stop, event, subscribe, notify | session service, SSE handlers | stop and start racing with events, closed channels |
| WebSocket hub (`backend/internal/api/websocket`) | clients, three channels | register, unregister, broadcast, stop | browsers, event sources, topology cache | slow clients, queued messages sent as one, shutdown with blocked pumps |
| Addon lifecycle (`backend/internal/addon/lifecycle`, `service/addon_service_impl.go`) | status of each install, Helm releases | install, upgrade, roll back, uninstall, roll out | Helm, health monitor, upgrade checker | background monitor writing the same status, failed steps |
| Kubeconfig watcher (`backend/internal/kubeconfigwatch`) | registered clusters against a file's contexts | snapshot, partition, capped delete | session service | repeated syncs, file rewritten while read |
| Autopilot (`backend/internal/autopilot`) | findings, actions, rule configuration | scan, decide, gate, approve, execute | cluster API | duplicate actions, cooldown, approval after the state changed |
| Graph engine (`backend/internal/graph/engine.go`) | informers' stores, debounce timer, snapshot | start, mark dirty, rebuild, stop | cluster API, the caches of topologies, blast-radius handlers | overlapping rebuilds, failing lists, debounce starvation |
| Topology caches (`backend/internal/pkg/topologycache`, `topologyCache*` in `api/rest/handler.go`) | graphs with TTL per cluster, namespace and view | get, set, invalidate | the engine's `onRebuild`, topology handlers | builds that outlast an invalidation, shared graphs and keys |
| Resilient handlers (`backend/internal/api/resilient`) | last good answers | wrap, classify | REST handlers | stale answers |
| Events, topology, scanner, reports, fleet, users, AI proxy (`backend/internal/...`) | SQL tables | collect, transform, report | cluster API, brain | mostly sequential data transformation |
| Shell terminal tab (`fe/components/shell/ShellSession.tsx`) | a WebSocket and the refs around it, retry timer, reported status, terminal buffer; polls of the kubeconfig's namespace | open, close, switch cluster, reconnect, retry, poll, type | hub's shell endpoint, namespace filter of all pages, backend circuit | late events of closed sockets, effects whose cleanups undo their callers, polls that outlive their tab |
| Live updates (`fe/hooks/useBackendWebSocket.ts`, `useResourceLiveUpdates.ts`) | a WebSocket, retry timer, batch of kinds to invalidate | connect, retry, receive, flush | hub's broadcasts, the cached lists of every page | closures of an earlier render, sockets that close late |
| Assistant chat (`fe/hooks/useChatController.ts`, `services/ai/chatClient.ts`, `stores/chatStore.ts`) | a client per active cluster; transcript, session and past chats per cluster | send, answer, new chat, restore, switch cluster | hub's chat endpoint, brain | two awaits in `sendMessage`, frames without a turn, shared connection state |
| Rest of the frontend | caches of the hub's answers, persisted settings | render, poll | hub | mostly rendering |
| Brain, CLI, trace agent, desktop shell | their own | their own | hub | separate programs, see `PROJECT.json` |

What makes each of the first parts correct:

* **Agent trust.** A bootstrap token is exchanged once. A re-registration revokes what was
  issued before, and a revoked credential stays revoked. A heartbeat moves the row of the
  sender's own cluster only. An agent that runs gets back to working credentials.
* **Circuit breaker.** It opens after the threshold and not before, lets a bounded number of
  probes out, and never stops serving a cluster that answers.
* **Cluster sessions.** Client, informers and row agree; a removed cluster leaves nothing
  behind and does not come back; the client under an id is one for that cluster; a cluster
  that is reachable gets its client back.
* **Graph engine and caches.** A change that an informer has told of gets into the snapshot; the
  snapshot does not go back; what is cached is no older than the snapshot.
* **Terminal tab.** It has one line, to the cluster it is shown for; its status and its screen
  are those of that line; a line that is lost is tried again; once filter and kubeconfig agree,
  only the user changes either.
* **Live updates.** The hook never gives up, has one connection, and every announced change
  reaches the lists of the cluster shown. (The second and the third hold with exceptions, see the
  defects in section 3.)
* **Chat.** One conversation at a time; a turn streams only while its answer can still come;
  new chats and restored ones copy and lose none, and a switch of the cluster drops present chats
  whole or not at all.

`PROJECT.json` lists every hazard at its line with the properties that would catch it.

## 2. Modules

| Module | Models | Used by |
|---|---|---|
| `CredentialLedger` | what the hub promises about credentials, abstractly | implemented by `AgentTrust` |
| `AgentTrust` | agent pods, the hub's handlers and tables | `MCAgentTrust` (TLC instances), `AgentTrustProofs` |
| `CircuitBreaker` | one client's breaker and its concurrent callers | checked directly, `CircuitBreakerProofs` |
| `SessionLife` | what the backend promises about one cluster's session, abstractly | implemented by `ClusterSessions` |
| `ClusterSessions` | the session of one registered cluster under concurrent requests | checked directly, `ClusterSessionsProofs` |
| `GraphEngine` | a cluster's informers and rebuilds | composed with the caches in `TopologyCache` |
| `TopologyCache` | the two caches of topologies beside the engine | checked directly, `TopologyCacheProofs` (theorems about both) |
| `TerminalLink` | what a terminal tab promises, abstractly | implemented by `ShellConnection` |
| `ShellConnection` | a terminal tab's connection to the hub | checked directly, `ShellConnectionProofs` |
| `ShellNamespace` | the agreement of namespace filter and kubeconfig | checked directly, `ShellNamespaceProofs` |
| `LiveUpdates` | the resource WebSocket and the invalidations it brings about | checked directly, `LiveUpdatesProofs` |
| `Chat` | the chat's clients, calls and transcripts | checked directly, `ChatProofs` |

In every module a definition whose comment begins with *Faulty variant* is not part of the
specification: it is the definition after it with a plausible bug put in, kept so that each
property can be seen to fail for a faulty program (`PROJECT.json`, "mutants").

### AgentTrust

A pod (`Agents`) is at one of the places of `agent/cmd/agent/main.go`: `boot` (bootstrap.Run),
`regwait` and `hbwait` (waiting for an answer), `saving`, `beating`, `refreshing`, `clearing`.
Pods with the same cluster UID share a Secret, as the two pods of the chart's rolling update
do. A request handler (`Handlers`) runs the statements of `agent_register.go` and
`agent_heartbeat.go` one action at a time: `UpsertCluster`, `RereadCluster`,
`MarkBootstrapTokenUsed`, `InsertAgentCredential`; `UpdateClusterHeartbeat`;
`MarkClusterSuperseded`. The checks a handler makes before its first write are one action
with the arrival of the request (`ProofAccepted`, `Verdict`); the insert and the answer are
one, since nothing reads the new row before the agent has its token. Refreshing writes only
`last_used_at` and is one action.

A credential is a row of `agent_credentials` together with the access token issued with it:
cluster, epoch, and (history only) the proof it was bought with. An access token is fresh or
expired (`mfresh`, `sfresh`); the refreshed one is kept in memory only, as in `loop.go:61`.

Faults, at most `MaxFaults` of them: a handler dies between two statements, an agent stops
waiting, a pod restarts, Save, Delete, Load, Refresh or the hub's update of the status fails,
a Secret is restored into another cluster. `ExpiredCode` is what the hub answers an expired
access token with: the code's value is `access_invalid`; `access_expired`, which the design
document promises, shows what else would hold if it were sent.

`CredentialLedger` is the abstract specification: an admin mints tokens, a token buys one
credential at an epoch its cluster has reached, epochs only grow, and a cluster's status is
reported by bearers of its credentials. The mapping is the tables themselves, with the used and
expired tokens counted as minted: `MarkBootstrapTokenUsed` is a stutter and the exchange happens
at the insert. `TokenSingleUse`, `CredentialBehindRow` and `StaleForever` say one by one what the
ledger promises, and `RotationOutdates` when it is rotated; they are proved (section 4).

### CircuitBreaker

The two critical sections of `Execute` are the actions `CallClosed`, `FirstProbe`,
`FurtherProbe`, `FailFast` and `RetryableError`, `NonRetryableError`, `Success`. Any number of
calls run between them. Time is one Boolean, whether `openDuration` has passed since the last
counted failure. `probing` is a history variable: the running calls that were admitted in the
present half-open period. `failureCount` stops at the threshold, above which the code does not
distinguish values. `Reset` is the reconnect's. `spoiled` is a history variable too: a probe
of the present half-open period was answered with a permanent error, the case in which the
breaker gets stuck and which `HalfOpenIsProbing` and `ServedAgain` except (section 3, defects).

### ClusterSessions

One registered cluster. A request has an operation (`op`) and a next step (`pc`); each step is
one critical section of `clusterService.mu` or `OverviewCache.mu`, one statement on the
database, or one call to the cluster. `poll` is `GetCluster` or the cluster's share of
`ListClusters`; `lazy` is `GetOrReconnectClient`, with the singleflight group as `flight`;
`reconnect` is the explicit `ReconnectCluster`; `add` is `AddCluster` for a cluster that is
registered already; `remove` is `RemoveCluster`. Clients are numbered and reused when nobody
holds them; those in `Foreign` are built from `~/.kube/config`.

A request saves its result with its own context, so that where the deadline made the API call
fail the save is lost too and only `AddCluster` notices (`Update`, `CannotSave`). `Restart` is
a crash followed by `LoadClustersFromRepo`, which is over before requests are served
(`backend/cmd/server/main.go:413`). `solo` and `raced` are history variables for properties
that hold only without company.

`SessionLife` is the abstract specification: a session is offline, changing (a client nobody
watches the cluster with), live or removed; requests undertake to have the cluster watched, and
only a removal or a crash takes a session away. The mapping reads the phase off row, pool and
informers, and the undertakings off the requests that are about to store a client or to start
informers.

### GraphEngine and TopologyCache

`GraphEngine` has an informer per kind of resource. A cluster's resources of a kind are the
number of changes they have seen (`api`), which the informer's store has got up to (`store`) and
has called `markDirty` for (`told`), in this order. `dirtyTimer` is the debounce timer; when it
fires, or once when the stores hold their first lists, a goroutine of `Rebuilds` executes
`rebuild`: it lists the stores kind by kind, swaps the snapshot and calls the two invalidations of
`onRebuild` (`ClearV2`, `ClearV1`). Nothing in the code keeps two such goroutines apart, so they
interleave freely. `crossed` and `excused` are history variables: another rebuild has swapped
since this one began; the kinds of which the snapshot lacks a change because a list failed or an
older rebuild swapped last.

`TopologyCache` extends it with one key of the topology service's cache and one of the handlers'
cache, and with requests that miss (`Miss`, also for `force_refresh`, which the service alone
reads), build from the API server (`Build`, `BuildFails`) and store (`Store`). The engine's step
and the invalidation it calls are one action (`EngineStep`). A graph that was built before an
invalidation of its key and stored after it is in `late`, a history variable. A build is one
reading of the API; in the code it lists one kind after another, and a graph that has a kind's
later state is only fresher than the model's.

### The frontend's modules

JavaScript runs one task at a time, so one action is one task: a click with the rendering it
brings about, an event of a socket, a timer, the continuation of an await. What interleaves
are the tasks. A WebSocket object goes from connecting to open, is closed by either side, and
delivers its close event later; a closed socket's identity is reused.

**ShellConnection.** `RunEffect` is the connection effect with the cleanup of its last run
(`ShellSession.tsx:467-487`) before the next one (`330-400`); opening the panel, switching the
cluster and clicking Reconnect render it at once, the retry timer a task later
(`EffectReruns`). The handlers' guard, that session and socket are the current ones, is
`s = wsRef`. `TerminalLink` is the abstract specification: a line that is off, idle, being
tried or attached, to the cluster shown and no other, and tried again whenever it is lost.
The refinement mapping reads the line off `wsRef`, the sockets and the timer.

**ShellNamespace.** Every poll of the hub (`syncShellState`) is a timer, a request or an answer
on its way; a loop re-arms itself, and a poll scheduled by typing does not. A poll that is
waiting for an answer cannot be cancelled. Its answer is applied (`ApplyShellState`) to filter
and status, or, when the tab that asked is gone, to the filter alone. The filter is in a store
that renders at once, the status in a state of React that renders later, so that in between the
namespace effect sees the new filter beside the old status and types the namespace just read
(`ShellSession.tsx:142-146`, `507-514`). `overtaken` is a history variable: an effect was cleaned
up while its loop was waiting.

**LiveUpdates.** `Switch`, `TimerFires` and `TabVisible` are the three callers of `connect`;
`Closed` is the close event of any socket, current or not, as in the code. `Changes` is
`BroadcastResourceEvent` of the backend's hub with the empty cluster its one caller passes; a
message then reaches every client. `Received` handles one, `ReceivedUntyped` one whose resource has no
type (the hub sends none, the hook handles it all the same), and `ReceivedJoined` the frame
into which `WritePump` joins what was queued. `flush` is the armed timer of a batch and `flushRef`
whether `flushTimer.current` is set: a flush with nothing to flush leaves it so. `owed` and
`excuse` are history variables that follow one announced change to its invalidation, `untyped`
one that says whether a message without a type has come.

**Chat.** A call of `sendMessage` is divided at its two awaits: `SendMessage` or `SendOpens`,
`Opened`, `SessionCreated`. The ends of sockets are `Dropped` and `LateClose`, the brain's
answers `Ends`, `StreamRefused`, `StreamBreaks` and `BrainRespawned`. `Switch` is the
controller's effect with or without the store's listener for cluster switches (`DropChats`,
`chatStore.ts:423-436`), which forgets the present chats and sessions of all clusters: it is
registered and tested, but nothing outside the tests calls its emitter. `lost` and `placed`
are history variables: the turns whose answer was cut off, and the turns begun for each cluster
without those of dropped chats.

## 3. What the runs check

| Run | Bounds | Result |
|---|---|---|
| `agent_trust` | rolling update of two pods with one token, the hub's own pod, 2 handlers, 2 faults, symmetry among twins and handlers | 4 properties hold, one of them the refinement of `CredentialLedger`, about 2 million states |
| `agent_refresh` | one twin and the hub's own pod, 1 fault, `ExpiredCode = "access_expired"`, fairness | `KeepsAccess` holds, 69 000 states |
| `agent_replay` | two twins, no fault | `StaleOnlyWhenReplaced` violated |
| `agent_expiry` | the hub's own pod, no fault, the code's `access_invalid` | `KeepsAccess` violated |
| `breaker` | 3 callers, threshold 5, 2 probes, all outcomes, fairness | 4 properties hold, 37 000 states |
| `sessions` | 2 concurrent requests, 8 clients, fairness | 5 properties hold, one of them the refinement of `SessionLife`, about 730 000 states |
| `sessions_identity` | the same | `IdentityKept` violated |
| `shell_link` | 2 clusters, 3 sockets, 5 attempts, fairness | 6 properties hold, one of them the refinement of `TerminalLink`, 23 000 states |
| `shell_namespace` | 2 clusters, 2 namespaces, 3 polls, a tab shown twice, 2 picks, 1 command not yet run | 3 properties hold, 1.2 million states |
| `live_updates` | 2 clusters, 3 sockets, 3 switches, 2 messages waiting per socket, fairness | 5 properties hold, 212 000 states |
| `chat` | 2 clusters, 2 clients, 2 calls, 2 turns, 1 past chat kept, 2 new or restored chats, 2 switches, fairness | 5 properties hold, 333 000 states |
| `topology` | 1 kind, 2 changes, 2 rebuilds, 1 failing list, 1 request, a key of each cache, fairness | 6 properties hold, 321 000 states |

**Bounds.** Each hazard of the registration involves two pods or two handlers of one cluster,
and the restored Secret a second cluster; two faults are enough to lose both of two twins'
answers or to crash and then fail to save. Three callers allow one late call from a closed
period, one from an earlier half-open period and a present probe. Two requests are every pair
of operations; the proofs cover any number. Eight clients are one more of either origin than
two requests, the pool and the informers can hold (`ClientsAssumption`).
Two rebuilds are what it takes to cross, and a third would find one of them idle; two changes are
the first list and one event; one failing list takes either rebuild away. A second kind or a
second request multiplies the states beyond what a run of minutes explores; what distinguishes
them is proved for any number of kinds, rebuilds and requests.
Three sockets are the current one, one that is closing and one more closing behind it; a tab
that needs a fourth waits for a close event. Five attempts are the code's own limit; no state
with more than one is reachable, which is one of the defects below. Three polls are the loop,
the poll scheduled by typing and one that outlived its tab. Three switches of the cluster let a
leaked connection meet two later clusters; the proofs cover any number. Two messages are enough
for one to overtake the other's answer, and two waiting updates for a frame that joins them. Two
picks are one that brings an agreement about and one during it, or two commands in a row. Where a run lets a bound on user actions be exhausted
(`ShellNamespace.cfg`, `Chat.cfg`), deadlock is not checked; the hook of `LiveUpdates` and the
tab of `ShellConnection` are checked for it.

**Symmetry** is used in `agent_trust` only; its temporal properties are action properties that
treat the permuted pods and handlers alike, and no run with fairness uses it.

**Fairness.** Agents and handlers are processes that keep running: weak fairness of each. An
access token's hour passes: weak fairness of `AccessExpires`. Heartbeats are strongly fair:
they are 30 seconds apart, so the token of one hour does not expire each time between a
refresh and the next heartbeat. Nothing makes an admin mint tokens or faults occur. The
breaker's callers call again and their calls return (`withTimeout`), and openDuration passes.
In `ClusterSessions` requests are served, the ten seconds of the negative cache pass, and
pages keep asking for the cluster's resources (`LazyMiss`); no user is assumed to reconnect,
poll, add or remove. `ClientEventually` assumes that the API answers and the kubeconfig is
there from some point on. In the browser timers fire, renderings happen, handshakes end and
close events arrive: weak fairness of each. Requests to the hub succeed or fail.
`ShellNamespace` is checked for safety only and needs no fairness. The brain answers a message whose stream stays up. In
`GraphEngine` watches deliver, a list that runs ends or fails, two seconds without an event come
(changes are bounded there, see the defects), and the informers resync every five minutes
(`engine.go:65`); in `TopologyCache` builds end and entries
expire. No user is assumed to do anything, and a tab need not become visible.

### Disagreements between the code and its documentation

1. `agent_replay`: a replay of a bootstrap token bumps the epoch before it loses, so the
   winner's credential can be dead on arrival (`agent_register.go:160-179`).
2. `agent_expiry`: the hub never sends the code the agent refreshes on
   (`agent_heartbeat.go:56`, `loop.go:58`).
3. `sessions_identity`: a GET falls back to `~/.kube/config`, which the comment in
   `ReconnectCluster` calls a data-integrity bug (`cluster_service.go:795`, `867-872`).

### Defects the models had to take over

No run refutes these: they are in the models as the code has them, and the properties hold around
them, with a history variable that names the exception.

1. A retry of the terminal rerenders the effect, whose cleanup sets `intentionalCloseRef` and
   forgets the attempts (`ShellSession.tsx:467-474`). One retry that fails therefore leaves the
   tab idle without a message; five attempts and "Connection lost" (line 456) are unreachable.
   `TerminalLink!Fail` allows it, and `ImplementsLink` shows that a lost line is tried once.
2. A poll in flight at a cleanup re-arms its loop (`ShellSession.tsx:525`), so that a tab that
   was switched goes on polling the cluster before and setting the filter to its namespace.
   `OneLoop` excepts the case with `overtaken`.
3. `onclose` of a socket that a switch closed clears `wsRef` of its successor and arms a retry
   (`useBackendWebSocket.ts:90-91`, `126`): each switch leaves one more connection behind, which
   is the bound of `LeaksBounded`.
4. A batch is flushed for the cluster under which its timer was armed
   (`useResourceLiveUpdates.ts:157`) and takes updates of the cluster shown since with it; one
   of the three cases in which `excuse` is set, beside a connection that ends before a message is
   handled and defect 12.
5. After a switch during one of its awaits `sendMessage` sends over another cluster's client
   (`useChatController.ts:83`), and an answer ends whichever turn is last (`chatStore.ts:157`).
   Both are among the reasons of `StreamingHasReason`.
6. Any client's error state disables the input (`ChatPanel.tsx:150`) and only sending reopens a
   connection, although `docs/superpowers/specs/2026-04-19-chat-panel-ui-design.md:336` plans
   automatic retries.
7. A half-open probe that is answered with a permanent error, such as 403 or 404, only resets the
   failure count (`circuit_breaker.go:147-150`): the quota stays used up, every later call is
   refused although the API has answered, and only a reconnect's `Reset` ends it, whereas line 28
   says that the circuit opens for 30 seconds. `HalfOpenIsProbing` and `ServedAgain` except it
   with `spoiled`.
8. A request that missed builds without a lock or a version and stores afterwards
   (`topology_service.go:134-149`, `handler.go:1476-1546`). If a rebuild invalidates in between,
   the old graph is stored after the invalidation and served until it expires, although
   `blast_radius.go:163-166` says that the invalidation makes the next request get fresh data.
   `CacheFollows` and `StaleHasReason` except it with `late`.
9. A rebuild whose list fails ends without another try (`engine.go:157-161`), and of two that
   overlap the older may swap last: `NoLostChange` excepts both with `excused`, and
   `BackOnlyWhenCrossed` the second with `crossed`. What is lost stays so until the next event or
   resync, which is what `Settles` rests on.
10. The answer of a poll makes the terminal type the namespace it has just read, since the filter
   is rendered before the status (`ShellSession.tsx:142-146`, `507-514`). The command schedules
   another poll, and while two answers with different namespaces are on their way each may undo the
   other's filter, type and poll again, so that nothing makes the tab settle. No property says
   that it does; `AgreementLasts` says that an agreement, once reached and with nothing contrary
   on its way, is ended by the user only.
11. A `resource_update` whose resource has no type arms the batch's timer without adding to the
   batch (`useResourceLiveUpdates.ts:141`, `157`); the flush returns before it clears
   `flushTimer.current` (line 108), and no later update is ever flushed. The backend's hub always
   sets the type. `NoLostUpdate` and `UpdatesArrive` except it with `Stuck`.
12. `WritePump` writes messages that are queued together into one frame, a newline between two
   (`client.go:164-169`); the browser parses the frame as one JSON value and drops all of them
   with a warning (`useBackendWebSocket.ts:80-88`). `excuse` is set.
13. The store's listener drops the chats of all clusters on a switch (`chatStore.ts:423-436`, tested
   in `clusterSwitch.integration.test.ts:105`), but nothing outside the tests calls
   `emitClusterSwitch`, so that at this commit a switch keeps them. `Chat` has both steps, and
   `TurnsKept` takes dropped turns out of the account: no part of a chat is dropped.
14. A pod with a restored Secret has the row of the original cluster marked superseded
   (`agent_heartbeat.go:83-87` marks the row of the credential, not the sender's), and only a later
   accepted heartbeat of the original agent makes it active again. Once that agent's access token has
   expired, its heartbeats are refused with `access_invalid` for ever (disagreement 2) and the row
   stays superseded. No property says that it recovers.

Read in the same code and outside the models, which abstract what graphs contain and have one
engine: `GetTopology` filters the cached graph in place (`handler.go:1357-1359`, the pointer comes
from `cache.go:43-60`); `GetTopologyV2` with `mode=resource` and depth 0 stores a filtered graph
under the key that `GetResourceTopology` and `GetCriticality` take for the full one
(`handler.go:1466`, `1771`, `1911`), and the mark of the central node is written into a map that
requests share (`handler.go:1818`); the start-up goroutine writes the map of engines without the
handlers' lock and may replace a running engine (`cmd/server/main.go:554`); an engine keeps the
clientset it was started with; each event puts a rebuild off by two more seconds without a limit
(`engine.go:148`); and nothing calls the WebSocket hub's broadcasts (`BroadcastResourceEvent` is called
by `SetupInformerHandlers` only, `handler.go:212-229`, which is called by nobody), so that only an
external caller of them would feed `LiveUpdates`.

## 4. What is proved

All theorems are about the specification with arbitrary constants that satisfy the module's
named assumption.

* **AgentTrustProofs** (from `ConfigAssumption`). `TypeCorrect` needs `WaitInv`: a pod waits
  for a handler exactly while that handler works on its kind of request; without it an answer
  could move a pod from any place. `CredentialsBehind`, `RotationIsRevocation` and
  `StaleStaysStale` rest on the epochs a handler carries never exceeding the row's: only
  `UpsertCluster` changes an epoch and it increments it. `SingleUse` strengthens "one
  credential per token" with "a token some handler has marked, or that bought a credential, is
  used, and at most one handler holds it marked". `HeartbeatsFromOwners` carries the verdict,
  which is reached when the request arrives, to the update. `TokensBurntByFaults`: only a handler
  that dies takes a marked token with it. `HubKeepsLedger` is a refinement, proved statement by
  statement: it needs that what a handler checked before its first write still entitles it when it
  inserts (`Vetted`: the proof was minted, or is the service account's and the cluster the hub's
  own; who writes a status has shown a credential of that cluster), which is inductive because
  nothing is unminted and no credential deleted, and `SingleUseInv` for "not spent yet".
* **CircuitBreakerProofs** (from `BreakerAssumption`). The inductive invariant ties the number
  of probes out to `halfOpenCallCount`, which only transitions reset. `ProbeIsOut`: a half-open
  breaker has a probe out unless one of the period got a permanent error. `ClosedTolerates`: a
  closed breaker is below the threshold.
* **ClusterSessionsProofs** (from `ClientsAssumption`). `HoldInv` says which steps hold a
  client, so that a new one can always be found. `SessionsComplete` needs `PoolInv`: only a
  removal empties the pool, after it has deleted the row, so every request past storing finds
  it filled. `ReconnectsRepair` is a case analysis of the steps of one request while all
  others are idle. `RemovalsClean` needs that nobody past reading the row was there when it
  was deleted. `RemovedStaysRemoved` follows from each step alone. `ReconnectsCoalesced`
  (`FlightInv`): one request leads the singleflight, it is named by `flight`, and others wait only
  while there is one. `SessionsImplementLife` maps each step to a step of `SessionLife` or a
  stutter; the lemmas about the mapping say how `phase` and `busy` change when one request moves,
  and `SessionComplete` and `PoolInv` exclude the states the abstract session does not have.
* **TopologyCacheProofs** (from `EngineAssumption` and `CacheAssumption`). `EngineInv` adds
  `Listed` to the types and `NoLostChange`: what a rebuild has listed is no more than the store, and
  it holds nothing of a kind it has not listed and everything it listed of a kind unchanged since.
  `ChangesReachSnapshot` then has to show, for each step, that one reason hands over to the next:
  the event to the timer, the timer to the rebuild, the rebuild to the snapshot. `NeverBackAlone`
  needs that a rebuild nobody crossed has listed at least what the snapshot has. `EngineRuns` shows
  that the composition implements `GraphEngine`, its fairness included, so that these hold beside
  any requests. `CachesFollow` needs `StoresFollow`: a request about to store a graph older than
  the snapshot has been outrun or is about to be. `StalenessExplained` composes it with
  `ChangesReachSnapshot`: an entry that is not behind the snapshot is behind the cluster for the
  snapshot's reasons.
* **ShellConnectionProofs** (from `ShellAssumption`). `ShellInv` adds to the invariants that a
  current socket and an armed timer have a cleanup that would end them (`Covered`), that a line
  that is up will be retried, with all its attempts left (`Retryable`), and that only output
  makes the tab connected (`Heard`). `TabImplementsLink` maps every step to one of
  `TerminalLink` or a stutter; that a lost line becomes one being tried is `Retryable`.
* **ShellNamespaceProofs** (from `NamespaceAssumption`). `OneLoop` counts loops: only mounting
  starts one. It needs that the two timer refs name armed timers of the mounted tab
  (`RefsHold`), so that clearing them clears a loop and not something else. `AgreementsLast` goes
  through the steps from an agreement: wherever the namespace effect runs, filter and status are
  equal and it types nothing, a poll that is scheduled is one of the cluster shown
  (`AgreedSchedules`), and what a poll reads is its kubeconfig's namespace (`AgreedKeeps`).
* **LiveUpdatesProofs** (from `LiveAssumption`). `ConnectionNeverGivenUp` and `LeaksAreBounded`
  rest on `Retrying`: a shown cluster without a current socket has a retry in the ref, so that a
  reconnection by hand replaces one instead of adding one. `UpdatesKept` rests on `Batch`: a
  batch has its timer, and the ref is set without a timer only after an update without a type.
* **ChatProofs** (from `ChatAssumption`). `StreamingIsExplained` needs that the current client is
  the active cluster's and not being closed (`Current`), that calls under way leave room for
  their turns (`Waiting`), and that past chats that end in a streaming turn were stranded
  (`PastStranded`), since one may be restored.
  `ChatsKeepTurns` keeps an account per cluster
  (`Accounted`): all chats are of turns placed there, no two share one, the list of past chats is
  no longer than the number of chats begun, and until it is cut the chats have every turn placed;
  a switch that drops the present chats takes their turns out of both sides (`ChatsDropped`).
  A new chat and a restored one are two cases of one lemma, `ChatReplaced`.

Proved and not checked by a run of their own, since a checked property implies them:
`TokenSingleUse`, `CredentialBehindRow` and `StaleForever` (by `KeepsLedger`), `NoResurrection`
(by `ImplementsLife`); and, proved only, `RotationOutdates` (the ledger does not know when a
cluster must be rotated), `ClosedBelowThreshold`, `ReconnectRepairs` and `OneReconnect`.

Only model-checked: the liveness properties (`KeepsAccess`, `ServedAgain`,
`ClientEventually`, `AttemptSucceeds`, `UpdatesArrive`, `TurnsEnd`, `Settles`), since TLAPS does not reason about fairness here. Every invariant and every
action property that a run checks is proved, and so are the three refinements.

## 5. What is not modelled, and why

* Agent trust: the hub's rate limiter, `last_used_at`, the one-year expiry of refresh tokens,
  several organisations, and `BumpClusterEpoch` and `RevokeAgentCredential`, which nothing
  calls. Signatures and hashes are assumed to work: a token is identified with what it says.
* Sessions: first registration with its limit and idempotent match, in-cluster rows (no
  kubeconfig file), uploads, provider detection and summaries. `GetOrReconnectClient`'s second
  look at the pool and the reading of the row after it are one step.
* The client wrapper's retries and rate limiter only delay a call's outcome.
* Terminal: completion, resizing, several tabs beside each other (each has its own connection)
  and what the shell prints. The three seconds after connecting in which nothing is typed are
  one Boolean.
* Graph engine and caches: what graphs contain, the depth filter and the expansion of one
  resource among it; `Stop` and a second engine of a cluster; the status counters; the
  invalidation of one namespace, which only the WebSocket hub's broadcasts would call.
* WebSocket hub: registration, subscriptions (which no client here sends), slow clients, shutdown.
* Live updates: `topology_update`, which invalidates at once, row animations, toasts, and the
  lengths of the retry delays.
* Chat: the blocks of a turn, token counts, the context hint and whether the assistant is
  configured; the brain's own sessions.
* **Coverage.** The repository has some 198 000 lines of TypeScript in 860 files, nearly all of them
  pages, tables, forms, graphs and styles that render the hub's answers and keep no state between
  events that could go wrong in an order. The hooks, clients and stores that do are a few
  thousand lines; those with the hardest orderings are modelled. The larger part of the modelled
  state machines is Go code of the hub and the agent.
* Parts that are pure data transformation or process I/O are listed in `PROJECT.json` with
  the reason.

## 6. What could come next

1. `KubeconfigSync` and the session service's first registration: the deletion cap over several
   syncs, adds racing with the limit.
2. `AddonLifecycle`: service, health monitor and upgrade checker writing one status row, against
   the transition table of `state_machine.go` as abstract specification.
3. `WebSocketHub`: Run, Stop and the two pumps of each client; composed with `LiveUpdates`, whose
   `Changes` and `ReceivedJoined` stand for it.
4. An abstract specification of the chat (one conversation per cluster) and of the live updates,
   implemented up to the excuses their history variables name.
