------------------------ MODULE ClusterSessionsProofs ------------------------
(***************************************************************************)
(* Proofs about ClusterSessions for any number of concurrent requests.     *)
(***************************************************************************)
EXTENDS ClusterSessions, TLAPS

-----------------------------------------------------------------------------
(* Types.  Which requests hold a client is part of the invariant: a new    *)
(* client is found because the request that builds it holds none.          *)

Holding == {"test", "info", "stop", "store", "start", "save", "ensure"}
Empty   == {"idle", "build", "queued"}

HoldInv == \A r \in Requests : /\ pc[r] \in Holding => mine[r] # NoClient
                               /\ pc[r] \in Empty => mine[r] = NoClient
                               /\ pc[r] \in {"info", "reread", "ensure"} => op[r] = "poll"

TypeInv == TypeOK /\ HoldInv

\* NewClient finds a client nobody holds, of either origin.
LEMMA NewClientExists ==
  ASSUME TypeOK, NEW r \in Requests, mine[r] = NoClient
  PROVE  /\ NewClient(Foreign) \in Foreign
         /\ NewClient(Clients \ Foreign) \in Clients \ Foreign
<1> DEFINE held == [x \in Holders |-> IF x = "pool" THEN pool
                                      ELSE IF x = "informers" THEN informers ELSE mine[x]]
<1>1. held \in [Holders -> Clients \cup {NoClient}]
  BY DEF TypeOK, Holders
<1>2. /\ held["pool"] = pool /\ held["informers"] = informers
      /\ \A q \in Requests : held[q] = mine[q]
  BY ClientsAssumption DEF Holders
<1>3. \A g : (\A x \in Holders : held[x] # g) => Free(g)
  BY <1>2 DEF Free, Holders
<1>4. /\ \E g \in Foreign : \A x \in Holders : held[x] # g
      /\ \E g \in Clients \ Foreign : \A x \in Holders : held[x] # g
  <2> HIDE DEF held
  <2> QED
    BY <1>1, <1>2, ClientsAssumption
<1>5. (\E g \in Foreign : Free(g)) /\ (\E g \in Clients \ Foreign : Free(g))
  <2> HIDE DEF held
  <2> QED
    BY <1>3, <1>4
<1> QED
  BY <1>5 DEF NewClient

\* Some client of the cluster itself exists.
LEMMA OwnClientExists ==
  ASSUME TypeOK
  PROVE  (CHOOSE g \in Clients \ Foreign : TRUE) \in Clients \ Foreign
<1> DEFINE none == [x \in Holders |-> NoClient]
<1>1. none \in [Holders -> Clients \cup {NoClient}]
  OBVIOUS
<1>2. PICK r \in Requests : none[r] = NoClient
  BY ClientsAssumption DEF Holders
<1>3. \E g \in Clients \ Foreign : TRUE
  <2> HIDE DEF none
  <2> QED
    BY <1>1, <1>2, ClientsAssumption
<1> QED
  BY <1>3

LEMMA TypeInit == Init => TypeInv
  BY DEF Init, TypeInv, TypeOK, HoldInv, Operations, Steps, Holding, Empty

LEMMA TypeArrive ==
  ASSUME TypeInv, NEW r \in Requests, Arrive(r) \/ LazyMiss(r)
  PROVE  TypeInv'
<1> USE DEF TypeInv, TypeOK, HoldInv, Begin, session, Operations, Steps, Holding, Empty
<1>1. CASE Poll(r)
  BY <1>1 DEF Poll
<1>2. CASE Reconnect(r) \/ Remove(r) \/ LazyMiss(r)
  BY <1>2 DEF Reconnect, Remove, LazyMiss
<1>3. CASE Add(r)
  <2>1. NewClient(Clients \ Foreign) \in Clients
    BY <1>3, NewClientExists DEF Add
  <2>2. QED
    BY <1>3, <2>1, ClientsAssumption DEF Add
<1> QED
  BY <1>1, <1>2, <1>3 DEF Arrive

LEMMA TypeStep ==
  ASSUME TypeInv, NEW r \in Requests, Step(r)
  PROVE  TypeInv'
<1> USE DEF TypeInv, TypeOK, HoldInv, Goto, Return, session, Operations, Steps, Holding, Empty
<1>1. CASE InfoFails(r) \/ InfoArrives(r) \/ CannotBuildForPoll(r)
  BY <1>1 DEF InfoFails, InfoArrives, CannotBuildForPoll, Update, Saved
<1>2. CASE BuildForPoll(r)
  <2>1. NewClient(IF file THEN Clients \ Foreign ELSE Foreign) \in Clients
    BY <1>2, NewClientExists, ClientsAssumption DEF BuildForPoll
  <2>2. QED
    BY <1>2, <2>1, ClientsAssumption DEF BuildForPoll
<1>3. CASE Reread(r) \/ RereadFindsNone(r)
  BY <1>3 DEF Reread, RereadFindsNone
<1>4. CASE EnsureCache(r)
  BY <1>4 DEF EnsureCache, StartClusterCache
<1>5. CASE LeadFlight(r) \/ JoinFlight(r)
  BY <1>5 DEF LeadFlight, JoinFlight
<1>6. CASE FlightLands(r)
  BY <1>6 DEF FlightLands
<1>7. CASE BuildStrictly(r)
  <2>1. NewClient(Clients \ Foreign) \in Clients
    BY <1>7, NewClientExists DEF BuildStrictly
  <2>2. QED
    BY <1>7, <2>1, ClientsAssumption DEF BuildStrictly
<1>8. CASE CannotBuild(r) \/ TestFails(r)
  BY <1>8 DEF CannotBuild, TestFails, ReconnectReturns, Update, Saved
<1>9. CASE TestSucceeds(r) \/ StopCache(r) \/ StoreClient(r)
  BY <1>9 DEF TestSucceeds, StopCache, StoreClient
<1>10. CASE StartCache(r)
  BY <1>10 DEF StartCache, StartClusterCache
<1>11. CASE SaveConnected(r) \/ CannotSave(r)
  BY <1>11 DEF SaveConnected, CannotSave, ReconnectReturns, Update, Saved
<1>12. CASE DeleteRow(r)
  <2>1. raced' \in BOOLEAN
    BY <1>12, Zenon DEF DeleteRow
  <2>2. /\ row' = "absent" /\ pc' = [pc EXCEPT ![r] = "forget"]
        /\ UNCHANGED <<pool, informers, negative, flight, op, mine, file, up, solo>>
    BY <1>12 DEF DeleteRow
  <2>3. QED
    BY <2>1, <2>2
<1>13. CASE ForgetClient(r) \/ StopAll(r)
  BY <1>13 DEF ForgetClient, StopAll
<1> QED
  BY <1>1, <1>2, <1>3, <1>4, <1>5, <1>6, <1>7, <1>8, <1>9, <1>10, <1>11, <1>12, <1>13 DEF Step

LEMMA TypeEnvironment ==
  ASSUME TypeInv, NegativeExpires \/ ReachabilityChanges \/ KubeconfigChanges \/ Restart
  PROVE  TypeInv'
<1> USE DEF TypeInv, TypeOK, HoldInv, session, locals, Operations, Steps, Holding, Empty
<1>1. CASE NegativeExpires \/ ReachabilityChanges \/ KubeconfigChanges
  BY <1>1 DEF NegativeExpires, ReachabilityChanges, KubeconfigChanges
<1>2. CASE Restart
  BY <1>2, OwnClientExists DEF Restart, Saved
<1> QED
  BY <1>1, <1>2

LEMMA TypeNext == TypeInv /\ [Next]_vars => TypeInv'
<1> SUFFICES ASSUME TypeInv, [Next]_vars PROVE TypeInv'
  OBVIOUS
<1>1. CASE UNCHANGED vars
  BY <1>1 DEF vars, session, locals, TypeInv, TypeOK, HoldInv
<1> QED
  BY <1>1, TypeArrive, TypeStep, TypeEnvironment DEF Next

LEMMA TypeInvariant == Spec => []TypeInv
  BY TypeInit, TypeNext, PTL DEF Spec

\* A session's variables and the requests' locals keep their types, and a request
\* that is about to store a client or to start informers holds a client.
THEOREM SessionTypes == Spec => []TypeOK
<1>1. TypeInv => TypeOK
  BY DEF TypeInv
<1> QED
  BY <1>1, TypeInvariant, PTL

-----------------------------------------------------------------------------
(* A registered cluster's client comes with informers.  What keeps this    *)
(* inductive: only a removal empties the pool, after it deleted the row,   *)
(* and every request past the pool's filling relies on that.               *)

PastStore(r) == \/ pc[r] \in {"info", "start", "reread", "ensure"}
                \/ pc[r] = "save" /\ op[r] # "add"

PoolInv ==
  /\ row # "absent" => \A r \in Requests : PastStore(r) => pool # NoClient
  /\ \A r \in Requests : pc[r] \in {"forget", "stopall"} => row = "absent"

SessionInv == SessionComplete /\ PoolInv

LEMMA SessionInit == Init => SessionInv
  BY DEF Init, SessionInv, SessionComplete, PoolInv, PastStore

LEMMA SessionArrive ==
  ASSUME TypeInv, SessionInv, NEW r \in Requests, Arrive(r) \/ LazyMiss(r)
  PROVE  SessionInv'
<1> USE DEF TypeInv, TypeOK, SessionInv, SessionComplete, PoolInv, PastStore, Begin, session
<1>1. CASE Poll(r)
  BY <1>1 DEF Poll
<1>2. CASE Reconnect(r) \/ Remove(r) \/ LazyMiss(r) \/ Add(r)
  BY <1>2 DEF Reconnect, Remove, LazyMiss, Add
<1> QED
  BY <1>1, <1>2 DEF Arrive

LEMMA SessionStep ==
  ASSUME TypeInv, SessionInv, NEW r \in Requests, Step(r)
  PROVE  SessionInv'
<1> USE DEF TypeInv, TypeOK, SessionInv, SessionComplete, PoolInv, PastStore, Goto, Return, session
<1>1. CASE InfoFails(r) \/ InfoArrives(r) \/ CannotBuildForPoll(r)
  BY <1>1 DEF InfoFails, InfoArrives, CannotBuildForPoll, Update, Saved
<1>2. CASE BuildForPoll(r) \/ BuildStrictly(r)
  BY <1>2 DEF BuildForPoll, BuildStrictly
<1>3. CASE Reread(r) \/ RereadFindsNone(r)
  BY <1>3 DEF Reread, RereadFindsNone
<1>4. CASE EnsureCache(r)
  BY <1>4, ClientsAssumption DEF EnsureCache, StartClusterCache, HoldInv, Holding
<1>5. CASE LeadFlight(r) \/ JoinFlight(r)
  BY <1>5 DEF LeadFlight, JoinFlight
<1>6. CASE FlightLands(r)
  BY <1>6 DEF FlightLands
<1>7. CASE CannotBuild(r) \/ TestFails(r)
  BY <1>7 DEF CannotBuild, TestFails, ReconnectReturns, Update, Saved
<1>8. CASE TestSucceeds(r)
  BY <1>8 DEF TestSucceeds
<1>9. CASE StopCache(r)
  BY <1>9 DEF StopCache
<1>10. CASE StoreClient(r)
  BY <1>10 DEF StoreClient, HoldInv, Holding
<1>11. CASE StartCache(r)
  BY <1>11 DEF StartCache, StartClusterCache, HoldInv, Holding
<1>12. CASE SaveConnected(r) \/ CannotSave(r)
  BY <1>12 DEF SaveConnected, CannotSave, ReconnectReturns, Update, Saved
<1>13. CASE DeleteRow(r)
  BY <1>13 DEF DeleteRow
<1>14. CASE ForgetClient(r) \/ StopAll(r)
  BY <1>14 DEF ForgetClient, StopAll
<1> QED
  BY <1>1, <1>2, <1>3, <1>4, <1>5, <1>6, <1>7, <1>8, <1>9, <1>10, <1>11, <1>12, <1>13, <1>14 DEF Step

LEMMA SessionNext == TypeInv /\ SessionInv /\ [Next]_vars => SessionInv'
<1> SUFFICES ASSUME TypeInv, SessionInv, [Next]_vars PROVE SessionInv'
  OBVIOUS
<1> USE DEF SessionInv, SessionComplete, PoolInv, PastStore, session, locals
<1>1. CASE UNCHANGED vars
  BY <1>1 DEF vars
<1>2. CASE NegativeExpires \/ ReachabilityChanges \/ KubeconfigChanges
  BY <1>2 DEF NegativeExpires, ReachabilityChanges, KubeconfigChanges
<1>3. CASE Restart
  BY <1>3 DEF Restart, Saved
<1> HIDE DEF SessionInv
<1> QED
  BY <1>1, <1>2, <1>3, SessionArrive, SessionStep DEF Next

\* While a cluster is registered, whatever requests race about it, its client has
\* informers or is about to get them, and informers have a client.
THEOREM SessionsComplete == Spec => []SessionComplete
<1>1. SessionInv => SessionComplete
  BY DEF SessionInv
<1> QED
  BY <1>1, SessionInit, SessionNext, TypeInvariant, PTL DEF Spec

-----------------------------------------------------------------------------
(* Rows are updated, never inserted, by the requests about a cluster.      *)

\* The row of a removed cluster does not come back.
THEOREM RemovedStaysRemoved == Spec => NoResurrection
<1>1. [Next]_vars => [row = "absent" => row' = "absent"]_vars
  <2> SUFFICES ASSUME [Next]_vars, row = "absent" PROVE row' = "absent"
    OBVIOUS
  <2> USE DEF Update, Saved, session
  <2>1. ASSUME NEW r \in Requests, Arrive(r) \/ LazyMiss(r) PROVE row' = "absent"
    BY <2>1 DEF Arrive, Poll, Reconnect, Add, Remove, LazyMiss, Begin
  <2>2. ASSUME NEW r \in Requests, Step(r) PROVE row' = "absent"
    BY <2>2 DEF Step, InfoFails, InfoArrives, BuildForPoll, CannotBuildForPoll, Reread,
       RereadFindsNone, EnsureCache, LeadFlight, JoinFlight, FlightLands, BuildStrictly,
       CannotBuild, TestSucceeds, TestFails, StopCache, StoreClient, StartCache,
       SaveConnected, CannotSave, DeleteRow, ForgetClient, StopAll
  <2>3. QED
    BY <2>1, <2>2 DEF Next, NegativeExpires, ReachabilityChanges, KubeconfigChanges, Restart, vars
<1> QED
  BY <1>1, PTL DEF Spec, NoResurrection

-----------------------------------------------------------------------------
(* A reconnect that runs alone.                                            *)

SoloInv ==
  \A r \in Requests : solo = r =>
    /\ \A q \in Requests : q # r => pc[q] = "idle"
    /\ op[r] = "reconnect" =>
         /\ pc[r] \in {"store", "start"} => informers = NoClient
         /\ pc[r] \in {"start", "save"} => pool = mine[r]
         /\ pc[r] = "save" => informers = mine[r]

LEMMA SoloInit == Init => SoloInv
  BY ClientsAssumption DEF Init, SoloInv

LEMMA SoloArrive ==
  ASSUME TypeInv, SoloInv, NEW r \in Requests, Arrive(r) \/ LazyMiss(r)
  PROVE  SoloInv'
<1>0. PICK what \in Operations, step \in {"info", "build", "queued", "test", "delete"} :
        \E client : Begin(r, what, step, client)
  BY DEF Arrive, Poll, Reconnect, Add, Remove, LazyMiss, Operations
<1>1. PICK client : Begin(r, what, step, client)
  BY <1>0
<1>2. ASSUME NEW q \in Requests, solo' = q PROVE q = r /\ Alone(r)
  BY <1>1, <1>2, ClientsAssumption DEF Begin
<1> QED
  BY <1>1, <1>2 DEF SoloInv, Begin, Alone, TypeInv, TypeOK

LEMMA SoloStep ==
  ASSUME TypeInv, SoloInv, NEW r \in Requests, Step(r)
  PROVE  SoloInv'
<1> USE ClientsAssumption DEF TypeInv, TypeOK, HoldInv, SoloInv, Goto, Return, session
<1>1. pc[r] # "idle"
  BY DEF Step, InfoFails, InfoArrives, BuildForPoll, CannotBuildForPoll, Reread,
     RereadFindsNone, EnsureCache, LeadFlight, JoinFlight, FlightLands, BuildStrictly,
     CannotBuild, TestSucceeds, TestFails, StopCache, StoreClient, StartCache,
     SaveConnected, CannotSave, DeleteRow, ForgetClient, StopAll
<1>2. CASE InfoFails(r) \/ InfoArrives(r) \/ CannotBuildForPoll(r)
  BY <1>1, <1>2 DEF InfoFails, InfoArrives, CannotBuildForPoll, Update, Saved
<1>3. CASE BuildForPoll(r) \/ BuildStrictly(r)
  BY <1>1, <1>3 DEF BuildForPoll, BuildStrictly
<1>4. CASE Reread(r) \/ RereadFindsNone(r) \/ EnsureCache(r)
  BY <1>1, <1>4 DEF Reread, RereadFindsNone, EnsureCache, StartClusterCache
<1>5. CASE LeadFlight(r) \/ JoinFlight(r)
  BY <1>1, <1>5 DEF LeadFlight, JoinFlight
<1>6. CASE FlightLands(r)
  BY <1>1, <1>6 DEF FlightLands
<1>7. CASE CannotBuild(r) \/ TestFails(r)
  BY <1>1, <1>7 DEF CannotBuild, TestFails, ReconnectReturns, Update, Saved
<1>8. CASE TestSucceeds(r)
  BY <1>1, <1>8 DEF TestSucceeds
<1>9. CASE StopCache(r)
  BY <1>1, <1>9 DEF StopCache
<1>10. CASE StoreClient(r)
  BY <1>1, <1>10 DEF StoreClient
<1>11. CASE StartCache(r)
  BY <1>1, <1>11 DEF StartCache, StartClusterCache
<1>12. CASE SaveConnected(r) \/ CannotSave(r)
  BY <1>1, <1>12 DEF SaveConnected, CannotSave, ReconnectReturns, Update, Saved
<1>13. CASE DeleteRow(r)
  BY <1>1, <1>13 DEF DeleteRow
<1>14. CASE ForgetClient(r) \/ StopAll(r)
  BY <1>1, <1>14 DEF ForgetClient, StopAll
<1> QED
  BY <1>2, <1>3, <1>4, <1>5, <1>6, <1>7, <1>8, <1>9, <1>10, <1>11, <1>12, <1>13, <1>14 DEF Step

LEMMA SoloNext == TypeInv /\ SoloInv /\ [Next]_vars => SoloInv'
<1> SUFFICES ASSUME TypeInv, SoloInv, [Next]_vars PROVE SoloInv'
  OBVIOUS
<1>1. CASE UNCHANGED vars
  BY <1>1 DEF vars, session, locals, SoloInv
<1>2. CASE NegativeExpires \/ ReachabilityChanges \/ KubeconfigChanges
  BY <1>2 DEF NegativeExpires, ReachabilityChanges, KubeconfigChanges, session, locals, SoloInv
<1>3. CASE Restart
  BY <1>3, ClientsAssumption DEF Restart, SoloInv
<1> QED
  BY <1>1, <1>2, <1>3, SoloArrive, SoloStep DEF Next

\* A reconnect without company leaves pool and informers with its own client,
\* whatever mismatch it found.
THEOREM ReconnectsRepair == Spec => []ReconnectRepairs
<1>1. SoloInv => ReconnectRepairs
  BY DEF SoloInv, ReconnectRepairs
<1> QED
  BY <1>1, SoloInit, SoloNext, TypeInvariant, PTL DEF Spec

-----------------------------------------------------------------------------
(* Removal.                                                                *)

Removing   == {"delete", "forget", "stopall"}
Bystanding == {"idle", "queued", "joined", "served", "failed"} \cup Removing

RemovalInv ==
  /\ \A r \in Requests : pc[r] \in Removing => op[r] = "remove"
  /\ row = "absent" /\ ~raced =>
       /\ \A r \in Requests : pc[r] \in Bystanding
       /\ pool # NoClient => \E r \in Requests : pc[r] = "forget"
       /\ informers # NoClient => \E r \in Requests : pc[r] \in {"forget", "stopall"}

LEMMA RemovalInit == Init => RemovalInv
  BY DEF Init, RemovalInv, Removing

LEMMA RemovalArrive ==
  ASSUME TypeInv, RemovalInv, NEW r \in Requests, Arrive(r) \/ LazyMiss(r)
  PROVE  RemovalInv'
<1> USE DEF TypeInv, TypeOK, RemovalInv, Removing, Bystanding, Begin, session
<1>1. CASE Poll(r)
  BY <1>1 DEF Poll
<1>2. CASE Reconnect(r) \/ Remove(r) \/ LazyMiss(r) \/ Add(r)
  BY <1>2 DEF Reconnect, Remove, LazyMiss, Add
<1> QED
  BY <1>1, <1>2 DEF Arrive

\* A request past reading a row that is still there.
LEMMA RemovalPastRow ==
  ASSUME TypeInv, RemovalInv, NEW r \in Requests,
         pc[r] \notin Bystanding, Step(r)
  PROVE  RemovalInv'
<1> USE DEF TypeInv, TypeOK, RemovalInv, Removing, Bystanding, Goto, Return, session
<1>1. row = "absent" => raced
  OBVIOUS
<1>2. raced' = raced /\ (row' = "absent" => row = "absent")
  BY DEF Step, InfoFails, InfoArrives, BuildForPoll, CannotBuildForPoll, Reread,
     RereadFindsNone, EnsureCache, LeadFlight, JoinFlight, FlightLands, BuildStrictly,
     CannotBuild, TestSucceeds, TestFails, StopCache, StoreClient, StartCache,
     SaveConnected, CannotSave, DeleteRow, ForgetClient, StopAll, ReconnectReturns, Update, Saved
<1>3. \A q \in Requests : pc'[q] \in Removing => pc'[q] = pc[q] /\ op'[q] = op[q]
  <2>1. CASE InfoFails(r) \/ InfoArrives(r) \/ BuildForPoll(r) \/ CannotBuildForPoll(r)
    BY <2>1 DEF InfoFails, InfoArrives, BuildForPoll, CannotBuildForPoll
  <2>2. CASE Reread(r) \/ RereadFindsNone(r) \/ EnsureCache(r) \/ BuildStrictly(r)
    BY <2>2 DEF Reread, RereadFindsNone, EnsureCache, BuildStrictly
  <2>3. CASE CannotBuild(r) \/ TestSucceeds(r) \/ TestFails(r)
    BY <2>3 DEF CannotBuild, TestSucceeds, TestFails, ReconnectReturns
  <2>4. CASE \/ StopCache(r) \/ StoreClient(r) \/ StartCache(r)
             \/ SaveConnected(r) \/ CannotSave(r)
    BY <2>4 DEF StopCache, StoreClient, StartCache, SaveConnected, CannotSave, ReconnectReturns
  <2>5. QED
    BY <2>1, <2>2, <2>3, <2>4
       DEF Step, LeadFlight, JoinFlight, FlightLands, DeleteRow, ForgetClient, StopAll
<1> QED
  BY <1>1, <1>2, <1>3

LEMMA RemovalStep ==
  ASSUME TypeInv, RemovalInv, NEW r \in Requests, Step(r)
  PROVE  RemovalInv'
<1>1. CASE pc[r] \notin Bystanding
  BY <1>1, RemovalPastRow
<1>2. CASE pc[r] \in Bystanding
  <2> USE DEF TypeInv, TypeOK, RemovalInv, Removing, Bystanding, Goto, Return, session
  <2>1. \/ LeadFlight(r) \/ JoinFlight(r) \/ FlightLands(r)
        \/ DeleteRow(r) \/ ForgetClient(r) \/ StopAll(r)
    BY <1>2 DEF Step, InfoFails, InfoArrives, BuildForPoll, CannotBuildForPoll, Reread,
       RereadFindsNone, EnsureCache, BuildStrictly, CannotBuild, TestSucceeds, TestFails,
       StopCache, StoreClient, StartCache, SaveConnected, CannotSave
  <2>2. CASE LeadFlight(r)
    BY <2>2 DEF LeadFlight
  <2>3. CASE JoinFlight(r)
    BY <2>3 DEF JoinFlight
  <2>4. CASE FlightLands(r)
    BY <2>4 DEF FlightLands
  <2>5. CASE DeleteRow(r)
    BY <2>5 DEF DeleteRow
  <2>6. CASE ForgetClient(r)
    BY <2>6 DEF ForgetClient
  <2>7. CASE StopAll(r)
    BY <2>7 DEF StopAll
  <2>8. QED
    BY <2>1, <2>2, <2>3, <2>4, <2>5, <2>6, <2>7
<1> QED
  BY <1>1, <1>2

LEMMA RemovalNext == TypeInv /\ RemovalInv /\ [Next]_vars => RemovalInv'
<1> SUFFICES ASSUME TypeInv, RemovalInv, [Next]_vars PROVE RemovalInv'
  OBVIOUS
<1>1. CASE UNCHANGED vars
  BY <1>1 DEF vars, session, locals, RemovalInv
<1>2. CASE NegativeExpires \/ ReachabilityChanges \/ KubeconfigChanges
  BY <1>2 DEF NegativeExpires, ReachabilityChanges, KubeconfigChanges, session, locals, RemovalInv
<1>3. CASE Restart
  BY <1>3 DEF Restart, RemovalInv, Removing, Bystanding, Saved, TypeInv, TypeOK
<1> QED
  BY <1>1, <1>2, <1>3, RemovalArrive, RemovalStep DEF Next

\* After a removal that raced with nobody, nothing of the cluster's session is left.
THEOREM RemovalsClean == Spec => []RemovalClean
<1>1. RemovalInv => RemovalClean
  BY DEF RemovalInv, RemovalClean, Removing
<1> QED
  BY <1>1, RemovalInit, RemovalNext, TypeInvariant, PTL DEF Spec

-----------------------------------------------------------------------------
(* The singleflight.  The leader of a flight keeps its operation until the *)
(* flight lands, because nothing but the landing ends a lazy reconnect.    *)

FlightInv ==
  /\ OneReconnect
  /\ \A r \in Requests :
       /\ pc[r] = "idle" => op[r] = "none"
       /\ pc[r] \in Removing => op[r] = "remove"
       /\ pc[r] \in {"queued", "joined", "served", "failed"} => op[r] = "lazy"

LEMMA FlightInit == Init => FlightInv
  BY ClientsAssumption DEF Init, FlightInv, OneReconnect, Removing

LEMMA FlightArrive ==
  ASSUME TypeInv, FlightInv, NEW r \in Requests, Arrive(r) \/ LazyMiss(r)
  PROVE  FlightInv'
<1> USE ClientsAssumption DEF TypeInv, TypeOK, FlightInv, OneReconnect, Removing, Begin, session
<1>1. CASE Poll(r)
  BY <1>1 DEF Poll
<1>2. CASE Reconnect(r) \/ Remove(r) \/ LazyMiss(r) \/ Add(r)
  BY <1>2 DEF Reconnect, Remove, LazyMiss, Add
<1> QED
  BY <1>1, <1>2 DEF Arrive

LEMMA FlightStep ==
  ASSUME TypeInv, FlightInv, NEW r \in Requests, Step(r)
  PROVE  FlightInv'
<1> USE ClientsAssumption
    DEF TypeInv, TypeOK, HoldInv, FlightInv, OneReconnect, Removing, Goto, Return, session
<1>1. CASE InfoFails(r) \/ InfoArrives(r) \/ CannotBuildForPoll(r)
  BY <1>1 DEF InfoFails, InfoArrives, CannotBuildForPoll
<1>2. CASE BuildForPoll(r) \/ BuildStrictly(r)
  BY <1>2 DEF BuildForPoll, BuildStrictly
<1>3. CASE Reread(r) \/ RereadFindsNone(r) \/ EnsureCache(r)
  BY <1>3 DEF Reread, RereadFindsNone, EnsureCache
<1>4. CASE LeadFlight(r)
  BY <1>4 DEF LeadFlight
<1>5. CASE JoinFlight(r)
  BY <1>5 DEF JoinFlight
<1>6. CASE FlightLands(r)
  <2>1. flight = r
    BY <1>6 DEF FlightLands
  <2>2. \A q \in Requests : op[q] = "lazy" /\ q # r => pc[q] \in {"queued", "joined"}
    BY <2>1
  <2>3. QED
    BY <1>6, <2>2 DEF FlightLands
<1>7. CASE CannotBuild(r) \/ TestFails(r)
  BY <1>7 DEF CannotBuild, TestFails, ReconnectReturns
<1>8. CASE TestSucceeds(r) \/ StopCache(r) \/ StoreClient(r)
  BY <1>8 DEF TestSucceeds, StopCache, StoreClient
<1>9. CASE StartCache(r)
  BY <1>9 DEF StartCache
<1>10. CASE SaveConnected(r) \/ CannotSave(r)
  BY <1>10 DEF SaveConnected, CannotSave, ReconnectReturns
<1>11. CASE DeleteRow(r) \/ ForgetClient(r) \/ StopAll(r)
  BY <1>11 DEF DeleteRow, ForgetClient, StopAll
<1> QED
  BY <1>1, <1>2, <1>3, <1>4, <1>5, <1>6, <1>7, <1>8, <1>9, <1>10, <1>11 DEF Step

LEMMA FlightNext == TypeInv /\ FlightInv /\ [Next]_vars => FlightInv'
<1> SUFFICES ASSUME TypeInv, FlightInv, [Next]_vars PROVE FlightInv'
  OBVIOUS
<1> USE DEF FlightInv, OneReconnect
<1>1. CASE UNCHANGED vars
  BY <1>1 DEF vars, session, locals
<1>2. CASE NegativeExpires \/ ReachabilityChanges \/ KubeconfigChanges
  BY <1>2 DEF NegativeExpires, ReachabilityChanges, KubeconfigChanges, session, locals
<1>3. CASE Restart
  BY <1>3, ClientsAssumption DEF Restart, Removing
<1> HIDE DEF FlightInv
<1> QED
  BY <1>1, <1>2, <1>3, FlightArrive, FlightStep DEF Next

\* However many pages ask for an offline cluster at once, one lazy reconnect runs, and
\* whoever joined it is released by it.
THEOREM ReconnectsCoalesced == Spec => []OneReconnect
<1>1. FlightInv => OneReconnect
  BY DEF FlightInv
<1> QED
  BY <1>1, FlightInit, FlightNext, TypeInvariant, PTL DEF Spec

-----------------------------------------------------------------------------
(* The session implements SessionLife.  AtWork are the requests between    *)
(* stopping informers, or deciding to store a client, and starting them.   *)

LifePhase == IF row = "absent" THEN "removed"
             ELSE IF pool = NoClient THEN "offline"
             ELSE IF informers = NoClient THEN "changing" ELSE "live"
AtWork == {r \in Requests : pc[r] \in {"store", "start"}}

\* A request that moves between steps outside, into, within or out of these two.
LEMMA AtWorkMoves ==
  ASSUME TypeOK, NEW r \in Requests, NEW step, pc' = [pc EXCEPT ![r] = step]
  PROVE  AtWork' = IF step \in {"store", "start"} THEN AtWork \cup {r} ELSE AtWork \ {r}
  BY DEF TypeOK, AtWork

LEMMA LifeInit == Init => Life!Init
  BY DEF Init, Life!Init

\* What the abstract steps say of phase and work.
LEMMA LifeUndertakes ==
  ASSUME NEW r \in Requests, r \notin AtWork, AtWork' = AtWork \cup {r},
         LifePhase' = LifePhase \/ (LifePhase = "live" /\ LifePhase' = "changing")
  PROVE  Life!Next
  BY DEF Life!Next, Life!Undertake, LifePhase, AtWork

LEMMA LifeWatches ==
  ASSUME NEW r \in Requests, r \in AtWork, AtWork' = AtWork \ {r}, LifePhase # "offline",
         LifePhase' = IF LifePhase = "changing" THEN "live" ELSE LifePhase
  PROVE  Life!Next
  BY DEF Life!Next, Life!Watch, LifePhase, AtWork

LEMMA LifeConnects ==
  ASSUME NEW r \in Requests, r \in AtWork, UNCHANGED AtWork,
         LifePhase' = IF LifePhase = "offline" THEN "changing" ELSE LifePhase
  PROVE  Life!Next \/ UNCHANGED Life!life
  BY DEF Life!Next, Life!Connect, Life!life, LifePhase, AtWork

LEMMA LifeStutters ==
  ASSUME UNCHANGED <<LifePhase, AtWork>>
  PROVE  UNCHANGED Life!life
  BY DEF Life!life, LifePhase, AtWork

\* A step that begins or ends no work and touches at most the row's status.
LEMMA LifeUntouched ==
  ASSUME TypeInv, NEW r \in Requests,
         \E step \in Steps \ {"store", "start"} : pc' = [pc EXCEPT ![r] = step],
         pc[r] \notin {"store", "start"},
         UNCHANGED <<pool, informers>>, row' = "absent" <=> row = "absent"
  PROVE  UNCHANGED Life!life
<1>1. UNCHANGED AtWork
  BY AtWorkMoves DEF TypeInv, AtWork
<1>2. UNCHANGED LifePhase
  BY DEF LifePhase
<1> QED
  BY <1>1, <1>2, LifeStutters

LEMMA LifeArrive ==
  ASSUME TypeInv, NEW r \in Requests, Arrive(r) \/ LazyMiss(r)
  PROVE  UNCHANGED Life!life
<1>1. PICK what \in Operations, step \in {"info", "build", "queued", "test", "delete"} :
        \E client : Begin(r, what, step, client)
  BY DEF Arrive, Poll, Reconnect, Add, Remove, LazyMiss, Operations
<1>2. /\ pc[r] = "idle" /\ pc' = [pc EXCEPT ![r] = step]
      /\ UNCHANGED <<row, pool, informers>>
  BY <1>1 DEF Begin, session
<1> QED
  BY <1>1, <1>2, LifeUntouched DEF Steps

\* The calls that look, build and test, and the saves of pollers and reconnects.
LEMMA LifeQuietSteps ==
  ASSUME TypeInv, NEW r \in Requests,
         \/ InfoFails(r) \/ InfoArrives(r) \/ BuildForPoll(r) \/ CannotBuildForPoll(r)
         \/ Reread(r) \/ RereadFindsNone(r) \/ LeadFlight(r) \/ JoinFlight(r)
         \/ BuildStrictly(r) \/ CannotBuild(r) \/ TestFails(r) \/ CannotSave(r)
         \/ SaveConnected(r) /\ op[r] # "add"
         \/ TestSucceeds(r) /\ op[r] # "poll"
  PROVE  UNCHANGED Life!life
<1> USE DEF TypeInv, TypeOK, Goto, Return, ReconnectReturns, session, Update, Saved, Steps
<1>1. CASE InfoFails(r) \/ InfoArrives(r) \/ BuildForPoll(r) \/ CannotBuildForPoll(r)
  BY <1>1, LifeUntouched DEF InfoFails, InfoArrives, BuildForPoll, CannotBuildForPoll
<1>2. CASE Reread(r) \/ RereadFindsNone(r) \/ LeadFlight(r) \/ JoinFlight(r)
  BY <1>2, LifeUntouched DEF Reread, RereadFindsNone, LeadFlight, JoinFlight
<1>3. CASE BuildStrictly(r) \/ CannotBuild(r) \/ TestFails(r) \/ CannotSave(r)
  BY <1>3, LifeUntouched DEF BuildStrictly, CannotBuild, TestFails, CannotSave
<1>4. CASE SaveConnected(r) /\ op[r] # "add"
  BY <1>4, LifeUntouched DEF SaveConnected
<1>5. CASE TestSucceeds(r) /\ op[r] # "poll"
  BY <1>5, LifeUntouched DEF TestSucceeds
<1> QED
  BY <1>1, <1>2, <1>3, <1>4, <1>5

\* The steps after which a request has promised to start informers.
LEMMA LifeBegins ==
  ASSUME TypeInv, SessionInv, NEW r \in Requests,
         \/ StopCache(r)
         \/ SaveConnected(r) /\ op[r] = "add"
         \/ TestSucceeds(r) /\ op[r] = "poll"
  PROVE  Life!Next
<1> USE DEF TypeInv, TypeOK, Goto, session
<1>1. r \notin AtWork /\ pc' = [pc EXCEPT ![r] = "store"]
  BY DEF AtWork, StopCache, SaveConnected, TestSucceeds
<1>2. AtWork' = AtWork \cup {r}
  BY <1>1, AtWorkMoves
<1>3. LifePhase' = LifePhase \/ (LifePhase = "live" /\ LifePhase' = "changing")
  BY ClientsAssumption
     DEF StopCache, SaveConnected, TestSucceeds, Saved, Update, LifePhase, SessionInv, SessionComplete
<1> QED
  BY <1>1, <1>2, <1>3, LifeUndertakes

\* Storing the client and starting informers: PoolInv tells that there is a client by then.
LEMMA LifeWorks ==
  ASSUME TypeInv, SessionInv, NEW r \in Requests, StoreClient(r) \/ StartCache(r)
  PROVE  Life!Next \/ UNCHANGED Life!life
<1> USE DEF TypeInv, TypeOK, HoldInv, Holding, Goto, Return, session
<1>1. CASE StoreClient(r)
  <2>1. r \in AtWork /\ UNCHANGED AtWork
    BY <1>1, AtWorkMoves DEF AtWork, StoreClient
  <2>2. LifePhase' = IF LifePhase = "offline" THEN "changing" ELSE LifePhase
    BY <1>1 DEF StoreClient, LifePhase, SessionInv, SessionComplete
  <2>3. QED
    BY <2>1, <2>2, LifeConnects
<1>2. CASE StartCache(r)
  <2>1. r \in AtWork /\ \E step \in Steps \ {"store", "start"} : pc' = [pc EXCEPT ![r] = step]
    BY <1>2 DEF AtWork, StartCache, Steps
  <2>2. AtWork' = AtWork \ {r}
    BY <2>1, AtWorkMoves
  <2>3. /\ LifePhase # "offline"
        /\ LifePhase' = IF LifePhase = "changing" THEN "live" ELSE LifePhase
    BY <1>2 DEF StartCache, StartClusterCache, LifePhase, SessionInv, PoolInv, PastStore
  <2>4. QED
    BY <2>1, <2>2, <2>3, LifeWatches
<1> QED
  BY <1>1, <1>2

LEMMA LifeHelps ==
  ASSUME TypeInv, SessionInv, NEW r \in Requests, EnsureCache(r)
  PROVE  Life!Next \/ UNCHANGED Life!life
<1> USE DEF TypeInv, TypeOK, HoldInv, Holding, EnsureCache, StartClusterCache, Return
<1>1. UNCHANGED AtWork
  BY AtWorkMoves DEF AtWork
<1>2. LifePhase' = IF LifePhase = "changing" THEN "live" ELSE LifePhase
  BY DEF LifePhase, SessionInv, PoolInv, PastStore
<1> QED
  BY <1>1, <1>2, LifeStutters DEF Life!Next, Life!Help, LifePhase, AtWork

\* Once the row is gone, what a removal takes away is not missed.
LEMMA LifeRemoves ==
  ASSUME TypeInv, SessionInv, NEW r \in Requests, DeleteRow(r) \/ ForgetClient(r) \/ StopAll(r)
  PROVE  Life!Next
<1> USE DEF TypeInv, TypeOK, Goto, Return
<1>1. UNCHANGED AtWork
  BY AtWorkMoves DEF AtWork, DeleteRow, ForgetClient, StopAll
<1>2. LifePhase' = "removed"
  BY DEF LifePhase, DeleteRow, ForgetClient, StopAll, SessionInv, PoolInv
<1> QED
  BY <1>1, <1>2 DEF Life!Next, Life!Remove, LifePhase, AtWork

LEMMA LifeLands ==
  ASSUME TypeInv, NEW r \in Requests, FlightLands(r)
  PROVE  UNCHANGED Life!life
<1>1. UNCHANGED AtWork
  BY DEF AtWork, FlightLands, TypeInv, TypeOK
<1>2. UNCHANGED LifePhase
  BY DEF LifePhase, FlightLands
<1> QED
  BY <1>1, <1>2, LifeStutters

LEMMA LifeCrashes ==
  ASSUME TypeInv, Restart
  PROVE  Life!Next
<1>1. AtWork' = {}
  BY DEF AtWork, Restart
<1>2. LifePhase' \in IF LifePhase = "removed" THEN {"removed"} ELSE {"offline", "live"}
  BY OwnClientExists, ClientsAssumption DEF LifePhase, Restart, Saved, TypeInv, TypeOK
<1> QED
  BY <1>1, <1>2 DEF Life!Next, Life!Crash, LifePhase, AtWork

LEMMA LifeStep ==
  ASSUME TypeInv, SessionInv, [Next]_vars
  PROVE  [Life!Next]_(Life!life)
<1>1. CASE UNCHANGED vars
  BY <1>1, LifeStutters DEF vars, session, locals, LifePhase, AtWork
<1>2. CASE NegativeExpires \/ ReachabilityChanges \/ KubeconfigChanges
  BY <1>2, LifeStutters
     DEF NegativeExpires, ReachabilityChanges, KubeconfigChanges, session, locals, LifePhase, AtWork
<1>3. ASSUME NEW r \in Requests, Step(r) PROVE Life!Next \/ UNCHANGED Life!life
  BY <1>3, LifeQuietSteps, LifeBegins, LifeWorks, LifeHelps, LifeRemoves, LifeLands DEF Step
<1> QED
  BY <1>1, <1>2, <1>3, LifeArrive, LifeCrashes DEF Next

\* Under any number of concurrent requests, the client, the informers and the row are
\* one session: a step under one of the three locks is a step of it, or none.
THEOREM SessionsImplementLife == Spec => ImplementsLife
<1>1. TypeInv /\ SessionInv /\ [Next]_vars => [Life!Next]_(Life!life)
  BY LifeStep
<1> QED
  BY <1>1, LifeInit, SessionInit, SessionNext, TypeInvariant, PTL
     DEF Spec, ImplementsLife, Life!Spec

==============================================================================
