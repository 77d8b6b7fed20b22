------------------------------ MODULE AgentTrust ------------------------------
(***************************************************************************)
(* Registration, credentials and heartbeats between the in-cluster agents  *)
(* (kubilitics-agent) and the hub (kubilitics-backend).                    *)
(*                                                                         *)
(* An agent pod loads its credentials from a Kubernetes Secret, or         *)
(* exchanges a single-use bootstrap token (or a service-account token) for *)
(* them, and then sends heartbeats for ever.  Each hub request handler is  *)
(* a sequence of separate SQL statements, so that handlers of several      *)
(* requests interleave; a handler can die between two statements and an    *)
(* agent can stop waiting for it.  Pods with the same cluster UID share    *)
(* one Secret: the Deployment's rolling update runs two of them at once.   *)
(*                                                                         *)
(* A row of agent_clusters is identified with the cluster UID it was       *)
(* created for: UNIQUE(organization_id, cluster_uid) and an upsert that    *)
(* keeps the id make this a bijection within the one organisation modelled.*)
(***************************************************************************)
EXTENDS Naturals, Sequences

CONSTANTS
  Agents,      \* agent pods
  Uids,        \* kube-system UIDs of the physical clusters
  UidOf,       \* the cluster a pod runs in
  Jtis,        \* bootstrap tokens the admin may mint
  SA,          \* the proof of a pod that has no bootstrap token
  ProofOf,     \* what a pod presents: a bootstrap token, or SA
  HubUid,      \* the cluster the hub itself runs in
  Handlers,    \* requests the hub works on at a time (a bound)
  NoHandler,
  ExpiredCode, \* the code of the hub's 401 for an expired access token
  MaxFaults    \* how many faults a behaviour contains (a bound)

ASSUME ConfigAssumption ==
  /\ UidOf \in [Agents -> Uids]
  /\ SA \notin Jtis
  /\ ProofOf \in [Agents -> Jtis \cup {SA}]
  /\ HubUid \in Uids
  /\ NoHandler \notin Handlers
  /\ ExpiredCode \in {"access_invalid", "access_expired"}
  /\ MaxFaults \in Nat

VARIABLES
  tok,      \* bootstrap_tokens: life of each token
  epoch,    \* agent_clusters.credential_epoch, 0 when there is no row
  status,   \* agent_clusters.status
  creds,    \* agent_credentials, in the order of insertion
  hpc, hcid, hproof, hepoch, \* the hub's handlers and their local variables
  secret,   \* per cluster: the credential in the Secret, 0 when none
  sfresh,   \* per cluster: is the Secret's access token unexpired
  pc,       \* per pod: where the agent's main loop is
  mem,      \* per pod: the credential in memory, 0 when none
  mfresh,   \* per pod: is the access token in memory unexpired
  wait,     \* per pod: the handler whose answer it awaits
  answer,   \* per pod: the hub's last answer
  faults    \* faults so far

hub    == <<tok, epoch, status, creds>>
hvars  == <<hpc, hcid, hproof, hepoch>>
avars  == <<pc, mem, mfresh, wait, answer>>
svars  == <<secret, sfresh>>
vars   == <<hub, hvars, avars, svars, faults>>

Proofs   == Jtis \cup {SA}
Cred     == [cid : Uids, epoch : Nat, proof : Proofs]
Answers  == {"none", "ok", "token_rejected", "cluster_mismatch", "no_response",
             "registered", "access_invalid", "access_expired", "epoch_mismatch",
             "uid_mismatch", "refresh_rejected"}
AgentPCs == {"boot", "regwait", "saving", "beating", "hbwait", "refreshing", "clearing"}
HandlerPCs == {"free", "checked", "upserted", "reread", "marked", "hbupdate", "supersede"}

TypeOK ==
  /\ tok \in [Jtis -> {"unminted", "minted", "expired", "used"}]
  /\ epoch \in [Uids -> Nat]
  /\ status \in [Uids -> {"none", "active", "superseded"}]
  /\ creds \in Seq(Cred)
  /\ hpc \in [Handlers -> HandlerPCs]
  /\ hcid \in [Handlers -> Uids]
  /\ hproof \in [Handlers -> Proofs]
  /\ hepoch \in [Handlers -> Nat]
  /\ secret \in [Uids -> 0..Len(creds)]
  /\ sfresh \in [Uids -> BOOLEAN]
  /\ pc \in [Agents -> AgentPCs]
  /\ mem \in [Agents -> 0..Len(creds)]
  /\ mfresh \in [Agents -> BOOLEAN]
  /\ wait \in [Agents -> Handlers \cup {NoHandler}]
  /\ answer \in [Agents -> Answers]
  /\ faults \in 0..MaxFaults
  \* the credential an agent works with exists while it works with it
  /\ \A a \in Agents : pc[a] \in {"saving", "beating", "hbwait", "refreshing"} => mem[a] # 0

Init ==
  /\ tok = [j \in Jtis |-> "unminted"]
  /\ epoch = [u \in Uids |-> 0]
  /\ status = [u \in Uids |-> "none"]
  /\ creds = <<>>
  /\ hpc = [h \in Handlers |-> "free"]
  /\ hcid = [h \in Handlers |-> HubUid]
  /\ hproof = [h \in Handlers |-> SA]
  /\ hepoch = [h \in Handlers |-> 0]
  /\ secret = [u \in Uids |-> 0]
  /\ sfresh = [u \in Uids |-> FALSE]
  /\ pc = [a \in Agents |-> "boot"]
  /\ mem = [a \in Agents |-> 0]
  /\ mfresh = [a \in Agents |-> FALSE]
  /\ wait = [a \in Agents |-> NoHandler]
  /\ answer = [a \in Agents |-> "none"]
  /\ faults = 0

-----------------------------------------------------------------------------
(* Bookkeeping shared by the actions.                                      *)

Fault == faults < MaxFaults /\ faults' = faults + 1

\* The agent's next place and what it was last told.
Goto(a, place, told) ==
  /\ pc' = [pc EXCEPT ![a] = place]
  /\ answer' = [answer EXCEPT ![a] = told]

\* Handler h starts work on a request of pod a about cluster row c.
Open(h, a, step, c) ==
  /\ hpc[h] = "free"
  /\ hpc' = [hpc EXCEPT ![h] = step]
  /\ hcid' = [hcid EXCEPT ![h] = c]
  /\ hproof' = [hproof EXCEPT ![h] = ProofOf[a]]
  /\ hepoch' = [hepoch EXCEPT ![h] = 0]
  /\ wait' = [wait EXCEPT ![a] = h]

\* A handler's local variables end with it.
Forget(h) ==
  /\ hpc' = [hpc EXCEPT ![h] = "free"]
  /\ hcid' = [hcid EXCEPT ![h] = HubUid]
  /\ hproof' = [hproof EXCEPT ![h] = SA]
  /\ hepoch' = [hepoch EXCEPT ![h] = 0]

\* Credentials in an agent's memory end with the call or the process that holds them.
DropMem(a) ==
  /\ mem' = [mem EXCEPT ![a] = 0]
  /\ mfresh' = [mfresh EXCEPT ![a] = FALSE]

\* Handler h answers: the pod still waiting for it, if any, goes on at place.
Answer(h, place, told) ==
  /\ pc' = [a \in Agents |-> IF wait[a] = h THEN place ELSE pc[a]]
  /\ answer' = [a \in Agents |-> IF wait[a] = h THEN told ELSE answer[a]]
  /\ wait' = [a \in Agents |-> IF wait[a] = h THEN NoHandler ELSE wait[a]]
  /\ Forget(h)

CredOf(a)  == creds[mem[a]]
Current(c) == c.epoch = epoch[c.cid]

-----------------------------------------------------------------------------
(* Bootstrap: load the Secret or register.                                 *)

MintBootstrap(j) ==
  /\ tok[j] = "unminted"
  /\ tok' = [tok EXCEPT ![j] = "minted"]
  /\ UNCHANGED <<epoch, status, creds, hvars, avars, svars, faults>>

BootstrapExpires(j) ==
  /\ tok[j] = "minted"
  /\ tok' = [tok EXCEPT ![j] = "expired"]
  /\ UNCHANGED <<epoch, status, creds, hvars, avars, svars, faults>>

\* bootstrap.Run finds credentials in the Secret: the agent starts its heartbeats.
LoadCreds(a) ==
  /\ pc[a] = "boot"
  /\ secret[UidOf[a]] # 0
  /\ mem' = [mem EXCEPT ![a] = secret[UidOf[a]]]
  /\ mfresh' = [mfresh EXCEPT ![a] = sfresh[UidOf[a]]]
  /\ Goto(a, "beating", answer[a])
  /\ UNCHANGED <<hub, hvars, wait, svars, faults>>

\* A pod is installed with the token the admin minted for it.
Installed(a) == ProofOf[a] \in Jtis => tok[ProofOf[a]] # "unminted"

\* Any error of Load, not only a missing Secret, makes bootstrap.Run register.
LoadFails(a) ==
  /\ pc[a] = "boot"
  /\ Installed(a)
  /\ IF secret[UidOf[a]] = 0 THEN UNCHANGED faults ELSE Fault

\* The checks ServeHTTP makes of the presented proof before it writes anything.
ProofAccepted(a) ==
  \/ ProofOf[a] \in Jtis /\ tok[ProofOf[a]] = "minted"
  \/ ProofOf[a] = SA /\ UidOf[a] = HubUid

RegisterRequest(a, h) ==
  /\ LoadFails(a)
  /\ ProofAccepted(a)
  /\ Open(h, a, "checked", UidOf[a])
  /\ pc' = [pc EXCEPT ![a] = "regwait"]
  /\ UNCHANGED <<hub, mem, mfresh, answer, svars>>

RegisterRefused(a) ==
  /\ LoadFails(a)
  /\ ~ProofAccepted(a)
  /\ Goto(a, "boot", IF ProofOf[a] = SA THEN "cluster_mismatch" ELSE "token_rejected")
  /\ UNCHANGED <<hub, hvars, mem, mfresh, wait, svars>>

-----------------------------------------------------------------------------
(* The register handler, one action per SQL statement.                     *)

HandlerAt(h, step) == hpc[h] = step
HandlerNext(h, step) ==
  /\ hpc' = [hpc EXCEPT ![h] = step]
  /\ UNCHANGED <<hcid, hproof>>

\* INSERT ... ON CONFLICT DO UPDATE SET credential_epoch = credential_epoch + 1
UpsertCluster(h) ==
  /\ HandlerAt(h, "checked")
  /\ epoch' = [epoch EXCEPT ![hcid[h]] = @ + 1]
  /\ status' = [status EXCEPT ![hcid[h]] = "active"]
  /\ HandlerNext(h, "upserted")
  /\ UNCHANGED <<tok, creds, hepoch, avars, svars, faults>>

\* The row is read back: the epoch read is the handler's from here on.
RereadCluster(h) ==
  /\ HandlerAt(h, "upserted")
  /\ hepoch' = [hepoch EXCEPT ![h] = epoch[hcid[h]]]
  /\ HandlerNext(h, IF hproof[h] = SA THEN "marked" ELSE "reread")
  /\ UNCHANGED <<hub, avars, svars, faults>>

\* Faulty variant: the update has no "used_at IS NULL" condition.
MarkUnconditionally(h) ==
  /\ HandlerAt(h, "reread")
  /\ tok' = [tok EXCEPT ![hproof[h]] = "used"]
  /\ HandlerNext(h, "marked")
  /\ UNCHANGED <<epoch, status, creds, hepoch, avars, svars, faults>>

\* Faulty variant: where the epoch was bumped meanwhile, the update is tried once more.
MarkTwice(h) ==
  /\ HandlerAt(h, "reread")
  /\ tok[hproof[h]] # "used"
  /\ tok' = [tok EXCEPT ![hproof[h]] = "used"]
  /\ HandlerNext(h, IF hepoch[h] = epoch[hcid[h]] THEN "marked" ELSE "reread")
  /\ UNCHANGED <<epoch, status, creds, hepoch, avars, svars, faults>>

\* UPDATE bootstrap_tokens SET used_at ... WHERE jti = ? AND used_at IS NULL
MarkBootstrapTokenUsed(h) ==
  /\ HandlerAt(h, "reread")
  /\ tok[hproof[h]] # "used"
  /\ tok' = [tok EXCEPT ![hproof[h]] = "used"]
  /\ HandlerNext(h, "marked")
  /\ UNCHANGED <<epoch, status, creds, hepoch, avars, svars, faults>>

\* The same statement when another handler was first: 401, nothing undone.
MarkLosesRace(h) ==
  /\ HandlerAt(h, "reread")
  /\ tok[hproof[h]] = "used"
  /\ Answer(h, "boot", "token_rejected")
  /\ UNCHANGED <<hub, mem, mfresh, svars, faults>>

\* The credential row is inserted and the answer carries it to the agent.
InsertAgentCredential(h) ==
  /\ HandlerAt(h, "marked")
  /\ creds' = Append(creds, [cid |-> hcid[h], epoch |-> hepoch[h], proof |-> hproof[h]])
  /\ Answer(h, "saving", "registered")
  /\ mem' = [a \in Agents |-> IF wait[a] = h THEN Len(creds) + 1 ELSE mem[a]]
  /\ mfresh' = [a \in Agents |-> IF wait[a] = h THEN TRUE ELSE mfresh[a]]
  /\ UNCHANGED <<tok, epoch, status, svars, faults>>

SaveCreds(a) ==
  /\ pc[a] = "saving"
  /\ secret' = [secret EXCEPT ![UidOf[a]] = mem[a]]
  /\ sfresh' = [sfresh EXCEPT ![UidOf[a]] = mfresh[a]]
  /\ Goto(a, "beating", answer[a])
  /\ UNCHANGED <<hub, hvars, mem, mfresh, wait, faults>>

\* Faulty variant: the error of Save is ignored after the credentials are dropped.
SaveErrorIgnored(a) ==
  /\ pc[a] = "saving"
  /\ Fault
  /\ DropMem(a)
  /\ Goto(a, "beating", answer[a])
  /\ UNCHANGED <<hub, hvars, wait, svars>>

\* Save returns an error: bootstrap.Run drops the credentials it was given.
SaveFails(a) ==
  /\ pc[a] = "saving"
  /\ Fault
  /\ DropMem(a)
  /\ Goto(a, "boot", answer[a])
  /\ UNCHANGED <<hub, hvars, wait, svars>>

-----------------------------------------------------------------------------
(* Heartbeats.                                                             *)

\* Faulty variant: cluster_uid is not compared with the row's.
VerdictIgnoresUid(a) ==
  IF ~mfresh[a] THEN ExpiredCode
  ELSE IF ~Current(CredOf(a)) THEN "epoch_mismatch"
  ELSE "ok"

\* The heartbeat handler's checks, in its order.
Verdict(a) ==
  IF ~mfresh[a] THEN ExpiredCode
  ELSE IF ~Current(CredOf(a)) THEN "epoch_mismatch"
  ELSE IF CredOf(a).cid # UidOf[a] THEN "uid_mismatch"
  ELSE "ok"

\* 401: only the code "access_expired" makes the agent refresh; after any other
\* the agent backs off and sends the same heartbeat again.
HeartbeatRefused(a) ==
  /\ pc[a] = "beating"
  /\ Verdict(a) \notin {"uid_mismatch", "ok"}
  /\ Goto(a, IF Verdict(a) = "access_expired" THEN "refreshing" ELSE "beating", Verdict(a))
  /\ UNCHANGED <<hub, hvars, mem, mfresh, wait, svars, faults>>

HeartbeatRequest(a, h) ==
  /\ pc[a] = "beating"
  /\ Verdict(a) \in {"uid_mismatch", "ok"}
  /\ Open(h, a, IF Verdict(a) = "ok" THEN "hbupdate" ELSE "supersede", CredOf(a).cid)
  /\ pc' = [pc EXCEPT ![a] = "hbwait"]
  /\ UNCHANGED <<hub, mem, mfresh, answer, svars, faults>>

\* The update writes "active" whatever the row's status is.
UpdateClusterHeartbeat(h) ==
  /\ HandlerAt(h, "hbupdate")
  /\ status' = [status EXCEPT ![hcid[h]] = "active"]
  /\ Answer(h, "beating", "ok")
  /\ UNCHANGED <<tok, epoch, creds, mem, mfresh, svars, faults>>

\* The hub ignores an error of the update.  410 Gone: RunWithCreds returns
\* ErrNeedsReRegister.
MarkClusterSuperseded(h) ==
  /\ HandlerAt(h, "supersede")
  /\ \/ status' = [status EXCEPT ![hcid[h]] = "superseded"] /\ UNCHANGED faults
     \/ Fault /\ UNCHANGED status
  /\ Answer(h, "clearing", "uid_mismatch")
  /\ UNCHANGED <<tok, epoch, creds, mem, mfresh, svars>>

\* POST /token/refresh: the new access token is kept in memory only.
RefreshAccess(a) ==
  /\ pc[a] = "refreshing"
  /\ Current(CredOf(a))
  /\ mfresh' = [mfresh EXCEPT ![a] = TRUE]
  /\ Goto(a, "beating", answer[a])
  /\ UNCHANGED <<hub, hvars, mem, wait, svars, faults>>

RefreshRefused(a) ==
  /\ pc[a] = "refreshing"
  /\ ~Current(CredOf(a))
  /\ Goto(a, "clearing", "refresh_rejected")
  /\ UNCHANGED <<hub, hvars, mem, mfresh, wait, svars, faults>>

RefreshFails(a) ==
  /\ pc[a] = "refreshing"
  /\ Fault
  /\ Goto(a, "beating", "no_response")
  /\ UNCHANGED <<hub, hvars, mem, mfresh, wait, svars>>

\* Faulty variant: only the memory is cleared, the Secret stays.
ClearMemoryOnly(a) ==
  /\ pc[a] = "clearing"
  /\ DropMem(a)
  /\ Goto(a, "boot", answer[a])
  /\ UNCHANGED <<hub, hvars, wait, svars, faults>>

\* main's recovery loop deletes the Secret and starts over; a failing Delete is
\* only logged.
ClearCreds(a) ==
  /\ pc[a] = "clearing"
  /\ secret' = [secret EXCEPT ![UidOf[a]] = 0]
  /\ sfresh' = [sfresh EXCEPT ![UidOf[a]] = FALSE]
  /\ DropMem(a)
  /\ Goto(a, "boot", answer[a])
  /\ UNCHANGED <<hub, hvars, wait, faults>>

ClearFails(a) ==
  /\ pc[a] = "clearing"
  /\ Fault
  /\ DropMem(a)
  /\ Goto(a, "boot", answer[a])
  /\ UNCHANGED <<hub, hvars, wait, svars>>

-----------------------------------------------------------------------------
(* Faults and the passing of time.                                         *)

\* The handler ends early: hub crash, database error, cancelled request.
HandlerDies(h) ==
  /\ hpc[h] # "free"
  /\ Fault
  /\ Forget(h)
  /\ pc' = [a \in Agents |-> IF wait[a] # h THEN pc[a]
                             ELSE IF pc[a] = "regwait" THEN "boot" ELSE "beating"]
  /\ answer' = [a \in Agents |-> IF wait[a] = h THEN "no_response" ELSE answer[a]]
  /\ wait' = [a \in Agents |-> IF wait[a] = h THEN NoHandler ELSE wait[a]]
  /\ UNCHANGED <<hub, mem, mfresh, svars>>

\* The agent's HTTP client gives up; the handler goes on without it.
RequestTimesOut(a) ==
  /\ wait[a] # NoHandler
  /\ Fault
  /\ wait' = [wait EXCEPT ![a] = NoHandler]
  /\ Goto(a, IF pc[a] = "regwait" THEN "boot" ELSE "beating", "no_response")
  /\ UNCHANGED <<hub, hvars, mem, mfresh, svars>>

\* The pod is killed and started again.
Restart(a) ==
  /\ pc[a] # "boot"
  /\ Fault
  /\ wait' = [wait EXCEPT ![a] = NoHandler]
  /\ DropMem(a)
  /\ Goto(a, "boot", "none")
  /\ UNCHANGED <<hub, hvars, svars>>

\* A backup of cluster u, its Secret included, is restored into cluster v.
RestoreSecret(u, v) ==
  /\ u # v
  /\ secret[u] # 0
  /\ Fault
  /\ secret' = [secret EXCEPT ![v] = secret[u]]
  /\ sfresh' = [sfresh EXCEPT ![v] = sfresh[u]]
  /\ UNCHANGED <<hub, hvars, avars>>

\* An hour passes: the access tokens cluster u's pods hold or stored expire.
AccessExpires(u) ==
  /\ \/ sfresh[u]
     \/ \E a \in Agents : UidOf[a] = u /\ mfresh[a]
  /\ sfresh' = [sfresh EXCEPT ![u] = FALSE]
  /\ mfresh' = [a \in Agents |-> IF UidOf[a] = u THEN FALSE ELSE mfresh[a]]
  /\ UNCHANGED <<hub, hvars, pc, mem, wait, answer, secret, faults>>

-----------------------------------------------------------------------------
AgentStep(a) ==
  \/ LoadCreds(a)
  \/ RegisterRefused(a)
  \/ \E h \in Handlers : RegisterRequest(a, h)
  \/ SaveCreds(a)
  \/ HeartbeatRefused(a)
  \/ \E h \in Handlers : HeartbeatRequest(a, h)
  \/ RefreshAccess(a)
  \/ RefreshRefused(a)
  \/ ClearCreds(a)

HandlerStep(h) ==
  \/ UpsertCluster(h)
  \/ RereadCluster(h)
  \/ MarkBootstrapTokenUsed(h)
  \/ MarkLosesRace(h)
  \/ InsertAgentCredential(h)
  \/ UpdateClusterHeartbeat(h)
  \/ MarkClusterSuperseded(h)

AgentFault(a) ==
  \/ SaveFails(a)
  \/ RefreshFails(a)
  \/ ClearFails(a)
  \/ RequestTimesOut(a)
  \/ Restart(a)

Next ==
  \/ \E j \in Jtis : MintBootstrap(j) \/ BootstrapExpires(j)
  \/ \E a \in Agents : AgentStep(a) \/ AgentFault(a)
  \/ \E h \in Handlers : HandlerStep(h) \/ HandlerDies(h)
  \/ \E u, v \in Uids : RestoreSecret(u, v)
  \/ \E u \in Uids : AccessExpires(u)

Spec == Init /\ [][Next]_vars

\* Agents and handlers keep running and an access token's hour ends.  Heartbeats
\* are strongly fair: they are 30 seconds apart, so that a token does not expire
\* between its refresh and the next heartbeat every time.  Bootstrap tokens need
\* not be minted and faults need not happen.
Fairness ==
  /\ \A u \in Uids : WF_vars(AccessExpires(u))
  /\ \A a \in Agents : /\ WF_vars(AgentStep(a))
                       /\ SF_vars(\E h \in Handlers : HeartbeatRequest(a, h))
  /\ \A h \in Handlers : WF_vars(HandlerStep(h))

FairSpec == Spec /\ Fairness

-----------------------------------------------------------------------------
(* Properties.                                                             *)

\* A bootstrap token buys at most one credential, however many pods present it
\* at once and whichever handlers die (agent_register.go: MarkBootstrapTokenUsed).
TokenSingleUse ==
  \A i, k \in DOMAIN creds :
    creds[i].proof = creds[k].proof /\ creds[i].proof \in Jtis => i = k

\* A bootstrap token is lost only by a fault: while none has happened, a used token
\* has bought a credential or is about to, although registrations with it race
\* (agent_register.go:175-218, insert after mark without a transaction).
BurntOnlyByFault ==
  faults = 0 =>
    \A j \in Jtis : tok[j] = "used" =>
      \/ \E i \in DOMAIN creds : creds[i].proof = j
      \/ \E h \in Handlers : hpc[h] = "marked" /\ hproof[h] = j

\* A credential never carries an epoch its cluster row has not reached, so the
\* next bump of the row always outdates it.
CredentialBehindRow ==
  \A i \in DOMAIN creds : creds[i].epoch \in 1..epoch[creds[i].cid]

\* A heartbeat is accepted only for the row of the cluster the pod runs in, even
\* after a Secret was restored from another cluster's backup.
HeartbeatFromOwner ==
  \A a \in Agents : wait[a] # NoHandler /\ pc[a] = "hbwait" /\ hpc[wait[a]] = "hbupdate"
                      => hcid[wait[a]] = UidOf[a]

\* A re-registration outdates every credential the cluster was given before it.
RotationOutdates ==
  [][\A h \in Handlers : hpc[h] = "checked" /\ hpc'[h] = "upserted" =>
       \A i \in DOMAIN creds :
         creds[i].cid = hcid[h] => creds[i].epoch < epoch'[hcid[h]]]_vars

\* A credential that is no longer current never becomes current again.
StaleForever ==
  [][\A i \in DOMAIN creds : ~Current(creds[i]) => ~Current(creds[i])']_vars

\* The statements of all handlers together amount to the ledger's single steps: a
\* token turns into one credential, epochs only grow, and a row's status moves with
\* a registration or a bearer of one of its credentials.
Ledger == INSTANCE CredentialLedger
            WITH minted <- {j \in Jtis : tok[j] # "unminted"}, issued <- creds
KeepsLedger == Ledger!Spec

\* An agent holds credentials the hub accepts for the cluster it runs in.
Authorised(a) ==
  /\ mem[a] # 0 /\ mfresh[a]
  /\ Current(CredOf(a)) /\ CredOf(a).cid = UidOf[a]

\* A same-cluster agent is again and again authorised: expired access tokens are
\* refreshed, outdated or foreign credentials replaced (design spec, section 9).
KeepsAccess ==
  \A a \in Agents : ProofOf[a] = SA /\ UidOf[a] = HubUid => []<>Authorised(a)

\* A credential goes stale only in favour of another credential of its cluster,
\* issued or about to be (agent_register.go:171-173: replays lose "rather than
\* racing in the cluster upsert").
StaleOnlyWhenReplaced ==
  \A i \in DOMAIN creds : ~Current(creds[i]) =>
    \/ \E k \in DOMAIN creds : k # i /\ creds[k].cid = creds[i].cid /\ Current(creds[k])
    \/ \E h \in Handlers : hcid[h] = creds[i].cid /\ hpc[h] \in {"upserted", "reread", "marked"}
=============================================================================
