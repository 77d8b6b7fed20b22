--------------------------- MODULE AgentTrustProofs ---------------------------
(***************************************************************************)
(* Proofs about AgentTrust, for any sets of pods, clusters, tokens and     *)
(* handlers and any number of faults.                                      *)
(***************************************************************************)
EXTENDS AgentTrust, TLAPS

RegisterSteps  == {"checked", "upserted", "reread", "marked"}
HeartbeatSteps == {"hbupdate", "supersede"}

\* A pod waits for a handler exactly as long as that handler works on the kind
\* of request the pod sent.
WaitInv ==
  \A a \in Agents :
    \/ wait[a] = NoHandler /\ pc[a] \notin {"regwait", "hbwait"}
    \/ wait[a] # NoHandler /\ pc[a] = "regwait" /\ hpc[wait[a]] \in RegisterSteps
    \/ wait[a] # NoHandler /\ pc[a] = "hbwait" /\ hpc[wait[a]] \in HeartbeatSteps

TypeInv == TypeOK /\ WaitInv

LEMMA CredSeq ==
  ASSUME NEW s \in Seq(Cred), NEW c \in Cred
  PROVE  /\ Append(s, c) \in Seq(Cred)
         /\ Len(Append(s, c)) = Len(s) + 1
         /\ Len(s) \in Nat
         /\ \A i \in 1..Len(s) : Append(s, c)[i] = s[i]
         /\ Append(s, c)[Len(s) + 1] = c
         /\ DOMAIN Append(s, c) = 1..(Len(s) + 1)
         /\ DOMAIN s = 1..Len(s)
  OBVIOUS

LEMMA TypeInit == Init => TypeInv
  BY ConfigAssumption DEF Init, TypeInv, TypeOK, WaitInv, Proofs, AgentPCs, HandlerPCs, Answers

LEMMA FaultsTyped ==
  ASSUME faults \in 0..MaxFaults, UNCHANGED faults \/ Fault
  PROVE  faults' \in 0..MaxFaults
  BY ConfigAssumption DEF Fault

LEMMA StatusTyped ==
  ASSUME NEW S, status \in [Uids -> S], NEW u \in Uids, NEW s \in S,
         UNCHANGED status \/ status' = [status EXCEPT ![u] = s]
  PROVE  status' \in [Uids -> S]
  OBVIOUS

\* The credential of a pod that sends heartbeats was issued for some cluster.
LEMMA BeatingCred ==
  ASSUME TypeOK, NEW a \in Agents, pc[a] = "beating"
  PROVE  CredOf(a).cid \in Uids
<1>1. creds \in Seq(Cred) /\ mem[a] \in 0..Len(creds) /\ mem[a] # 0 /\ Len(creds) \in Nat
  BY DEF TypeOK
<1>2. mem[a] \in 1..Len(creds)
  BY <1>1
<1>3. creds[mem[a]] \in Cred
  BY <1>1, <1>2
<1> QED
  BY <1>3 DEF CredOf, Cred

\* Steps of a pod that open no handler.
LEMMA TypeAgent ==
  ASSUME TypeInv, NEW a \in Agents,
         \/ LoadCreds(a) \/ RegisterRefused(a) \/ SaveCreds(a) \/ HeartbeatRefused(a)
         \/ RefreshAccess(a) \/ RefreshRefused(a) \/ ClearCreds(a)
         \/ AgentFault(a)
  PROVE  TypeInv'
<1> USE ConfigAssumption DEF TypeInv, TypeOK, WaitInv, AgentPCs, HandlerPCs, Answers, hub, hvars,
        avars, svars, Goto, Fault
<1>1. CASE LoadCreds(a)
  BY <1>1 DEF LoadCreds
<1>2. CASE RegisterRefused(a)
  BY <1>2 DEF RegisterRefused, LoadFails
<1>3. CASE SaveCreds(a)
  BY <1>3 DEF SaveCreds
<1>4. CASE HeartbeatRefused(a)
  <2>1. Verdict(a) \in Answers
    BY DEF Verdict
  <2>2. QED
    BY <1>4, <2>1 DEF HeartbeatRefused
<1>5. CASE RefreshAccess(a)
  BY <1>5 DEF RefreshAccess
<1>6. CASE RefreshRefused(a)
  BY <1>6 DEF RefreshRefused
<1>7. CASE ClearCreds(a)
  BY <1>7 DEF ClearCreds, DropMem
<1>8. CASE SaveFails(a)
  BY <1>8 DEF SaveFails, DropMem
<1>9. CASE RefreshFails(a)
  BY <1>9 DEF RefreshFails
<1>10. CASE ClearFails(a)
  BY <1>10 DEF ClearFails, DropMem
<1>11. CASE RequestTimesOut(a)
  BY <1>11 DEF RequestTimesOut
<1>12. CASE Restart(a)
  BY <1>12 DEF Restart, DropMem
<1> QED
  BY <1>1, <1>2, <1>3, <1>4, <1>5, <1>6, <1>7, <1>8, <1>9, <1>10, <1>11, <1>12 DEF AgentFault

\* A handler that starts work keeps the types.
LEMMA TypeOpen ==
  ASSUME TypeOK, NEW a \in Agents, NEW h \in Handlers, NEW s \in HandlerPCs, NEW c \in Uids,
         Open(h, a, s, c)
  PROVE  /\ hpc' \in [Handlers -> HandlerPCs]
         /\ hcid' \in [Handlers -> Uids]
         /\ hproof' \in [Handlers -> Proofs]
         /\ hepoch' \in [Handlers -> Nat]
         /\ wait' \in [Agents -> Handlers \cup {NoHandler}]
<1>1. ProofOf[a] \in Proofs
  BY ConfigAssumption DEF Proofs
<1> QED
  BY <1>1 DEF Open, TypeOK

\* Steps in which a pod sends a request: a free handler has no pod waiting for it.
LEMMA TypeRequest ==
  ASSUME TypeInv, NEW a \in Agents, NEW h \in Handlers,
         RegisterRequest(a, h) \/ HeartbeatRequest(a, h)
  PROVE  TypeInv'
<1>c. HeartbeatRequest(a, h) => CredOf(a).cid \in Uids
  BY BeatingCred DEF HeartbeatRequest, TypeInv
<1> USE ConfigAssumption DEF TypeInv, TypeOK, WaitInv, AgentPCs, HandlerPCs, RegisterSteps,
        HeartbeatSteps, Proofs, hub, avars, svars, Fault, Open
<1>0. \A b \in Agents : wait[b] # h \/ hpc[h] # "free"
  OBVIOUS
<1>1. CASE RegisterRequest(a, h)
  <2>1. faults' \in 0..MaxFaults
    BY <1>1 DEF RegisterRequest, LoadFails
  <2>2. QED
    BY <1>0, <1>1, <2>1 DEF RegisterRequest, LoadFails
<1>2. CASE HeartbeatRequest(a, h)
  <2>1. CredOf(a).cid \in Uids
    BY <1>2, <1>c
  <2>2. PICK s \in HeartbeatSteps : Open(h, a, s, CredOf(a).cid)
    BY <1>2 DEF HeartbeatRequest
  <2>3. /\ pc[a] = "beating" /\ pc' = [pc EXCEPT ![a] = "hbwait"]
        /\ UNCHANGED <<hub, mem, mfresh, answer, svars, faults>>
    BY <1>2 DEF HeartbeatRequest
  <2>a. /\ hpc' \in [Handlers -> HandlerPCs]
        /\ hcid' \in [Handlers -> Uids]
        /\ hproof' \in [Handlers -> Proofs]
        /\ hepoch' \in [Handlers -> Nat]
        /\ wait' \in [Agents -> Handlers \cup {NoHandler}]
    <3> s \in HandlerPCs
      OBVIOUS
    <3> HIDE DEF Open, TypeOK, HandlerPCs, Proofs
    <3> QED
      BY <2>1, <2>2, TypeOpen
  <2>b. pc' \in [Agents -> AgentPCs]
    BY <2>3
  <2>c. \A b \in Agents : pc'[b] \in {"saving", "beating", "hbwait", "refreshing"} => mem'[b] # 0
    BY <2>3
  <2>4. TypeOK'
    <3> HIDE DEF Open, AgentPCs, HandlerPCs, Proofs
    <3> QED
      BY <2>3, <2>a, <2>b, <2>c
  <2>5. WaitInv'
    BY <1>0, <2>2, <2>3
  <2>6. QED
    BY <2>4, <2>5
<1> QED
  BY <1>1, <1>2

\* Steps of a handler that goes on.
LEMMA TypeHandlerGoesOn ==
  ASSUME TypeInv, NEW h \in Handlers,
         UpsertCluster(h) \/ RereadCluster(h) \/ MarkBootstrapTokenUsed(h)
  PROVE  TypeInv'
<1> USE ConfigAssumption DEF TypeInv, TypeOK, WaitInv, HandlerPCs, RegisterSteps,
        HeartbeatSteps, hub, avars, svars, HandlerAt, HandlerNext
<1>1. CASE UpsertCluster(h)
  BY <1>1 DEF UpsertCluster
<1>2. CASE RereadCluster(h)
  BY <1>2 DEF RereadCluster
<1>3. CASE MarkBootstrapTokenUsed(h)
  BY <1>3 DEF MarkBootstrapTokenUsed
<1> QED
  BY <1>1, <1>2, <1>3

\* Steps that end a handler: the pod that waits for it goes on.
LEMMA TypeHandlerEnds ==
  ASSUME TypeInv, NEW h \in Handlers,
         \/ MarkLosesRace(h) \/ InsertAgentCredential(h) \/ UpdateClusterHeartbeat(h)
         \/ MarkClusterSuperseded(h) \/ HandlerDies(h)
  PROVE  TypeInv'
<1> USE ConfigAssumption DEF TypeInv, TypeOK, WaitInv, AgentPCs, HandlerPCs, RegisterSteps,
        HeartbeatSteps, Proofs, Answers, hub, avars, svars, Fault, HandlerAt, Answer, Forget
<1>1. CASE MarkLosesRace(h)
  BY <1>1 DEF MarkLosesRace
<1>2. CASE InsertAgentCredential(h)
  <2> DEFINE c == [cid |-> hcid[h], epoch |-> hepoch[h], proof |-> hproof[h]]
  <2>1. c \in Cred
    BY DEF Cred
  <2>2. creds' = Append(creds, c)
    BY <1>2 DEF InsertAgentCredential
  <2>3. creds' \in Seq(Cred) /\ Len(creds') = Len(creds) + 1 /\ Len(creds) \in Nat
    BY <2>1, <2>2, CredSeq
  <2> HIDE DEF c
  <2>4. 0..Len(creds) \subseteq 0..Len(creds') /\ Len(creds) + 1 \in 0..Len(creds')
    BY <2>3
  <2>5. secret' \in [Uids -> 0..Len(creds')]
    BY <1>2, <2>4 DEF InsertAgentCredential
  <2>6. mem' \in [Agents -> 0..Len(creds')]
    BY <1>2, <2>4 DEF InsertAgentCredential
  <2>7. mfresh' \in [Agents -> BOOLEAN]
    BY <1>2 DEF InsertAgentCredential
  <2>8. \A b \in Agents : mem'[b] = IF wait[b] = h THEN Len(creds) + 1 ELSE mem[b]
    BY <1>2 DEF InsertAgentCredential
  <2>9. \A b \in Agents : pc'[b] \in {"saving", "beating", "hbwait", "refreshing"} => mem'[b] # 0
    BY <1>2, <2>3, <2>8 DEF InsertAgentCredential
  <2>10. WaitInv'
    BY <1>2 DEF InsertAgentCredential
  <2>11. TypeOK'
    BY <1>2, <2>3, <2>5, <2>6, <2>7, <2>9 DEF InsertAgentCredential
  <2>12. QED
    BY <2>10, <2>11
<1>3. CASE UpdateClusterHeartbeat(h)
  <2>1. WaitInv'
    BY <1>3 DEF UpdateClusterHeartbeat
  <2>2. \A a \in Agents : wait[a] = h => pc[a] = "hbwait" /\ mem[a] # 0
    BY <1>3 DEF UpdateClusterHeartbeat
  <2>3. \A a \in Agents : pc'[a] \in {"saving", "beating", "hbwait", "refreshing"} => mem'[a] # 0
    BY <1>3, <2>2 DEF UpdateClusterHeartbeat
  <2>4. pc' \in [Agents -> AgentPCs] /\ answer' \in [Agents -> Answers]
    BY <1>3 DEF UpdateClusterHeartbeat
  <2>5. TypeOK'
    BY <1>3, <2>3, <2>4 DEF UpdateClusterHeartbeat
  <2>6. QED
    BY <2>1, <2>5
<1>4. CASE MarkClusterSuperseded(h)
  <2>1. WaitInv'
    BY <1>4 DEF MarkClusterSuperseded
  <2>2. status' \in [Uids -> {"none", "active", "superseded"}] /\ faults' \in 0..MaxFaults
    <3>1. UNCHANGED faults \/ Fault
      BY <1>4 DEF MarkClusterSuperseded
    <3>2. status' = status \/ status' = [status EXCEPT ![hcid[h]] = "superseded"]
      BY <1>4 DEF MarkClusterSuperseded
    <3>3. faults' \in 0..MaxFaults
      BY <3>1, FaultsTyped
    <3>4. status' \in [Uids -> {"none", "active", "superseded"}]
      BY <3>2, StatusTyped
    <3>5. QED
      BY <3>3, <3>4
  <2>3. \A a \in Agents : pc'[a] \in {"saving", "beating", "hbwait", "refreshing"} =>
          pc'[a] = pc[a] /\ mem'[a] # 0
    BY <1>4 DEF MarkClusterSuperseded
  <2>4. pc' \in [Agents -> AgentPCs] /\ answer' \in [Agents -> Answers]
    BY <1>4 DEF MarkClusterSuperseded
  <2>5. TypeOK'
    BY <1>4, <2>2, <2>3, <2>4 DEF MarkClusterSuperseded
  <2>6. QED
    BY <2>1, <2>5
<1>5. CASE HandlerDies(h)
  BY <1>5 DEF HandlerDies
<1> QED
  BY <1>1, <1>2, <1>3, <1>4, <1>5

LEMMA TypeEnvironment ==
  ASSUME TypeInv,
         \/ \E j \in Jtis : MintBootstrap(j) \/ BootstrapExpires(j)
         \/ \E u, v \in Uids : RestoreSecret(u, v)
         \/ \E u \in Uids : AccessExpires(u)
  PROVE  TypeInv'
<1> USE ConfigAssumption DEF TypeInv, TypeOK, WaitInv, Fault, hub, hvars, avars, svars
<1>1. ASSUME NEW j \in Jtis, MintBootstrap(j) \/ BootstrapExpires(j)
      PROVE  TypeInv'
  BY <1>1 DEF MintBootstrap, BootstrapExpires
<1>2. ASSUME NEW u \in Uids, NEW v \in Uids, RestoreSecret(u, v)
      PROVE  TypeInv'
  BY <1>2 DEF RestoreSecret
<1>3. ASSUME NEW u \in Uids, AccessExpires(u)
      PROVE  TypeInv'
  <2>1. mfresh' \in [Agents -> BOOLEAN]
    BY <1>3 DEF AccessExpires
  <2>2. QED
    BY <1>3, <2>1 DEF AccessExpires
<1> QED
  BY <1>1, <1>2, <1>3

LEMMA TypeStep == TypeInv /\ [Next]_vars => TypeInv'
<1> SUFFICES ASSUME TypeInv, [Next]_vars PROVE TypeInv'
  OBVIOUS
<1>1. CASE UNCHANGED vars
  BY <1>1 DEF TypeInv, TypeOK, WaitInv, vars, hub, hvars, avars, svars
<1>2. CASE Next
  BY <1>2, TypeAgent, TypeRequest, TypeHandlerGoesOn, TypeHandlerEnds, TypeEnvironment
     DEF Next, AgentStep, HandlerStep
<1> QED
  BY <1>1, <1>2

LEMMA TypeInvariant == Spec => []TypeInv
  BY TypeInit, TypeStep, PTL DEF Spec

\* The tables, the Secrets and the agents keep their types; in particular a pod that
\* sends heartbeats or refreshes holds a credential the hub has issued.
THEOREM TypeCorrect == Spec => []TypeOK
<1>1. TypeInv => TypeOK
  BY DEF TypeInv
<1> QED
  BY <1>1, TypeInvariant, PTL

-----------------------------------------------------------------------------
(* Only four of the hub's statements matter to epochs and to the single use of *)
(* bootstrap tokens; every other step is quiet.                              *)

Writing == {"upserted", "reread", "marked"}

Quiet ==
  /\ UNCHANGED <<epoch, creds>>
  /\ \A j \in Jtis : tok[j] = "used" => tok'[j] = "used"
  /\ \A h \in Handlers : hpc'[h] \in Writing =>
       /\ hpc'[h] = hpc[h] /\ hcid'[h] = hcid[h]
       /\ hproof'[h] = hproof[h] /\ hepoch'[h] = hepoch[h]

LEMMA QuietOrWriting ==
  ASSUME TypeInv, [Next]_vars
  PROVE  \/ Quiet
         \/ \E h \in Handlers : \/ UpsertCluster(h) \/ RereadCluster(h)
                                \/ MarkBootstrapTokenUsed(h) \/ InsertAgentCredential(h)
<1> USE DEF TypeInv, TypeOK, Quiet, Writing, hub, hvars
<1>1. CASE UNCHANGED vars
  BY <1>1 DEF vars
<1>2. ASSUME NEW j \in Jtis, MintBootstrap(j) \/ BootstrapExpires(j) PROVE Quiet
  BY <1>2 DEF MintBootstrap, BootstrapExpires
<1>3. ASSUME NEW a \in Agents, AgentStep(a) PROVE Quiet
  <2>1. ASSUME NEW h \in Handlers, RegisterRequest(a, h) \/ HeartbeatRequest(a, h) PROVE Quiet
    BY <2>1 DEF RegisterRequest, HeartbeatRequest, Open
  <2>2. QED
    BY <1>3, <2>1 DEF AgentStep, LoadCreds, RegisterRefused, SaveCreds, HeartbeatRefused,
       RefreshAccess, RefreshRefused, ClearCreds
<1>4. ASSUME NEW a \in Agents, AgentFault(a) PROVE Quiet
  BY <1>4 DEF AgentFault, SaveFails, RefreshFails, ClearFails, RequestTimesOut, Restart
<1>5. ASSUME NEW h \in Handlers,
             \/ MarkLosesRace(h) \/ UpdateClusterHeartbeat(h)
             \/ MarkClusterSuperseded(h) \/ HandlerDies(h)
      PROVE  Quiet
  BY <1>5 DEF MarkLosesRace, UpdateClusterHeartbeat, MarkClusterSuperseded, HandlerDies,
     Answer, Forget
<1>6. ASSUME NEW u \in Uids, NEW v \in Uids, RestoreSecret(u, v) PROVE Quiet
  BY <1>6 DEF RestoreSecret
<1>7. ASSUME NEW u \in Uids, AccessExpires(u) PROVE Quiet
  BY <1>7 DEF AccessExpires
<1>8. QED
  BY <1>1, <1>2, <1>3, <1>4, <1>5, <1>6, <1>7 DEF Next, HandlerStep

-----------------------------------------------------------------------------
(* Epochs.  CredentialBehindRow is not inductive: between the re-read and the  *)
(* insert the epoch is only in the handler, where it must already be behind.   *)

EpochInv ==
  /\ CredentialBehindRow
  /\ \A h \in Handlers : hpc[h] = "upserted" => epoch[hcid[h]] >= 1
  /\ \A h \in Handlers : hpc[h] \in {"reread", "marked"} => hepoch[h] \in 1..epoch[hcid[h]]

LEMMA EpochInit == Init => EpochInv
  BY DEF Init, EpochInv, CredentialBehindRow

LEMMA CredsTyped ==
  ASSUME TypeInv
  PROVE  /\ DOMAIN creds = 1..Len(creds) /\ Len(creds) \in Nat
         /\ \A i \in DOMAIN creds :
              creds[i].cid \in Uids /\ creds[i].epoch \in Nat /\ creds[i].proof \in Proofs
<1>1. creds \in Seq(Cred)
  BY DEF TypeInv, TypeOK
<1>2. \A i \in DOMAIN creds : creds[i] \in Cred
  BY <1>1
<1> QED
  BY <1>1, <1>2 DEF Cred

LEMMA EpochStep ==
  ASSUME TypeInv, EpochInv, [Next]_vars
  PROVE  EpochInv'
<1> USE CredsTyped DEF TypeInv, TypeOK, EpochInv, CredentialBehindRow
<1>1. CASE Quiet
  BY <1>1 DEF Quiet, Writing
<1>2. ASSUME NEW h \in Handlers, UpsertCluster(h) PROVE EpochInv'
  BY <1>2 DEF UpsertCluster, HandlerAt, HandlerNext
<1>3. ASSUME NEW h \in Handlers, RereadCluster(h) PROVE EpochInv'
  BY <1>3 DEF RereadCluster, HandlerAt, HandlerNext, hub
<1>4. ASSUME NEW h \in Handlers, MarkBootstrapTokenUsed(h) PROVE EpochInv'
  BY <1>4 DEF MarkBootstrapTokenUsed, HandlerAt, HandlerNext
<1>5. ASSUME NEW h \in Handlers, InsertAgentCredential(h) PROVE EpochInv'
  <2> DEFINE c == [cid |-> hcid[h], epoch |-> hepoch[h], proof |-> hproof[h]]
  <2>1. c \in Cred /\ c.cid = hcid[h] /\ c.epoch = hepoch[h]
    BY DEF Cred
  <2>2. creds' = Append(creds, c) /\ epoch' = epoch /\ hpc[h] = "marked"
    BY <1>5 DEF InsertAgentCredential, HandlerAt
  <2> HIDE DEF c
  <2>3. c.epoch \in 1..epoch'[c.cid]
    BY <2>1, <2>2
  <2>4. CredentialBehindRow'
    BY <2>1, <2>2, <2>3, CredSeq
  <2>5. QED
    BY <1>5, <2>4 DEF InsertAgentCredential, HandlerAt, Answer, Forget
<1> QED
  BY <1>1, <1>2, <1>3, <1>4, <1>5, QuietOrWriting

\* No credential is ahead of its cluster row.
THEOREM CredentialsBehind == Spec => []CredentialBehindRow
<1>1. EpochInv => CredentialBehindRow
  BY DEF EpochInv
<1>2. TypeInv /\ EpochInv /\ [Next]_vars => EpochInv'
  BY EpochStep
<1> QED
  BY <1>1, <1>2, EpochInit, TypeInvariant, PTL DEF Spec

\* A step inserts at most one credential and changes none.
LEMMA CredsGrow ==
  ASSUME TypeInv, [Next]_vars
  PROVE  \A i \in DOMAIN creds : i \in DOMAIN creds' /\ creds'[i] = creds[i]
<1>1. ASSUME NEW h \in Handlers, InsertAgentCredential(h)
      PROVE  \A i \in DOMAIN creds : i \in DOMAIN creds' /\ creds'[i] = creds[i]
  <2> DEFINE c == [cid |-> hcid[h], epoch |-> hepoch[h], proof |-> hproof[h]]
  <2>1. c \in Cred /\ creds \in Seq(Cred)
    BY DEF Cred, TypeInv, TypeOK
  <2>2. creds' = Append(creds, c)
    BY <1>1 DEF InsertAgentCredential
  <2> HIDE DEF c
  <2>3. QED
    BY <2>1, <2>2, CredSeq
<1>2. CASE UNCHANGED creds
  BY <1>2
<1> QED
  BY <1>1, <1>2, QuietOrWriting
     DEF Quiet, UpsertCluster, RereadCluster, MarkBootstrapTokenUsed, hub

\* No step lowers an epoch, and only the upsert of a cluster raises its epoch.
LEMMA EpochsGrow ==
  ASSUME TypeInv, [Next]_vars
  PROVE  /\ \A u \in Uids : epoch'[u] >= epoch[u]
         /\ \A h \in Handlers : hpc[h] = "checked" /\ hpc'[h] = "upserted" =>
              epoch'[hcid[h]] > epoch[hcid[h]]
<1> USE DEF TypeInv, TypeOK
<1>1. CASE Quiet
  BY <1>1 DEF Quiet, Writing
<1>2. ASSUME NEW h \in Handlers, UpsertCluster(h)
      PROVE  /\ \A u \in Uids : epoch'[u] >= epoch[u]
             /\ \A k \in Handlers : hpc[k] = "checked" /\ hpc'[k] = "upserted" =>
                  epoch'[hcid[k]] > epoch[hcid[k]]
  BY <1>2 DEF UpsertCluster, HandlerNext
<1>3. ASSUME NEW h \in Handlers,
             RereadCluster(h) \/ MarkBootstrapTokenUsed(h) \/ InsertAgentCredential(h)
      PROVE  /\ UNCHANGED epoch
             /\ \A k \in Handlers : ~(hpc[k] = "checked" /\ hpc'[k] = "upserted")
  BY <1>3 DEF RereadCluster, MarkBootstrapTokenUsed, InsertAgentCredential, HandlerAt,
     HandlerNext, Answer, Forget, hub
<1> QED
  BY <1>1, <1>2, <1>3, QuietOrWriting

\* A re-registration outdates every earlier credential of its cluster.
THEOREM RotationIsRevocation == Spec => RotationOutdates
<1>1. TypeInv /\ EpochInv /\ [Next]_vars =>
        [\A h \in Handlers : hpc[h] = "checked" /\ hpc'[h] = "upserted" =>
           \A i \in DOMAIN creds :
             creds[i].cid = hcid[h] => creds[i].epoch < epoch'[hcid[h]]]_vars
  <2> SUFFICES ASSUME TypeInv, EpochInv, [Next]_vars,
                      NEW h \in Handlers, hpc[h] = "checked", hpc'[h] = "upserted",
                      NEW i \in DOMAIN creds, creds[i].cid = hcid[h]
               PROVE  creds[i].epoch < epoch'[hcid[h]]
    OBVIOUS
  <2>1. creds[i].epoch \in 1..epoch[hcid[h]]
    BY DEF EpochInv, CredentialBehindRow
  <2>2. epoch'[hcid[h]] > epoch[hcid[h]]
    BY EpochsGrow
  <2>3. epoch[hcid[h]] \in Nat /\ epoch'[hcid[h]] \in Nat
    BY TypeStep DEF TypeInv, TypeOK
  <2>4. QED
    BY <2>1, <2>2, <2>3
<1>2. TypeInv /\ EpochInv /\ [Next]_vars => EpochInv'
  BY EpochStep
<1> QED
  BY <1>1, <1>2, EpochInit, TypeInvariant, PTL DEF Spec, RotationOutdates

\* A credential that was outdated once stays outdated.
THEOREM StaleStaysStale == Spec => StaleForever
<1>1. TypeInv /\ EpochInv /\ [Next]_vars =>
        [\A i \in DOMAIN creds : ~Current(creds[i]) => ~Current(creds[i])']_vars
  <2> SUFFICES ASSUME TypeInv, EpochInv, [Next]_vars,
                      NEW i \in DOMAIN creds, ~Current(creds[i])
               PROVE  ~Current(creds[i])'
    OBVIOUS
  <2>1. creds'[i] = creds[i]
    BY CredsGrow
  <2>2. creds[i].cid \in Uids
    BY CredsTyped
  <2>3. creds[i].epoch \in 1..epoch[creds[i].cid] /\ creds[i].epoch # epoch[creds[i].cid]
    BY DEF EpochInv, CredentialBehindRow, Current
  <2>4. epoch'[creds[i].cid] >= epoch[creds[i].cid]
    BY <2>2, EpochsGrow
  <2>5. epoch[creds[i].cid] \in Nat /\ epoch'[creds[i].cid] \in Nat
    BY <2>2, TypeStep DEF TypeInv, TypeOK
  <2>6. creds[i].epoch # epoch'[creds[i].cid]
    BY <2>3, <2>4, <2>5
  <2>7. QED
    BY <2>1, <2>6 DEF Current
<1>2. TypeInv /\ EpochInv /\ [Next]_vars => EpochInv'
  BY EpochStep
<1> QED
  BY <1>1, <1>2, EpochInit, TypeInvariant, PTL DEF Spec, StaleForever

-----------------------------------------------------------------------------
(* Bootstrap tokens.  Between the mark and the insert the token's only holder  *)
(* is a handler, so that the invariant also speaks of marked handlers.        *)

Holds(h, j) == hpc[h] = "marked" /\ hproof[h] = j

SingleUseInv ==
  /\ TokenSingleUse
  /\ \A i \in DOMAIN creds : creds[i].proof \in Jtis => tok[creds[i].proof] = "used"
  /\ \A h \in Handlers : hpc[h] = "reread" => hproof[h] \in Jtis
  /\ \A h \in Handlers, j \in Jtis : Holds(h, j) =>
       /\ tok[j] = "used"
       /\ \A i \in DOMAIN creds : creds[i].proof # j
       /\ \A k \in Handlers : Holds(k, j) => k = h

LEMMA SingleUseInit == Init => SingleUseInv
  BY DEF Init, SingleUseInv, TokenSingleUse, Holds

\* A list of credentials in which each token occurs once stays one when a
\* credential of a token that does not occur is appended.
LEMMA AppendFreshProof ==
  ASSUME NEW s \in Seq(Cred), NEW c \in Cred,
         \A i, k \in 1..Len(s) : s[i].proof = s[k].proof /\ s[i].proof \in Jtis => i = k,
         c.proof \in Jtis => \A i \in 1..Len(s) : s[i].proof # c.proof
  PROVE  \A i, k \in 1..(Len(s) + 1) :
           /\ Append(s, c)[i].proof = Append(s, c)[k].proof
           /\ Append(s, c)[i].proof \in Jtis
           => i = k
<1> DEFINE t == Append(s, c)
<1>1. /\ Len(s) \in Nat
      /\ \A i \in 1..Len(s) : t[i] = s[i]
      /\ t[Len(s) + 1] = c
  BY CredSeq
<1> HIDE DEF t
<1>2. SUFFICES ASSUME NEW i \in 1..(Len(s) + 1), NEW k \in 1..(Len(s) + 1),
                      t[i].proof = t[k].proof, t[i].proof \in Jtis
               PROVE  i = k
  BY DEF t
<1>3. CASE i = Len(s) + 1 /\ k \in 1..Len(s)
  BY <1>1, <1>2, <1>3
<1>4. CASE k = Len(s) + 1 /\ i \in 1..Len(s)
  BY <1>1, <1>2, <1>4
<1>5. CASE i \in 1..Len(s) /\ k \in 1..Len(s)
  BY <1>1, <1>2, <1>5
<1> QED
  BY <1>1, <1>3, <1>4, <1>5

LEMMA SingleUseInsert ==
  ASSUME TypeInv, SingleUseInv, NEW h \in Handlers, InsertAgentCredential(h)
  PROVE  SingleUseInv'
<1> DEFINE c == [cid |-> hcid[h], epoch |-> hepoch[h], proof |-> hproof[h]]
<1>1. c \in Cred /\ c.proof = hproof[h] /\ creds \in Seq(Cred)
  BY DEF Cred, TypeInv, TypeOK
<1>2. creds' = Append(creds, c) /\ tok' = tok /\ hpc[h] = "marked"
  BY DEF InsertAgentCredential, HandlerAt
<1> HIDE DEF c
<1>3. /\ DOMAIN creds = 1..Len(creds)
      /\ DOMAIN creds' = 1..(Len(creds) + 1)
      /\ Len(creds) \in Nat
      /\ \A i \in 1..Len(creds) : creds'[i] = creds[i]
      /\ creds'[Len(creds) + 1] = c
  BY <1>1, <1>2, CredSeq
<1>4. c.proof \in Jtis => /\ tok[c.proof] = "used"
                          /\ \A i \in 1..Len(creds) : creds[i].proof # c.proof
  BY <1>1, <1>2, <1>3 DEF SingleUseInv, Holds
<1>5. TokenSingleUse'
  <2>1. \A i, k \in 1..Len(creds) :
          creds[i].proof = creds[k].proof /\ creds[i].proof \in Jtis => i = k
    BY <1>3 DEF SingleUseInv, TokenSingleUse
  <2>2. \A i, k \in 1..(Len(creds) + 1) :
          /\ Append(creds, c)[i].proof = Append(creds, c)[k].proof
          /\ Append(creds, c)[i].proof \in Jtis
          => i = k
    BY <1>1, <1>4, <2>1, AppendFreshProof
  <2>3. QED
    BY <1>2, <1>3, <2>2 DEF TokenSingleUse
<1>6. (\A i \in DOMAIN creds : creds[i].proof \in Jtis => tok[creds[i].proof] = "used")'
  BY <1>2, <1>3, <1>4 DEF SingleUseInv
<1>7. \A k \in Handlers : hpc'[k] # "free" =>
        k # h /\ hpc'[k] = hpc[k] /\ hproof'[k] = hproof[k]
  BY DEF InsertAgentCredential, Answer, Forget, TypeInv, TypeOK
<1>8. (\A k \in Handlers : hpc[k] = "reread" => hproof[k] \in Jtis)'
  BY <1>7 DEF SingleUseInv
<1>9. ASSUME NEW k \in Handlers, NEW j \in Jtis, Holds(k, j)'
      PROVE  /\ tok'[j] = "used"
             /\ \A i \in DOMAIN creds' : creds'[i].proof # j
             /\ \A l \in Handlers : Holds(l, j)' => l = k
  <2>1. Holds(k, j) /\ k # h
    BY <1>7, <1>9 DEF Holds
  <2>2. /\ tok[j] = "used"
        /\ \A i \in 1..Len(creds) : creds[i].proof # j
        /\ \A l \in Handlers : Holds(l, j) => l = k
    BY <1>3, <2>1 DEF SingleUseInv
  <2>3. c.proof # j
    BY <1>1, <1>2, <2>1, <2>2 DEF Holds
  <2>4. \A i \in DOMAIN creds' : creds'[i].proof # j
    BY <1>3, <2>2, <2>3
  <2>5. \A l \in Handlers : Holds(l, j)' => Holds(l, j)
    BY <1>7 DEF Holds
  <2>6. QED
    BY <1>2, <2>2, <2>4, <2>5
<1>10. QED
  BY <1>5, <1>6, <1>8, <1>9 DEF SingleUseInv

\* A step that issues no credential and marks no token.
LEMMA SingleUseKept ==
  ASSUME SingleUseInv, UNCHANGED creds,
         \A j \in Jtis : tok[j] = "used" => tok'[j] = "used",
         \A k \in Handlers : hpc'[k] = "reread" => hproof'[k] \in Jtis,
         \A k \in Handlers : hpc'[k] = "marked" /\ hproof'[k] \in Jtis =>
                               hpc[k] = "marked" /\ hproof'[k] = hproof[k]
  PROVE  SingleUseInv'
<1>1. \A k \in Handlers, j \in Jtis : Holds(k, j)' => Holds(k, j)
  BY DEF Holds
<1>2. TokenSingleUse'
  BY DEF SingleUseInv, TokenSingleUse
<1> QED
  BY <1>1, <1>2 DEF SingleUseInv

\* Before a token is marked nobody holds it and no credential was bought with it.
LEMMA SingleUseMark ==
  ASSUME TypeInv, SingleUseInv, NEW h \in Handlers, MarkBootstrapTokenUsed(h)
  PROVE  SingleUseInv'
<1>1. /\ hpc[h] = "reread" /\ hproof[h] \in Jtis /\ tok[hproof[h]] # "used"
      /\ creds' = creds /\ hproof' = hproof
      /\ tok' = [tok EXCEPT ![hproof[h]] = "used"]
      /\ hpc' = [hpc EXCEPT ![h] = "marked"]
  BY DEF MarkBootstrapTokenUsed, HandlerAt, HandlerNext, SingleUseInv
<1>2. /\ \A i \in DOMAIN creds : creds[i].proof # hproof[h]
      /\ \A k \in Handlers : ~Holds(k, hproof[h])
  BY <1>1 DEF SingleUseInv
<1>3. \A j \in Jtis : tok'[j] = IF j = hproof[h] THEN "used" ELSE tok[j]
  BY <1>1 DEF TypeInv, TypeOK
<1>4. \A k \in Handlers : hpc'[k] = IF k = h THEN "marked" ELSE hpc[k]
  BY <1>1 DEF TypeInv, TypeOK
<1>5. TokenSingleUse'
  BY <1>1 DEF SingleUseInv, TokenSingleUse
<1>6. (\A i \in DOMAIN creds : creds[i].proof \in Jtis => tok[creds[i].proof] = "used")'
  BY <1>1, <1>3 DEF SingleUseInv
<1>7. (\A k \in Handlers : hpc[k] = "reread" => hproof[k] \in Jtis)'
  BY <1>1, <1>4 DEF SingleUseInv
<1>8. ASSUME NEW k \in Handlers, NEW j \in Jtis, Holds(k, j)'
      PROVE  /\ tok'[j] = "used"
             /\ \A i \in DOMAIN creds' : creds'[i].proof # j
             /\ \A l \in Handlers : Holds(l, j)' => l = k
  <2> DEFINE held(l) == hpc'[l] = "marked" /\ hproof[l] = j
  <2>a. \A l \in Handlers : Holds(l, j)' <=> held(l)
    BY <1>1 DEF Holds
  <2>b. \A l \in Handlers : held(l) => (l = h /\ j = hproof[h]) \/ (l # h /\ Holds(l, j))
    BY <1>4 DEF Holds
  <2>1. \A l \in Handlers : Holds(l, j)' => (l = h /\ j = hproof[h]) \/ (l # h /\ Holds(l, j))
    BY <2>a, <2>b
  <2>2. CASE j = hproof[h]
    BY <1>1, <1>2, <1>3, <1>8, <2>1, <2>2
  <2>3. CASE j # hproof[h]
    BY <1>1, <1>3, <1>8, <2>1, <2>3 DEF SingleUseInv
  <2>4. QED
    BY <2>2, <2>3
<1> QED
  BY <1>5, <1>6, <1>7, <1>8 DEF SingleUseInv

LEMMA SingleUseStep ==
  ASSUME TypeInv, SingleUseInv, [Next]_vars
  PROVE  SingleUseInv'
<1>1. CASE Quiet
  BY <1>1, SingleUseKept DEF Quiet, Writing, SingleUseInv
<1>2. ASSUME NEW h \in Handlers, UpsertCluster(h) PROVE SingleUseInv'
  <2>1. /\ creds' = creds /\ tok' = tok /\ hproof' = hproof
        /\ \A k \in Handlers : hpc'[k] \in {"reread", "marked"} => hpc'[k] = hpc[k]
    BY <1>2 DEF UpsertCluster, HandlerNext, TypeInv, TypeOK
  <2>2. QED
    BY <2>1, SingleUseKept DEF SingleUseInv
<1>3. ASSUME NEW h \in Handlers, RereadCluster(h) PROVE SingleUseInv'
  <2>1. hproof[h] # SA => hproof[h] \in Jtis
    BY DEF TypeInv, TypeOK, Proofs
  <2>2. /\ creds' = creds /\ tok' = tok /\ hproof' = hproof
        /\ \A k \in Handlers : k # h => hpc'[k] = hpc[k]
        /\ hpc'[h] = IF hproof[h] = SA THEN "marked" ELSE "reread"
    BY <1>3 DEF RereadCluster, HandlerNext, hub, TypeInv, TypeOK
  <2>3. QED
    BY <2>1, <2>2, SingleUseKept, ConfigAssumption DEF SingleUseInv
<1>4. ASSUME NEW h \in Handlers, MarkBootstrapTokenUsed(h) PROVE SingleUseInv'
  BY <1>4, SingleUseMark
<1>5. ASSUME NEW h \in Handlers, InsertAgentCredential(h) PROVE SingleUseInv'
  BY <1>5, SingleUseInsert
<1> QED
  BY <1>1, <1>2, <1>3, <1>4, <1>5, QuietOrWriting

\* However many requests present a bootstrap token, one credential at most comes
\* of it.
THEOREM SingleUse == Spec => []TokenSingleUse
<1>1. SingleUseInv => TokenSingleUse
  BY DEF SingleUseInv
<1>2. TypeInv /\ SingleUseInv /\ [Next]_vars => SingleUseInv'
  BY SingleUseStep
<1> QED
  BY <1>1, <1>2, SingleUseInit, TypeInvariant, PTL DEF Spec

-----------------------------------------------------------------------------
(* Heartbeats.  HeartbeatFromOwner is inductive once WaitInv says that a pod in *)
(* "hbwait" waits for a handler of its own request.                          *)

LEMMA OwnerRequest ==
  ASSUME TypeInv, HeartbeatFromOwner, NEW a \in Agents, NEW h \in Handlers,
         RegisterRequest(a, h) \/ HeartbeatRequest(a, h)
  PROVE  HeartbeatFromOwner'
<1> USE DEF TypeInv, TypeOK, HeartbeatFromOwner
<1>1. \A b \in Agents : wait[b] # h
  <2>1. hpc[h] = "free" /\ h # NoHandler
    BY ConfigAssumption DEF RegisterRequest, HeartbeatRequest, Open
  <2>2. QED
    BY <2>1 DEF WaitInv, RegisterSteps, HeartbeatSteps
<1>2. CASE RegisterRequest(a, h)
  BY <1>1, <1>2 DEF RegisterRequest, Open
<1>3. CASE HeartbeatRequest(a, h)
  <2>1. hpc'[h] = "hbupdate" => hcid'[h] = UidOf[a]
    BY <1>3, ConfigAssumption DEF HeartbeatRequest, Open, Verdict
  <2>2. QED
    BY <1>1, <1>3, <2>1 DEF HeartbeatRequest, Open
<1> QED
  BY <1>2, <1>3

\* A handler's end moves the pods that wait for it, and no other.
LEMMA HandlerEnds ==
  ASSUME NEW h \in Handlers,
         \/ MarkLosesRace(h) \/ InsertAgentCredential(h) \/ UpdateClusterHeartbeat(h)
         \/ MarkClusterSuperseded(h) \/ HandlerDies(h)
  PROVE  /\ wait' = [b \in Agents |-> IF wait[b] = h THEN NoHandler ELSE wait[b]]
         /\ \A b \in Agents : wait[b] # h => pc'[b] = pc[b]
<1>1. CASE HandlerDies(h)
  BY <1>1 DEF HandlerDies
<1>2. CASE MarkLosesRace(h) \/ InsertAgentCredential(h) \/ UpdateClusterHeartbeat(h)
  BY <1>2 DEF MarkLosesRace, InsertAgentCredential, UpdateClusterHeartbeat, Answer
<1>3. CASE MarkClusterSuperseded(h)
  BY <1>3 DEF MarkClusterSuperseded, Answer
<1> QED
  BY <1>1, <1>2, <1>3

LEMMA OwnerStep ==
  ASSUME TypeInv, HeartbeatFromOwner, [Next]_vars
  PROVE  HeartbeatFromOwner'
<1> USE DEF TypeInv, TypeOK, HeartbeatFromOwner, hub, hvars, avars, svars
<1>1. CASE UNCHANGED vars
  BY <1>1 DEF vars
<1>2. ASSUME NEW j \in Jtis, MintBootstrap(j) \/ BootstrapExpires(j) PROVE HeartbeatFromOwner'
  BY <1>2 DEF MintBootstrap, BootstrapExpires
<1>3. ASSUME NEW a \in Agents, AgentStep(a) PROVE HeartbeatFromOwner'
  <2>1. ASSUME NEW h \in Handlers, RegisterRequest(a, h) \/ HeartbeatRequest(a, h)
        PROVE  HeartbeatFromOwner'
    BY <2>1, OwnerRequest
  <2>2. CASE LoadCreds(a) \/ RegisterRefused(a) \/ SaveCreds(a) \/ HeartbeatRefused(a)
    BY <2>2 DEF LoadCreds, RegisterRefused, SaveCreds, HeartbeatRefused, Goto
  <2>3. CASE RefreshAccess(a) \/ RefreshRefused(a) \/ ClearCreds(a)
    BY <2>3 DEF RefreshAccess, RefreshRefused, ClearCreds, Goto
  <2>4. QED
    BY <1>3, <2>1, <2>2, <2>3 DEF AgentStep
<1>4. ASSUME NEW a \in Agents, AgentFault(a) PROVE HeartbeatFromOwner'
  BY <1>4 DEF AgentFault, SaveFails, RefreshFails, ClearFails, RequestTimesOut, Restart, Goto
<1>5. ASSUME NEW h \in Handlers, HandlerStep(h) \/ HandlerDies(h) PROVE HeartbeatFromOwner'
  <2>1. CASE UpsertCluster(h) \/ RereadCluster(h) \/ MarkBootstrapTokenUsed(h)
    BY <2>1 DEF UpsertCluster, RereadCluster, MarkBootstrapTokenUsed, HandlerNext
  <2>2. CASE \/ MarkLosesRace(h) \/ InsertAgentCredential(h) \/ UpdateClusterHeartbeat(h)
             \/ MarkClusterSuperseded(h) \/ HandlerDies(h)
    <3>1. \A k \in Handlers : hpc'[k] = "hbupdate" =>
            k # h /\ hpc'[k] = hpc[k] /\ hcid'[k] = hcid[k]
      BY <2>2 DEF MarkLosesRace, InsertAgentCredential, UpdateClusterHeartbeat,
         MarkClusterSuperseded, HandlerDies, Answer, Forget
    <3>2. \A b \in Agents : wait'[b] # NoHandler =>
            wait[b] # h /\ wait'[b] = wait[b] /\ pc'[b] = pc[b]
      BY <2>2, HandlerEnds
    <3>3. \A b \in Agents : wait'[b] # NoHandler => wait'[b] \in Handlers
      BY <3>2
    <3>4. QED
      BY <3>1, <3>2, <3>3
  <2>3. QED
    BY <1>5, <2>1, <2>2 DEF HandlerStep
<1>6. ASSUME NEW u \in Uids, NEW v \in Uids, RestoreSecret(u, v) PROVE HeartbeatFromOwner'
  BY <1>6 DEF RestoreSecret
<1>7. ASSUME NEW u \in Uids, AccessExpires(u) PROVE HeartbeatFromOwner'
  BY <1>7 DEF AccessExpires
<1>8. QED
  BY <1>1, <1>2, <1>3, <1>4, <1>5, <1>6, <1>7 DEF Next

\* The hub writes a heartbeat only to the row of the cluster its sender runs in.
THEOREM HeartbeatsFromOwners == Spec => []HeartbeatFromOwner
<1>1. Init => HeartbeatFromOwner
  BY DEF Init, HeartbeatFromOwner
<1>2. TypeInv /\ HeartbeatFromOwner /\ [Next]_vars => HeartbeatFromOwner'
  BY OwnerStep
<1> QED
  BY <1>1, <1>2, TypeInvariant, PTL DEF Spec

-----------------------------------------------------------------------------
(* What any step may do to handlers and tokens; used by the theorems below.  *)

\* A busy handler keeps its request, or has just been given one.
LEMMA HandlersMove ==
  ASSUME TypeInv, [Next]_vars, NEW h \in Handlers, hpc'[h] # "free"
  PROVE  \/ /\ hproof'[h] = hproof[h] /\ hcid'[h] = hcid[h]
            /\ hpc'[h] \in RegisterSteps => hpc[h] \in RegisterSteps
            /\ hpc'[h] \in HeartbeatSteps => hpc[h] \in HeartbeatSteps
         \/ \E a \in Agents : RegisterRequest(a, h) \/ HeartbeatRequest(a, h)
<1> DEFINE Kept == /\ hproof'[h] = hproof[h] /\ hcid'[h] = hcid[h]
                   /\ hpc'[h] \in RegisterSteps => hpc[h] \in RegisterSteps
                   /\ hpc'[h] \in HeartbeatSteps => hpc[h] \in HeartbeatSteps
<1> USE DEF TypeInv, TypeOK, RegisterSteps, HeartbeatSteps, hub, hvars, avars, svars
<1>1. CASE UNCHANGED vars
  BY <1>1 DEF vars
<1>2. ASSUME NEW j \in Jtis, MintBootstrap(j) \/ BootstrapExpires(j) PROVE Kept
  BY <1>2 DEF MintBootstrap, BootstrapExpires
<1>3. ASSUME NEW a \in Agents, AgentStep(a)
      PROVE  Kept \/ \E b \in Agents : RegisterRequest(b, h) \/ HeartbeatRequest(b, h)
  <2>1. ASSUME NEW k \in Handlers, k # h, RegisterRequest(a, k) \/ HeartbeatRequest(a, k)
        PROVE  Kept
    BY <2>1 DEF RegisterRequest, HeartbeatRequest, Open
  <2>2. CASE LoadCreds(a) \/ RegisterRefused(a) \/ SaveCreds(a) \/ HeartbeatRefused(a)
    BY <2>2 DEF LoadCreds, RegisterRefused, SaveCreds, HeartbeatRefused
  <2>3. CASE RefreshAccess(a) \/ RefreshRefused(a) \/ ClearCreds(a)
    BY <2>3 DEF RefreshAccess, RefreshRefused, ClearCreds
  <2>4. QED
    BY <1>3, <2>1, <2>2, <2>3 DEF AgentStep
<1>4. ASSUME NEW a \in Agents, AgentFault(a) PROVE Kept
  BY <1>4 DEF AgentFault, SaveFails, RefreshFails, ClearFails, RequestTimesOut, Restart
<1>5. ASSUME NEW k \in Handlers, HandlerStep(k) \/ HandlerDies(k) PROVE Kept
  <2>1. CASE UpsertCluster(k) \/ RereadCluster(k) \/ MarkBootstrapTokenUsed(k)
    BY <2>1 DEF UpsertCluster, RereadCluster, MarkBootstrapTokenUsed, HandlerNext, HandlerAt
  <2>2. CASE \/ MarkLosesRace(k) \/ InsertAgentCredential(k) \/ UpdateClusterHeartbeat(k)
             \/ MarkClusterSuperseded(k) \/ HandlerDies(k)
    BY <2>2 DEF MarkLosesRace, InsertAgentCredential, UpdateClusterHeartbeat,
       MarkClusterSuperseded, HandlerDies, Answer, Forget
  <2>3. QED
    BY <1>5, <2>1, <2>2 DEF HandlerStep
<1>6. ASSUME NEW u \in Uids, NEW v \in Uids, RestoreSecret(u, v) PROVE Kept
  BY <1>6 DEF RestoreSecret
<1>7. ASSUME NEW u \in Uids, AccessExpires(u) PROVE Kept
  BY <1>7 DEF AccessExpires
<1> QED
  BY <1>1, <1>2, <1>3, <1>4, <1>5, <1>6, <1>7 DEF Next

\* A handler that has marked its token ends with the insert or a fault.
LEMMA MarkedLeaves ==
  ASSUME TypeInv, [Next]_vars, NEW h \in Handlers, hpc[h] = "marked"
  PROVE  \/ hpc'[h] = "marked" /\ hproof'[h] = hproof[h]
         \/ InsertAgentCredential(h)
         \/ HandlerDies(h)
<1> DEFINE Kept == hpc'[h] = "marked" /\ hproof'[h] = hproof[h]
<1> USE DEF TypeInv, TypeOK, hub, hvars, avars, svars
<1>1. CASE UNCHANGED vars
  BY <1>1 DEF vars
<1>2. ASSUME NEW j \in Jtis, MintBootstrap(j) \/ BootstrapExpires(j) PROVE Kept
  BY <1>2 DEF MintBootstrap, BootstrapExpires
<1>3. ASSUME NEW a \in Agents, AgentStep(a) PROVE Kept
  <2>1. ASSUME NEW k \in Handlers, RegisterRequest(a, k) \/ HeartbeatRequest(a, k)
        PROVE  Kept
    BY <2>1 DEF RegisterRequest, HeartbeatRequest, Open
  <2>2. CASE LoadCreds(a) \/ RegisterRefused(a) \/ SaveCreds(a) \/ HeartbeatRefused(a)
    BY <2>2 DEF LoadCreds, RegisterRefused, SaveCreds, HeartbeatRefused
  <2>3. CASE RefreshAccess(a) \/ RefreshRefused(a) \/ ClearCreds(a)
    BY <2>3 DEF RefreshAccess, RefreshRefused, ClearCreds
  <2>4. QED
    BY <1>3, <2>1, <2>2, <2>3 DEF AgentStep
<1>4. ASSUME NEW a \in Agents, AgentFault(a) PROVE Kept
  BY <1>4 DEF AgentFault, SaveFails, RefreshFails, ClearFails, RequestTimesOut, Restart
<1>5. ASSUME NEW k \in Handlers, HandlerStep(k) \/ HandlerDies(k)
      PROVE  Kept \/ InsertAgentCredential(h) \/ HandlerDies(h)
  <2>1. CASE UpsertCluster(k) \/ RereadCluster(k) \/ MarkBootstrapTokenUsed(k)
    BY <2>1 DEF UpsertCluster, RereadCluster, MarkBootstrapTokenUsed, HandlerNext, HandlerAt
  <2>2. CASE MarkLosesRace(k) \/ UpdateClusterHeartbeat(k) \/ MarkClusterSuperseded(k)
    <3>1. k # h
      BY <2>2 DEF MarkLosesRace, UpdateClusterHeartbeat, MarkClusterSuperseded, HandlerAt
    <3>2. QED
      BY <2>2, <3>1 DEF MarkLosesRace, UpdateClusterHeartbeat, MarkClusterSuperseded, Answer, Forget
  <2>3. CASE k # h /\ (InsertAgentCredential(k) \/ HandlerDies(k))
    BY <2>3 DEF InsertAgentCredential, HandlerDies, Answer, Forget
  <2>4. QED
    BY <1>5, <2>1, <2>2, <2>3 DEF HandlerStep
<1>6. ASSUME NEW u \in Uids, NEW v \in Uids, RestoreSecret(u, v) PROVE Kept
  BY <1>6 DEF RestoreSecret
<1>7. ASSUME NEW u \in Uids, AccessExpires(u) PROVE Kept
  BY <1>7 DEF AccessExpires
<1> QED
  BY <1>1, <1>2, <1>3, <1>4, <1>5, <1>6, <1>7 DEF Next

-----------------------------------------------------------------------------
(* A used token.  While there was no fault, the only way on from the mark is   *)
(* the insert.                                                               *)

\* A used token has been used all along, or is being marked now.
LEMMA TokensUsed ==
  ASSUME TypeInv, [Next]_vars, NEW j \in Jtis, tok'[j] = "used"
  PROVE  \/ tok[j] = "used"
         \/ \E h \in Handlers : hpc'[h] = "marked" /\ hproof'[h] = j
<1> USE DEF TypeInv, TypeOK, hub, hvars, avars, svars
<1>1. CASE UNCHANGED vars
  BY <1>1 DEF vars
<1>2. ASSUME NEW i \in Jtis, MintBootstrap(i) \/ BootstrapExpires(i) PROVE tok[j] = "used"
  BY <1>2 DEF MintBootstrap, BootstrapExpires
<1>3. ASSUME NEW a \in Agents, AgentStep(a) \/ AgentFault(a) PROVE UNCHANGED tok
  BY <1>3 DEF AgentStep, LoadCreds, RegisterRefused, RegisterRequest, SaveCreds,
     HeartbeatRefused, HeartbeatRequest, RefreshAccess, RefreshRefused, ClearCreds,
     AgentFault, SaveFails, RefreshFails, ClearFails, RequestTimesOut, Restart
<1>4. ASSUME NEW h \in Handlers, MarkBootstrapTokenUsed(h)
      PROVE  tok[j] = "used" \/ (hpc'[h] = "marked" /\ hproof'[h] = j)
  BY <1>4 DEF MarkBootstrapTokenUsed, HandlerNext
<1>5. ASSUME NEW h \in Handlers, HandlerStep(h) \/ HandlerDies(h), ~MarkBootstrapTokenUsed(h)
      PROVE  UNCHANGED tok
  BY <1>5 DEF HandlerStep, HandlerDies, UpsertCluster, RereadCluster, MarkLosesRace,
     InsertAgentCredential, UpdateClusterHeartbeat, MarkClusterSuperseded
<1>6. ASSUME NEW u \in Uids, NEW v \in Uids, RestoreSecret(u, v) PROVE UNCHANGED tok
  BY <1>6 DEF RestoreSecret
<1>7. ASSUME NEW u \in Uids, AccessExpires(u) PROVE UNCHANGED tok
  BY <1>7 DEF AccessExpires
<1> QED
  BY <1>1, <1>2, <1>3, <1>4, <1>5, <1>6, <1>7 DEF Next

\* Faults are counted and never forgotten.
LEMMA FaultsCounted ==
  ASSUME TypeInv, [Next]_vars
  PROVE  faults \in Nat /\ faults' >= faults
<1> USE DEF TypeInv, TypeOK, Fault
<1>0. faults \in Nat
  BY ConfigAssumption
<1>1. faults' = faults \/ Fault
  <2>1. CASE UNCHANGED vars
    BY <2>1 DEF vars
  <2>2. ASSUME NEW j \in Jtis, MintBootstrap(j) \/ BootstrapExpires(j) PROVE UNCHANGED faults
    BY <2>2 DEF MintBootstrap, BootstrapExpires
  <2>3. ASSUME NEW a \in Agents, AgentStep(a) \/ AgentFault(a) PROVE faults' = faults \/ Fault
    BY <2>3 DEF AgentStep, LoadCreds, RegisterRefused, RegisterRequest, LoadFails, SaveCreds,
       HeartbeatRefused, HeartbeatRequest, RefreshAccess, RefreshRefused, ClearCreds,
       AgentFault, SaveFails, RefreshFails, ClearFails, RequestTimesOut, Restart
  <2>4. ASSUME NEW h \in Handlers, HandlerStep(h) \/ HandlerDies(h)
        PROVE  faults' = faults \/ Fault
    BY <2>4 DEF HandlerStep, HandlerDies, UpsertCluster, RereadCluster, MarkLosesRace,
       MarkBootstrapTokenUsed, InsertAgentCredential, UpdateClusterHeartbeat,
       MarkClusterSuperseded, avars, svars
  <2>5. ASSUME NEW u \in Uids, NEW v \in Uids, RestoreSecret(u, v) PROVE Fault
    BY <2>5 DEF RestoreSecret
  <2>6. ASSUME NEW u \in Uids, AccessExpires(u) PROVE UNCHANGED faults
    BY <2>6 DEF AccessExpires
  <2>7. QED
    BY <2>1, <2>2, <2>3, <2>4, <2>5, <2>6 DEF Next
<1> QED
  BY <1>0, <1>1

LEMMA BurntStep ==
  ASSUME TypeInv, BurntOnlyByFault, [Next]_vars
  PROVE  BurntOnlyByFault'
<1> SUFFICES ASSUME faults' = 0, NEW j \in Jtis, tok'[j] = "used"
             PROVE  \/ \E i \in DOMAIN creds' : creds'[i].proof = j
                    \/ \E h \in Handlers : hpc'[h] = "marked" /\ hproof'[h] = j
  BY DEF BurntOnlyByFault
<1>0. faults = 0
  BY FaultsCounted
<1>1. CASE tok[j] # "used"
  BY <1>1, TokensUsed
<1>2. ASSUME NEW i \in DOMAIN creds, creds[i].proof = j
      PROVE  \E k \in DOMAIN creds' : creds'[k].proof = j
  BY <1>2, CredsGrow
<1>3. ASSUME NEW h \in Handlers, hpc[h] = "marked", hproof[h] = j
      PROVE  \/ \E i \in DOMAIN creds' : creds'[i].proof = j
             \/ hpc'[h] = "marked" /\ hproof'[h] = j
  <2>1. ~HandlerDies(h)
    BY <1>0 DEF HandlerDies, Fault
  <2>2. CASE InsertAgentCredential(h)
    <3> DEFINE c == [cid |-> hcid[h], epoch |-> hepoch[h], proof |-> hproof[h]]
    <3>1. c \in Cred /\ creds \in Seq(Cred) /\ c.proof = j
      BY <1>3 DEF Cred, TypeInv, TypeOK
    <3>2. creds' = Append(creds, c)
      BY <2>2 DEF InsertAgentCredential
    <3> HIDE DEF c
    <3>3. Len(creds) + 1 \in DOMAIN creds' /\ creds'[Len(creds) + 1] = c
      BY <3>1, <3>2, CredSeq
    <3>4. QED
      BY <3>1, <3>3
  <2>3. QED
    BY <1>3, <2>1, <2>2, MarkedLeaves
<1> QED
  BY <1>0, <1>1, <1>2, <1>3 DEF BurntOnlyByFault

\* Without faults a bootstrap token that was used up has bought its credential, or
\* its handler is about to insert it.
THEOREM TokensBurntByFaults == Spec => []BurntOnlyByFault
<1>1. Init => BurntOnlyByFault
  BY DEF Init, BurntOnlyByFault
<1>2. TypeInv /\ BurntOnlyByFault /\ [Next]_vars => BurntOnlyByFault'
  BY BurntStep
<1> QED
  BY <1>1, <1>2, TypeInvariant, PTL DEF Spec

-----------------------------------------------------------------------------
(* The refinement.  What a handler's checks found out when its request came    *)
(* still holds when it writes: a token it registers with was minted, a service *)
(* account is the hub's own, and the credential of a heartbeat was issued.    *)

Vetted(h) ==
  /\ hpc[h] \in RegisterSteps =>
       \/ hproof[h] \in Jtis /\ tok[hproof[h]] # "unminted"
       \/ hproof[h] = SA /\ hcid[h] = HubUid
  /\ hpc[h] \in HeartbeatSteps => \E i \in DOMAIN creds : creds[i].cid = hcid[h]

LedgerInv == \A h \in Handlers : Vetted(h)

LEMMA LedgerInvInit == Init => LedgerInv
  BY DEF Init, LedgerInv, Vetted, RegisterSteps, HeartbeatSteps

\* Minting is not undone.
LEMMA TokensMinted ==
  ASSUME TypeInv, [Next]_vars, NEW j \in Jtis, tok[j] # "unminted"
  PROVE  tok'[j] # "unminted"
<1> USE DEF TypeInv, TypeOK, hub, hvars, avars, svars
<1>1. CASE UNCHANGED vars
  BY <1>1 DEF vars
<1>2. ASSUME NEW i \in Jtis, MintBootstrap(i) \/ BootstrapExpires(i)
      PROVE  tok'[j] # "unminted"
  BY <1>2 DEF MintBootstrap, BootstrapExpires
<1>3. ASSUME NEW a \in Agents, AgentStep(a) \/ AgentFault(a) PROVE UNCHANGED tok
  BY <1>3 DEF AgentStep, LoadCreds, RegisterRefused, RegisterRequest, SaveCreds,
     HeartbeatRefused, HeartbeatRequest, RefreshAccess, RefreshRefused, ClearCreds,
     AgentFault, SaveFails, RefreshFails, ClearFails, RequestTimesOut, Restart
<1>4. ASSUME NEW h \in Handlers, HandlerStep(h) \/ HandlerDies(h)
      PROVE  tok'[j] # "unminted"
  BY <1>4 DEF HandlerStep, HandlerDies, UpsertCluster, RereadCluster, MarkBootstrapTokenUsed,
     MarkLosesRace, InsertAgentCredential, UpdateClusterHeartbeat, MarkClusterSuperseded
<1>5. ASSUME NEW u \in Uids, NEW v \in Uids, RestoreSecret(u, v) PROVE UNCHANGED tok
  BY <1>5 DEF RestoreSecret
<1>6. ASSUME NEW u \in Uids, AccessExpires(u) PROVE UNCHANGED tok
  BY <1>6 DEF AccessExpires
<1> QED
  BY <1>1, <1>2, <1>3, <1>4, <1>5, <1>6 DEF Next

LEMMA VettedOpen ==
  ASSUME TypeInv, NEW a \in Agents, NEW h \in Handlers,
         RegisterRequest(a, h) \/ HeartbeatRequest(a, h)
  PROVE  Vetted(h)'
<1> USE DEF TypeInv, TypeOK, RegisterSteps, HeartbeatSteps
<1>1. CASE RegisterRequest(a, h)
  BY <1>1, ConfigAssumption DEF RegisterRequest, ProofAccepted, Open, Vetted, hub
<1>2. CASE HeartbeatRequest(a, h)
  <2>1. mem[a] \in DOMAIN creds
    <3>1. pc[a] = "beating" /\ mem[a] \in 0..Len(creds) /\ mem[a] # 0
      BY <1>2 DEF HeartbeatRequest
    <3>2. QED
      BY <3>1, CredsTyped
  <2>2. hcid'[h] = creds[mem[a]].cid /\ creds' = creds /\ hpc'[h] \in HeartbeatSteps
    BY <1>2 DEF HeartbeatRequest, Open, CredOf, hub
  <2>3. QED
    BY <2>1, <2>2 DEF Vetted
<1> QED
  BY <1>1, <1>2

LEMMA LedgerInvStep ==
  ASSUME TypeInv, LedgerInv, [Next]_vars
  PROVE  LedgerInv'
<1> SUFFICES ASSUME NEW h \in Handlers, hpc'[h] # "free" PROVE Vetted(h)'
  BY DEF LedgerInv, Vetted, RegisterSteps, HeartbeatSteps
<1>1. ASSUME NEW a \in Agents, RegisterRequest(a, h) \/ HeartbeatRequest(a, h)
      PROVE  Vetted(h)'
  BY <1>1, VettedOpen
<1>2. CASE /\ hproof'[h] = hproof[h] /\ hcid'[h] = hcid[h]
           /\ hpc'[h] \in RegisterSteps => hpc[h] \in RegisterSteps
           /\ hpc'[h] \in HeartbeatSteps => hpc[h] \in HeartbeatSteps
  BY <1>2, CredsGrow, TokensMinted DEF LedgerInv, Vetted
<1> QED
  BY <1>1, <1>2, HandlersMove

Minted == {j \in Jtis : tok[j] # "unminted"}

LEMMA LedgerInitially == Init => Ledger!Init
  BY DEF Init, Ledger!Init

\* The insert is the ledger's issue: nobody else bought with the token, and the
\* epoch the handler carries is one the cluster has reached.
LEMMA InsertIssues ==
  ASSUME TypeInv, EpochInv, SingleUseInv, LedgerInv,
         NEW h \in Handlers, InsertAgentCredential(h)
  PROVE  Ledger!Next
<1>1. /\ hpc[h] = "marked" /\ UNCHANGED <<tok, epoch, status>>
      /\ creds' = Append(creds, [cid |-> hcid[h], epoch |-> hepoch[h], proof |-> hproof[h]])
  BY DEF InsertAgentCredential, HandlerAt
<1>2. hcid[h] \in Uids /\ hproof[h] \in Jtis \cup {SA}
  BY DEF TypeInv, TypeOK, Proofs
<1>3. hepoch[h] \in 1..epoch[hcid[h]]
  BY <1>1 DEF EpochInv
<1>4. Ledger!Entitled(hproof[h], hcid[h])
  <2>1. \/ hproof[h] \in Jtis /\ tok[hproof[h]] # "unminted"
        \/ hproof[h] = SA /\ hcid[h] = HubUid
    BY <1>1 DEF LedgerInv, Vetted, RegisterSteps
  <2>2. hproof[h] \in Jtis => \A i \in DOMAIN creds : creds[i].proof # hproof[h]
    BY <1>1 DEF SingleUseInv, Holds
  <2>3. QED
    BY <2>1, <2>2 DEF Ledger!Entitled
<1>5. Ledger!Issue(hcid[h], hepoch[h], hproof[h])
  BY <1>1, <1>3, <1>4 DEF Ledger!Issue
<1> QED
  BY <1>2, <1>3, <1>5 DEF Ledger!Next

LEMMA UpsertRotates ==
  ASSUME TypeInv, NEW h \in Handlers, UpsertCluster(h)
  PROVE  Ledger!Next
<1>1. hcid[h] \in Uids
  BY DEF TypeInv, TypeOK
<1>2. Ledger!Rotate(hcid[h])
  BY DEF UpsertCluster, Ledger!Rotate
<1> QED
  BY <1>1, <1>2 DEF Ledger!Next

\* Both of the heartbeat handler's updates are reports of a bearer.
LEMMA HeartbeatReports ==
  ASSUME TypeInv, LedgerInv, NEW h \in Handlers,
         UpdateClusterHeartbeat(h) \/ MarkClusterSuperseded(h)
  PROVE  Ledger!Next \/ UNCHANGED Ledger!ledger
<1>1. hcid[h] \in Uids /\ hpc[h] \in HeartbeatSteps /\ UNCHANGED <<tok, epoch, creds>>
  BY DEF TypeInv, TypeOK, UpdateClusterHeartbeat, MarkClusterSuperseded, HandlerAt, HeartbeatSteps
<1>2. Ledger!Bearer(hcid[h])
  BY <1>1 DEF LedgerInv, Vetted, Ledger!Bearer
<1>3. \/ UNCHANGED status
      \/ status' = [status EXCEPT ![hcid[h]] = "active"]
      \/ status' = [status EXCEPT ![hcid[h]] = "superseded"]
  BY DEF UpdateClusterHeartbeat, MarkClusterSuperseded
<1>4. CASE UNCHANGED status
  BY <1>1, <1>4 DEF Ledger!ledger
<1>5. ASSUME NEW s \in {"active", "superseded"}, status' = [status EXCEPT ![hcid[h]] = s]
      PROVE  Ledger!Next
  <2>1. Ledger!Report(hcid[h])
    BY <1>1, <1>2, <1>5 DEF Ledger!Report
  <2>2. QED
    BY <1>1, <2>1 DEF Ledger!Next
<1> QED
  BY <1>3, <1>4, <1>5

LEMMA MintMints ==
  ASSUME TypeInv, NEW j \in Jtis, MintBootstrap(j)
  PROVE  Ledger!Next
<1>1. tok[j] = "unminted" /\ tok' = [tok EXCEPT ![j] = "minted"] /\ UNCHANGED <<epoch, status, creds>>
  BY DEF MintBootstrap
<1>2. Minted' = Minted \cup {j} /\ j \notin Minted
  BY <1>1 DEF Minted, TypeInv, TypeOK
<1>3. Ledger!Mint(j)
  BY <1>1, <1>2 DEF Ledger!Mint, Minted
<1> QED
  BY <1>3 DEF Ledger!Next

\* Expiry and use of a minted token leave it minted.
LEMMA TokenStutters ==
  ASSUME TypeInv, LedgerInv, SingleUseInv,
         \/ \E j \in Jtis : BootstrapExpires(j)
         \/ \E h \in Handlers : MarkBootstrapTokenUsed(h)
  PROVE  UNCHANGED Ledger!ledger
<1>1. /\ UNCHANGED <<epoch, status, creds>>
      /\ \E j \in Jtis, s \in {"expired", "used"} :
           tok[j] # "unminted" /\ tok' = [tok EXCEPT ![j] = s]
  <2>1. ASSUME NEW j \in Jtis, BootstrapExpires(j)
        PROVE  tok[j] # "unminted" /\ tok' = [tok EXCEPT ![j] = "expired"]
    BY <2>1 DEF BootstrapExpires
  <2>2. ASSUME NEW h \in Handlers, MarkBootstrapTokenUsed(h)
        PROVE  /\ hproof[h] \in Jtis /\ tok[hproof[h]] # "unminted"
               /\ tok' = [tok EXCEPT ![hproof[h]] = "used"]
    <3>1. hpc[h] = "reread" /\ tok' = [tok EXCEPT ![hproof[h]] = "used"]
      BY <2>2 DEF MarkBootstrapTokenUsed, HandlerAt
    <3>2. hproof[h] \in Jtis
      BY <3>1 DEF SingleUseInv
    <3>3. tok[hproof[h]] # "unminted"
      BY <3>1, <3>2, ConfigAssumption DEF LedgerInv, Vetted, RegisterSteps
    <3>4. QED
      BY <3>1, <3>2, <3>3
  <2>3. UNCHANGED <<epoch, status, creds>>
    BY DEF BootstrapExpires, MarkBootstrapTokenUsed
  <2>4. QED
    BY <2>1, <2>2, <2>3
<1>2. Minted' = Minted
  BY <1>1 DEF Minted, TypeInv, TypeOK
<1> QED
  BY <1>1, <1>2 DEF Ledger!ledger, Minted

LEMMA LedgerStep ==
  ASSUME TypeInv, EpochInv, SingleUseInv, LedgerInv, [Next]_vars
  PROVE  [Ledger!Next]_(Ledger!ledger)
<1>1. CASE UNCHANGED hub
  BY <1>1 DEF hub, Ledger!ledger
<1>2. CASE UNCHANGED vars
  BY <1>1, <1>2 DEF vars
<1>3. ASSUME NEW j \in Jtis, MintBootstrap(j) \/ BootstrapExpires(j)
      PROVE  Ledger!Next \/ UNCHANGED Ledger!ledger
  BY <1>3, MintMints, TokenStutters
<1>4. ASSUME NEW a \in Agents, AgentStep(a) \/ AgentFault(a) PROVE UNCHANGED hub
  BY <1>4 DEF AgentStep, LoadCreds, RegisterRefused, RegisterRequest, SaveCreds,
     HeartbeatRefused, HeartbeatRequest, RefreshAccess, RefreshRefused, ClearCreds,
     AgentFault, SaveFails, RefreshFails, ClearFails, RequestTimesOut, Restart
<1>5. ASSUME NEW h \in Handlers, HandlerStep(h) \/ HandlerDies(h)
      PROVE  Ledger!Next \/ UNCHANGED Ledger!ledger
  <2>1. CASE RereadCluster(h) \/ MarkLosesRace(h) \/ HandlerDies(h)
    BY <1>1, <2>1 DEF RereadCluster, MarkLosesRace, HandlerDies
  <2>2. QED
    BY <1>5, <2>1, UpsertRotates, TokenStutters, InsertIssues, HeartbeatReports DEF HandlerStep
<1>6. ASSUME NEW u \in Uids, NEW v \in Uids, RestoreSecret(u, v) PROVE UNCHANGED hub
  BY <1>6 DEF RestoreSecret
<1>7. ASSUME NEW u \in Uids, AccessExpires(u) PROVE UNCHANGED hub
  BY <1>7 DEF AccessExpires
<1> QED
  BY <1>1, <1>2, <1>3, <1>4, <1>5, <1>6, <1>7 DEF Next

\* The hub's handlers, statement by statement, implement the ledger: however they
\* interleave, die or lose the agents they work for, each write is one of its steps.
THEOREM HubKeepsLedger == Spec => KeepsLedger
<1>1. TypeInv /\ EpochInv /\ [Next]_vars => EpochInv'
  BY EpochStep
<1>2. TypeInv /\ SingleUseInv /\ [Next]_vars => SingleUseInv'
  BY SingleUseStep
<1>3. TypeInv /\ LedgerInv /\ [Next]_vars => LedgerInv'
  BY LedgerInvStep
<1>4. TypeInv /\ EpochInv /\ SingleUseInv /\ LedgerInv /\ [Next]_vars =>
        [Ledger!Next]_(Ledger!ledger)
  BY LedgerStep
<1> QED
  BY <1>1, <1>2, <1>3, <1>4, LedgerInitially, LedgerInvInit, EpochInit, SingleUseInit,
     TypeInvariant, PTL DEF Spec, KeepsLedger, Ledger!Spec

===============================================================================
