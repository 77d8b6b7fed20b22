--------------------------- MODULE CredentialLedger ---------------------------
(***************************************************************************)
(* What the hub promises about the credentials of remote clusters, without *)
(* handlers, pods and requests: a ledger in which tokens are exchanged for *)
(* credentials one by one, clusters outdate what they were given, and only *)
(* bearers of a credential have a say in a cluster's status.               *)
(***************************************************************************)
EXTENDS Naturals, Sequences

CONSTANTS Uids, HubUid, Jtis, SA

VARIABLES
  minted, \* the bootstrap tokens an admin has handed out
  epoch,  \* per cluster: the number of times its credentials were outdated
  status, \* per cluster: what its bearers were last seen to be
  issued  \* the credentials, in the order of issue

ledger == <<minted, epoch, status, issued>>

Init ==
  /\ minted = {}
  /\ epoch = [u \in Uids |-> 0]
  /\ status = [u \in Uids |-> "none"]
  /\ issued = <<>>

Mint(j) ==
  /\ j \notin minted
  /\ minted' = minted \cup {j}
  /\ UNCHANGED <<epoch, status, issued>>

\* Everything issued to cluster u so far is outdated, for ever.
Rotate(u) ==
  /\ epoch' = [epoch EXCEPT ![u] = @ + 1]
  /\ status' = [status EXCEPT ![u] = "active"]
  /\ UNCHANGED <<minted, issued>>

\* A token buys one credential, of whatever cluster presents it; a service account
\* buys credentials of the hub's own cluster only.
Entitled(p, u) ==
  \/ p \in minted /\ \A i \in DOMAIN issued : issued[i].proof # p
  \/ p = SA /\ u = HubUid

\* No credential is issued ahead of its cluster's epoch.
Issue(u, e, p) ==
  /\ Entitled(p, u)
  /\ e \in 1..epoch[u]
  /\ issued' = Append(issued, [cid |-> u, epoch |-> e, proof |-> p])
  /\ UNCHANGED <<minted, epoch, status>>

\* Somebody presents a credential of cluster u.
Bearer(u) == \E i \in DOMAIN issued : issued[i].cid = u

Report(u) ==
  /\ Bearer(u)
  /\ \E s \in {"active", "superseded"} : status' = [status EXCEPT ![u] = s]
  /\ UNCHANGED <<minted, epoch, issued>>

Next ==
  \/ \E j \in Jtis : Mint(j)
  \/ \E u \in Uids : Rotate(u) \/ Report(u)
  \/ \E u \in Uids, p \in Jtis \cup {SA} : \E e \in 1..epoch[u] : Issue(u, e, p)

Spec == Init /\ [][Next]_ledger
===============================================================================
