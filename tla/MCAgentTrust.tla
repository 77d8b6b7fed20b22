----------------------------- MODULE MCAgentTrust -----------------------------
(* Instances of AgentTrust for TLC: the hub runs in u1, a remote cluster u2    *)
(* was given one bootstrap token.                                              *)
EXTENDS AgentTrust, TLC

CONSTANTS a1, a2, a3, u1, u2, j1

\* The old and the new pod of a rolling update in the remote cluster, and the
\* pod of the hub's own cluster.
RollingUidOf   == [a \in Agents |-> IF a = a3 THEN u1 ELSE u2]
RollingProofOf == [a \in Agents |-> IF a = a3 THEN SA ELSE j1]

\* The two pods of the rolling update are alike, and so are the handlers.
Swaps == Permutations({a1, a2}) \cup Permutations(Handlers)
==============================================================================
