----------------------------- MODULE SessionLife -----------------------------
(***************************************************************************)
(* What the backend promises about the session of one registered cluster,  *)
(* without clients, locks and calls: it is offline or live, changes only   *)
(* while somebody is at work on it, and is lost by a removal or a crash    *)
(* and in no other way.                                                    *)
(***************************************************************************)
CONSTANT Requests

VARIABLES
  phase, \* "changing": there is a client, and nobody watches the cluster yet
  busy   \* the requests that have undertaken to have the cluster watched

life == <<phase, busy>>

Init ==
  /\ phase = "offline"
  /\ busy = {}

\* A request that is about to replace the client may end the watching first.
Undertake(r) ==
  /\ r \notin busy
  /\ busy' = busy \cup {r}
  /\ phase' \in {phase} \cup (IF phase = "live" THEN {"changing"} ELSE {})

Connect(r) ==
  /\ r \in busy
  /\ phase = "offline"
  /\ phase' = "changing"
  /\ UNCHANGED busy

\* There is something to watch by then: the session has a client or is removed.
Watch(r) ==
  /\ r \in busy
  /\ phase # "offline"
  /\ busy' = busy \ {r}
  /\ phase' = IF phase = "changing" THEN "live" ELSE phase

\* A request that only looks at the cluster helps out.
Help ==
  /\ phase = "changing"
  /\ phase' = "live"
  /\ UNCHANGED busy

Remove ==
  /\ phase' = "removed"
  /\ UNCHANGED busy

Crash ==
  /\ busy' = {}
  /\ phase' \in IF phase = "removed" THEN {"removed"} ELSE {"offline", "live"}

Next ==
  \/ \E r \in Requests : Undertake(r) \/ Connect(r) \/ Watch(r)
  \/ Help \/ Remove \/ Crash

Spec == Init /\ [][Next]_life
==============================================================================
