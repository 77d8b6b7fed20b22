----------------------------- MODULE TerminalLink -----------------------------
(***************************************************************************)
(* What a terminal tab promises its user, whatever sockets and timers it   *)
(* is made of: it shows one cluster at a time, a line it has is one to     *)
(* that cluster, and a line that is lost is tried again without a click.   *)
(***************************************************************************)
CONSTANTS Clusters, None

VARIABLES
  shown, \* the cluster the tab is shown for, None while the panel is closed
  link,  \* "off", "idle", "trying" or "attached"
  line,  \* the cluster at the other end of the line, None without a line
  down   \* the backend is known to be down

abstract == <<shown, link, line, down>>

Init == shown = None /\ link = "off" /\ line = None /\ down = FALSE

\* Opening the panel, switching clusters and a click on Reconnect start anew,
\* as does a retry; with the backend known to be down nothing is tried.
Show(c) ==
  /\ shown' = c
  /\ link' = IF down THEN "idle" ELSE "trying"
  /\ line' = None
  /\ UNCHANGED down

Hide ==
  /\ shown # None
  /\ shown' = None
  /\ link' = "off"
  /\ line' = None
  /\ UNCHANGED down

Attach ==
  /\ link = "trying"
  /\ link' = "attached"
  /\ line' = shown
  /\ UNCHANGED <<shown, down>>

\* Whatever is known of the backend, a lost line is tried again.
Lose ==
  /\ link = "attached"
  /\ link' = "trying"
  /\ line' = None
  /\ UNCHANGED <<shown, down>>

Fail == link = "trying" /\ link' = "idle" /\ UNCHANGED <<shown, line, down>>

Learn == down' = ~down /\ UNCHANGED <<shown, link, line>>

Next == (\E c \in Clusters : Show(c)) \/ Hide \/ Attach \/ Lose \/ Fail \/ Learn

Spec == Init /\ [][Next]_abstract
=============================================================================
