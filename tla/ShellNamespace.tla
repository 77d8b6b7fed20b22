---------------------------- MODULE ShellNamespace ----------------------------
(***************************************************************************)
(* How a terminal tab keeps the namespace filter of the user interface and *)
(* the namespace of the cluster's kubeconfig together                      *)
(* (components/shell/ShellSession.tsx of the frontend).                    *)
(*                                                                         *)
(* The tab polls the backend for the kubeconfig's namespace and sets the   *)
(* filter to it; a namespace the user picks is typed into the shell as a   *)
(* kubectl command, which changes the kubeconfig.  A poll closes over the  *)
(* cluster it was started for and cannot be cancelled while it waits for   *)
(* its answer.  The connection is module ShellConnection's; here the       *)
(* terminal may become attached and detached at any time.                  *)
(***************************************************************************)
EXTENDS Naturals, Sequences, FiniteSets

CONSTANTS
  Contexts,   \* the clusters; each has a kubeconfig with one namespace
  Namespaces,
  Pollers,    \* pending timers and requests of syncShellState
  MaxMounts,  \* bound on how often a cluster is shown
  MaxPicks,   \* bound on what the user picks and types
  MaxTyped,   \* bound on commands the shell has not run yet
  NoOne

ASSUME NamespaceAssumption ==
  /\ NoOne \notin Contexts \cup Namespaces \cup Pollers
  /\ "all" \notin Namespaces
  /\ IsFiniteSet(Pollers) /\ Pollers # {}
  /\ MaxMounts \in Nat
  /\ MaxPicks \in Nat

VARIABLES
  at,        \* the cluster the tab is mounted for, NoOne while the panel is closed
  attached,  \* connected: the shell's output has arrived
  just,      \* justConnectedRef.current
  active,    \* activeNamespace of the namespace store, "all" for every namespace
  status,    \* shellStatus.namespace of the tab, NoOne before the first answer
  file,      \* per cluster: the namespace in its kubeconfig
  typed,     \* commands the shell has not run yet: the namespaces they set
  poller,    \* every poll: where it is, its cluster, and whether it is a loop
  loopRef,   \* syncTimeoutRef.current
  shotRef,   \* syncTimerRef.current
  overtaken, \* history: an effect was cleaned up while its loop waited for an answer
  mounts,    \* how often the tab was opened or shown another cluster
  picks      \* how often the user has picked or typed a namespace

timers == <<loopRef, shotRef>>
nvars == <<at, attached, just, active, status, file, typed, poller, timers, overtaken, mounts, picks>>

\* own: started by the tab that is mounted now, whose refs and states it uses.
Poll == [phase : {"free", "timer", "asking", "answered"}, cluster : Contexts \cup {NoOne},
         loop : BOOLEAN, own : BOOLEAN, ns : Namespaces \cup {NoOne}]

Free == [phase |-> "free", cluster |-> NoOne, loop |-> FALSE, own |-> FALSE, ns |-> NoOne]

SyncTypeOK ==
  /\ at \in Contexts \cup {NoOne}
  /\ attached \in BOOLEAN
  /\ just \in BOOLEAN
  /\ active \in Namespaces \cup {"all"}
  /\ status \in Namespaces \cup {NoOne}
  /\ file \in [Contexts -> Namespaces]
  /\ typed \in Seq(Namespaces)
  /\ poller \in [Pollers -> Poll]
  /\ loopRef \in Pollers \cup {NoOne}
  /\ shotRef \in Pollers \cup {NoOne}
  /\ overtaken \in BOOLEAN
  /\ mounts \in 0..MaxMounts
  /\ picks \in 0..MaxPicks

SyncInit ==
  /\ at = NoOne
  /\ attached = FALSE
  /\ just = FALSE
  /\ active = "all" \* a persisted pick is PickNamespace before Open
  /\ status = NoOne
  /\ file \in [Contexts -> Namespaces]
  /\ typed = <<>>
  /\ poller = [p \in Pollers |-> Free]
  /\ loopRef = NoOne
  /\ shotRef = NoOne
  /\ overtaken = FALSE
  /\ mounts = 0
  /\ picks = 0

-----------------------------------------------------------------------------
(* The two effects.                                                        *)

Started(phase, c, loop) ==
  [phase |-> phase, cluster |-> c, loop |-> loop, own |-> TRUE, ns |-> NoOne]

\* An id for a new poll; any of the free ones will do.
FreeOf(polls) == CHOOSE p \in Pollers : (\E q \in Pollers : polls[q].phase = "free") => polls[p].phase = "free"

\* scheduleStateSync for cluster c, polls being the polls there are: the timer
\* that is armed already is replaced.
Schedule(polls, c) ==
  \E p \in Pollers :
    /\ IF shotRef # NoOne THEN p = shotRef ELSE p = FreeOf(polls) /\ polls[p].phase = "free"
    /\ poller' = [polls EXCEPT ![p] = Started("timer", c, FALSE)]
    /\ shotRef' = p

\* Faulty variant: the filter value "all" is typed like a namespace.
TypesAll(on, ns, seen, fresh) == on /\ seen # ns /\ ~fresh

\* Faulty variant: the effect does not ask what the shell's namespace is.
TypesUnseen(on, ns, seen, fresh) == on /\ ns # "all" /\ ~fresh

\* Whether the namespace effect types a command: connected (on), the filter is
\* ns and the shell's namespace was last seen to be seen.
Types(on, ns, seen, fresh) == on /\ ns # "all" /\ seen # ns /\ ~fresh

\* Faulty variant: the cleanup leaves the timer of the loop armed.
ClearShotOnly ==
  [p \in Pollers |-> IF p = shotRef THEN Free ELSE poller[p]]

Mounts == mounts < MaxMounts /\ mounts' = mounts + 1

\* The polls left by the cleanup of the loop's effect.
ClearTimers ==
  [p \in Pollers |-> IF p \in {loopRef, shotRef} THEN Free ELSE poller[p]]

Overtakes == \E p \in Pollers : poller[p].loop /\ p # loopRef

-----------------------------------------------------------------------------
(* The tab is mounted, shown another cluster, unmounted.                   *)

Open(c) ==
  /\ at = NoOne
  /\ Mounts
  /\ at' = c
  /\ LET p == FreeOf(poller)
     IN  /\ poller[p].phase = "free"
         /\ poller' = [poller EXCEPT ![p] = Started("asking", c, TRUE)]
  /\ UNCHANGED <<attached, just, active, status, file, typed, timers, overtaken, picks>>

\* The namespace effect still sees the connection of the cluster before: what
\* it types goes to a socket that is not open yet, but it schedules a poll.
Switch(c) ==
  /\ at # NoOne
  /\ c # at
  /\ Mounts
  /\ at' = c
  /\ attached' = FALSE
  /\ typed' = <<>>
  /\ overtaken' = (overtaken \/ Overtakes)
  /\ loopRef' = NoOne
  /\ LET p     == FreeOf(ClearTimers)
         polls == [ClearTimers EXCEPT ![p] = Started("asking", c, TRUE)]
         q     == FreeOf(polls)
     IN  /\ ClearTimers[p].phase = "free"
         /\ IF Types(attached, active, status, just)
            THEN /\ polls[q].phase = "free"
                 /\ poller' = [polls EXCEPT ![q] = Started("timer", c, FALSE)]
                 /\ shotRef' = q
            ELSE poller' = polls /\ shotRef' = NoOne
  /\ UNCHANGED <<just, active, status, file, picks>>

Close ==
  /\ at # NoOne
  /\ at' = NoOne
  /\ attached' = FALSE
  /\ just' = FALSE
  /\ status' = NoOne
  /\ typed' = <<>>
  /\ overtaken' = (overtaken \/ Overtakes)
  /\ poller' = [p \in Pollers |-> [ClearTimers[p] EXCEPT !.own = FALSE]]
  /\ loopRef' = NoOne
  /\ shotRef' = NoOne
  /\ UNCHANGED <<active, file, mounts, picks>>

-----------------------------------------------------------------------------
(* The connection and the shell behind it.                                 *)

\* The first output may arrive before or after the three seconds of
\* justConnectedRef, which begin when the socket opens.
Attach(fresh) ==
  /\ at # NoOne
  /\ ~attached
  /\ attached' = TRUE
  /\ just' = fresh
  /\ IF Types(TRUE, active, status, fresh)
     THEN typed' = <<active>> /\ Schedule(poller, at)
     ELSE UNCHANGED <<typed, poller, shotRef>>
  /\ UNCHANGED <<at, active, status, file, loopRef, overtaken, mounts, picks>>

Detach ==
  /\ attached
  /\ attached' = FALSE
  /\ typed' = <<>>
  /\ UNCHANGED <<at, just, active, status, file, poller, timers, overtaken, mounts, picks>>

\* handleReconnect
ClickReconnect ==
  /\ at # NoOne
  /\ attached' = FALSE
  /\ typed' = <<>>
  /\ Schedule(poller, at)
  /\ UNCHANGED <<at, just, active, status, file, loopRef, overtaken, mounts, picks>>

JustEnds ==
  /\ just
  /\ just' = FALSE
  /\ UNCHANGED <<at, attached, active, status, file, typed, poller, timers, overtaken, mounts, picks>>

ShellRuns ==
  /\ typed # <<>>
  /\ file' = [file EXCEPT ![at] = Head(typed)]
  /\ typed' = Tail(typed)
  /\ UNCHANGED <<at, attached, just, active, status, poller, timers, overtaken, mounts, picks>>

-----------------------------------------------------------------------------
(* The user.                                                               *)

MayAct == picks < MaxPicks /\ Len(typed) < MaxTyped /\ picks' = picks + 1

\* A pick that is not typed is kept in the store only.
PickNamespace(ns) ==
  /\ MayAct
  /\ ns # active
  /\ active' = ns
  /\ IF Types(attached, ns, status, just)
     THEN typed' = Append(typed, ns) /\ Schedule(poller, at)
     ELSE UNCHANGED <<typed, poller, shotRef>>
  /\ UNCHANGED <<at, attached, just, status, file, loopRef, overtaken, mounts>>

\* A command of the user's own that sets the namespace.
TypeNamespace(ns) ==
  /\ MayAct
  /\ attached
  /\ typed' = Append(typed, ns)
  /\ Schedule(poller, at)
  /\ UNCHANGED <<at, attached, just, active, status, file, loopRef, overtaken, mounts>>

-----------------------------------------------------------------------------
(* Polls.                                                                  *)

TimerExpires(p) ==
  /\ poller[p].phase = "timer"
  /\ poller' = [poller EXCEPT ![p].phase = "asking"]
  /\ IF ~poller[p].own THEN UNCHANGED timers
     ELSE IF poller[p].loop THEN loopRef' = NoOne /\ UNCHANGED shotRef
     ELSE shotRef' = NoOne /\ UNCHANGED loopRef
  /\ UNCHANGED <<at, attached, just, active, status, file, typed, overtaken, mounts, picks>>

\* GetKCLITUIState reads the kubeconfig.
BackendReads(p) ==
  /\ poller[p].phase = "asking"
  /\ poller' = [poller EXCEPT ![p].phase = "answered", ![p].ns = file[poller[p].cluster]]
  /\ UNCHANGED <<at, attached, just, active, status, file, typed, timers, overtaken, mounts, picks>>

\* What becomes of the polls and the loop's ref when p's request is over: a loop
\* arms its timer whatever came of the request, in its own tab's ref.
Rearmed(p) == [poller EXCEPT ![p] = IF @.loop THEN [@ EXCEPT !.phase = "timer", !.ns = NoOne] ELSE Free]
RearmedRef(p) == IF poller[p].loop /\ poller[p].own THEN p ELSE loopRef

PollFails(p) ==
  /\ poller[p].phase = "asking"
  /\ poller' = Rearmed(p)
  /\ loopRef' = RearmedRef(p)
  /\ UNCHANGED <<at, attached, just, active, status, file, typed, shotRef, overtaken, mounts, picks>>

\* applyShellState.  The store renders the new filter at once and React the new
\* status later: the namespace effect of the tab that is mounted sees the filter
\* changed and the status before, and types the namespace that was just read.
\* The answer to a tab that is gone sets the filter only.
ApplyShellState(p) ==
  /\ poller[p].phase = "answered"
  /\ active' = poller[p].ns
  /\ status' = IF poller[p].own THEN poller[p].ns ELSE status
  /\ loopRef' = RearmedRef(p)
  /\ IF active # poller[p].ns /\ Types(attached, poller[p].ns, status, just)
     THEN /\ Len(typed) < MaxTyped
          /\ typed' = Append(typed, poller[p].ns)
          /\ Schedule(Rearmed(p), at)
     ELSE poller' = Rearmed(p) /\ UNCHANGED <<typed, shotRef>>
  /\ UNCHANGED <<at, attached, just, file, overtaken, mounts, picks>>

-----------------------------------------------------------------------------
Polling(p) ==
  \/ TimerExpires(p) \/ BackendReads(p) \/ PollFails(p) \/ ApplyShellState(p)

SyncNext ==
  \/ \E c \in Contexts : Open(c) \/ Switch(c)
  \/ Close
  \/ (\E fresh \in BOOLEAN : Attach(fresh)) \/ Detach \/ ClickReconnect \/ JustEnds \/ ShellRuns
  \/ \E ns \in Namespaces \cup {"all"} : PickNamespace(ns)
  \/ \E ns \in Namespaces : TypeNamespace(ns)
  \/ \E p \in Pollers : Polling(p)

SyncSpec == SyncInit /\ [][SyncNext]_nvars

-----------------------------------------------------------------------------
(* Properties.                                                             *)

\* Polling does not multiply: the tab has one loop, whatever was scheduled,
\* failed or clicked meanwhile, and a switch leaves none behind unless it
\* overtook an answer; then the loop before it goes on as well.
OneLoop ==
  /\ Cardinality({p \in Pollers : poller[p].loop}) <= mounts
  /\ at # NoOne => \E p \in Pollers : poller[p].loop /\ poller[p].own /\ poller[p].cluster = at
  /\ overtaken \/ \A p \in Pollers : poller[p].loop =>
       /\ poller[p].cluster = at
       /\ \A q \in Pollers : poller[q].loop => q = p
       /\ poller[p].phase = "timer" <=> loopRef = p

\* Filter, status and kubeconfig agree, nothing is typed, and every poll on its
\* way is about the cluster shown and brings no other namespace.
Agreed ==
  /\ at # NoOne
  /\ typed = <<>>
  /\ active = file[at] /\ status = file[at]
  /\ \A p \in Pollers : poller[p].phase # "free" =>
       /\ poller[p].cluster = at
       /\ poller[p].phase = "answered" => poller[p].ns = file[at]

\* Only the user ends an agreement: no connection that is lost or made anew, no
\* retry, timer or answer makes the tab type or change the filter on its own
\* (the conditions of the namespace effect, ShellSession.tsx:507-511).
AgreementLasts ==
  [][Agreed => Agreed' \/ at' # at \/ picks' # picks]_nvars
=============================================================================
