--------------------------------- MODULE Chat ---------------------------------
(***************************************************************************)
(* The assistant's chat (frontend: hooks/useChatController.ts,             *)
(* services/ai/chatClient.ts, stores/chatStore.ts, the input of            *)
(* components/ai/ChatPanel.tsx): one ChatClient per active cluster, opened *)
(* by the first message, and per cluster a transcript, a session and the   *)
(* past chats.                                                             *)
(*                                                                         *)
(* sendMessage waits twice, for the socket and for the session, and goes   *)
(* on with whatever client is current by then.  Frames carry no turn: they *)
(* are applied to the last turn of the transcript of their client's        *)
(* cluster.  A user turn and the assistant turn opened for it are appended *)
(* in one task and count as one turn here.  The brain answers the messages *)
(* of a connection in order; what it says is not modelled, how a turn ends *)
(* is.                                                                     *)
(***************************************************************************)
EXTENDS Naturals, Sequences, FiniteSets

CONSTANTS
  Clusters,
  Clients,     \* ChatClient objects, each with its socket
  Sends,       \* calls of sendMessage
  MaxHistory,  \* past chats kept per cluster, 5 in the code
  MaxTurns,    \* bound on messages
  MaxChats,    \* bound on new chats and restored ones
  MaxSwitches, \* bound on changes of the active cluster
  None

ASSUME ChatAssumption ==
  /\ None \notin Clusters \cup Clients
  /\ IsFiniteSet(Sends)
  /\ MaxHistory \in Nat \ {0}
  /\ {MaxTurns, MaxChats, MaxSwitches} \subseteq Nat

VARIABLES
  active,     \* the active cluster
  client,     \* every ChatClient
  clientRef,  \* clientRef.current
  connection, \* connectionState of the store, whichever client wrote it last
  session,    \* the clusters with an entry in sessionByCluster
  send,       \* every call of sendMessage: what it waits for
  transcript, \* per cluster: the turns of the present chat
  history,    \* per cluster: the transcripts of past chats, newest first
  asked,      \* per client: turns the brain has been sent and not answered
  up,         \* the backend is reachable
  turns,      \* how many messages were sent; also the last turn's number
  placed,     \* history: the turns begun for each cluster, without those of
              \* chats that a switch of the cluster has dropped
  lost,       \* history: turns whose answer cannot reach them any more
  chats, switches

calls == <<send, turns, placed>>
books == <<session, transcript, history, lost>>
cvars == <<active, client, clientRef, connection, books, calls, asked, up, chats, switches>>

\* stream: the gRPC stream the backend opens to the brain for the socket.
Client == [cluster : Clusters \cup {None}, stream : {"pending", "up", "ended"},
           sock : {"none", "connecting", "open", "aborting", "closing"}]

Turn == [id : 1..turns, state : {"streaming", "done", "error", "historical"}]

Call == [stage : {"free", "opening", "creating"}, cluster : Clusters \cup {None},
         via : Clients \cup {None}]

ChatTypeOK ==
  /\ active \in Clusters \cup {None}
  /\ client \in [Clients -> Client]
  /\ clientRef \in Clients \cup {None}
  /\ connection \in {"idle", "connecting", "open", "error"}
  /\ session \subseteq Clusters
  /\ send \in [Sends -> Call]
  /\ transcript \in [Clusters -> Seq(Turn)]
  /\ history \in [Clusters -> Seq(Seq(Turn))]
  /\ \A c \in Clusters : Len(history[c]) <= MaxHistory
  /\ asked \in [Clients -> Seq(1..turns)]
  /\ up \in BOOLEAN
  /\ turns \in 0..MaxTurns
  /\ placed \in [Clusters -> SUBSET (1..turns)]
  /\ lost \subseteq 1..turns
  /\ chats \in 0..MaxChats
  /\ switches \in 0..MaxSwitches

NoClient == [cluster |-> None, sock |-> "none", stream |-> "pending"]
NoCall   == [stage |-> "free", cluster |-> None, via |-> None]

ChatInit ==
  /\ active = None
  /\ client = [k \in Clients |-> NoClient]
  /\ clientRef = None
  /\ connection = "idle"
  /\ session = {}
  /\ send = [p \in Sends |-> NoCall]
  /\ transcript = [c \in Clusters |-> <<>>]
  /\ history = [c \in Clusters |-> <<>>]
  /\ asked = [k \in Clients |-> <<>>]
  /\ up = TRUE
  /\ turns = 0
  /\ placed = [c \in Clusters |-> {}]
  /\ lost = {}
  /\ chats = 0
  /\ switches = 0

-----------------------------------------------------------------------------
Last(chat) == chat[Len(chat)]

Streaming(chat) == chat # <<>> /\ Last(chat).state = "streaming"

\* The turn a change of the last turn strands: answers go elsewhere from now on.
Stranded(chat) == IF Streaming(chat) THEN {Last(chat).id} ELSE {}

Ids(chat) == {chat[i].id : i \in 1..Len(chat)}

InFlight(k) == {asked[k][i] : i \in 1..Len(asked[k])}

\* sessionExpired of the panel
Expired(c) == c \notin session /\ \E i \in 1..Len(transcript[c]) : transcript[c][i].state = "historical"

InputDisabled == active = None \/ connection = "error" \/ Expired(active)

\* applyEventToActiveTurn and finishActiveTurn for a frame of client k; state
\* is what becomes of the last turn.
Applied(k, state) ==
  LET c == client[k].cluster
  IN  IF transcript[c] = <<>> THEN transcript
      ELSE [transcript EXCEPT ![c][Len(transcript[c])].state = state]

-----------------------------------------------------------------------------
(* sendMessage.                                                            *)

Sending == {p \in Sends : send[p].stage # "free"}

\* The turns are appended first; send() throws unless the socket of the client
\* that is current now is open, and a stream that has ended swallows it.
\* clients: the clients by then.
Ask(c, clients) ==
  LET id      == turns + 1
      reaches == clientRef # None /\ clients[clientRef].sock = "open"
                                  /\ clients[clientRef].stream # "ended"
  IN  /\ turns' = id
      /\ placed' = [placed EXCEPT ![c] = @ \cup {id}]
      /\ transcript' = [transcript EXCEPT ![c] = Append(@, [id |-> id, state |-> "streaming"])]
      /\ asked' = IF reaches THEN [asked EXCEPT ![clientRef] = Append(@, id)] ELSE asked
      /\ lost' = lost \cup Stranded(transcript[c])
                      \cup (IF reaches /\ clients[clientRef].cluster = c THEN {} ELSE {id})

\* From step 3 on: the session of the cluster, or a request for one.
GoesOn(p, c, clients) ==
  IF c \in session
  THEN Ask(c, clients) /\ send' = [send EXCEPT ![p] = NoCall]
  ELSE /\ send' = [send EXCEPT ![p] = [stage |-> "creating", cluster |-> c, via |-> None]]
       /\ UNCHANGED <<turns, placed, transcript, asked, lost>>

MaySend(p) ==
  /\ ~InputDisabled
  /\ send[p].stage = "free"
  /\ turns + Cardinality(Sending) < MaxTurns

\* A socket that is still connecting resolves open() at once.
SendMessage(p) ==
  /\ MaySend(p)
  /\ client[clientRef].sock # "none"
  /\ GoesOn(p, active, client)
  /\ UNCHANGED <<active, client, clientRef, connection, session, history, up, chats, switches>>

SendOpens(p) ==
  /\ MaySend(p)
  /\ client[clientRef].sock = "none"
  /\ client' = [client EXCEPT ![clientRef].sock = "connecting", ![clientRef].stream = "pending"]
  /\ connection' = "connecting"
  /\ send' = [send EXCEPT ![p] = [stage |-> "opening", cluster |-> active, via |-> clientRef]]
  /\ UNCHANGED <<active, clientRef, books, turns, placed, asked, up, chats, switches>>

\* onopen; the call that opened the socket goes on in the same task.
Opened(k) ==
  /\ client[k].sock = "connecting"
  /\ up
  /\ client' = [client EXCEPT ![k].sock = "open"]
  /\ connection' = "open"
  /\ \E p \in Sends : send[p].via = k /\ GoesOn(p, send[p].cluster, client')
  /\ UNCHANGED <<active, clientRef, session, history, up, chats, switches>>

SessionCreated(p) ==
  /\ send[p].stage = "creating"
  /\ up
  /\ session' = session \cup {send[p].cluster}
  /\ Ask(send[p].cluster, client)
  /\ send' = [send EXCEPT ![p] = NoCall]
  /\ UNCHANGED <<active, client, clientRef, connection, history, up, chats, switches>>

SessionFails(p) ==
  /\ send[p].stage = "creating"
  /\ ~up
  /\ send' = [send EXCEPT ![p] = NoCall]
  /\ UNCHANGED <<active, client, clientRef, connection, books, turns, placed, asked, up, chats, switches>>

-----------------------------------------------------------------------------
(* The end of a socket.  onerror rejects open(), and onclose follows.      *)

Rejected(k) == [p \in Sends |-> IF send[p].via = k THEN NoCall ELSE send[p]]

\* A handshake that fails, or a connection that is lost.
Dropped(k) ==
  /\ client[k].sock \in {"connecting", "open"}
  /\ ~up
  /\ client' = [client EXCEPT ![k].sock = "none"]
  /\ connection' = "error"
  /\ send' = Rejected(k)
  /\ asked' = [asked EXCEPT ![k] = <<>>]
  /\ lost' = lost \cup InFlight(k)
  /\ UNCHANGED <<active, clientRef, session, transcript, history, turns, placed, up, chats, switches>>

\* The close event of a client that is not current any more.  A socket closed
\* while it was connecting reports an error, and the store takes it as its own.
LateClose(k) ==
  /\ client[k].sock \in {"aborting", "closing"}
  /\ connection' \in IF client[k].sock = "aborting" THEN {"error"}
                     ELSE IF up THEN {"idle"} ELSE {"idle", "error"}
  /\ client' = [client EXCEPT ![k] = NoClient]
  /\ send' = Rejected(k)
  /\ UNCHANGED <<active, clientRef, books, turns, placed, asked, up, chats, switches>>

-----------------------------------------------------------------------------
(* The brain at the other end of client k's socket.                        *)

StreamOpens(k) ==
  /\ client[k].sock = "open"
  /\ client[k].stream = "pending"
  /\ client' = [client EXCEPT ![k].stream = "up"]
  /\ UNCHANGED <<active, clientRef, connection, books, calls, asked, up, chats, switches>>

\* An error frame, then a clean close.
StreamRefused(k) ==
  /\ client[k].sock = "open"
  /\ client[k].stream = "pending"
  /\ client' = [client EXCEPT ![k].sock = "none"]
  /\ connection' = "idle"
  /\ transcript' = Applied(k, "error")
  /\ asked' = [asked EXCEPT ![k] = <<>>]
  /\ lost' = lost \cup InFlight(k)
  /\ UNCHANGED <<active, clientRef, session, history, calls, up, chats, switches>>

\* stream_error; the socket stays open.  "not found" clears the session.
StreamBreaks(k) ==
  /\ client[k].sock = "open"
  /\ client[k].stream = "up"
  /\ client' = [client EXCEPT ![k].stream = "ended"]
  /\ transcript' = Applied(k, "error")
  /\ session' \in {session, session \ {client[k].cluster}}
  /\ asked' = [asked EXCEPT ![k] = <<>>]
  /\ lost' = lost \cup InFlight(k)
  /\ UNCHANGED <<active, clientRef, connection, history, calls, up, chats, switches>>

Answers(k) == client[k].sock = "open" /\ client[k].stream = "up" /\ asked[k] # <<>>

\* Faulty variant: the error of a lost session is not shown on the turn.
EndsSilently(k) ==
  /\ Answers(k)
  /\ \/ transcript' = Applied(k, "done") /\ UNCHANGED session
     \/ session' = session \ {client[k].cluster} /\ UNCHANGED transcript
  /\ asked' = [asked EXCEPT ![k] = Tail(@)]
  /\ UNCHANGED <<active, client, clientRef, connection, history, lost, calls, up, chats, switches>>

\* "done" or "error": the turn that is last ends, be it the one answered or not.
Ends(k) ==
  /\ Answers(k)
  /\ \E state \in {"done", "error"} : transcript' = Applied(k, state)
  /\ asked' = [asked EXCEPT ![k] = Tail(@)]
  /\ UNCHANGED <<active, client, clientRef, connection, session, history, lost, calls, up, chats, switches>>

\* Faulty variant: only the session is forgotten.
RespawnKeepsTurns(k) ==
  /\ Answers(k)
  /\ session' = session \ {client[k].cluster}
  /\ asked' = [asked EXCEPT ![k] = Tail(@)]
  /\ UNCHANGED <<active, client, clientRef, connection, transcript, history, lost, calls, up, chats, switches>>

\* Aborted, spawn_changed: markAllHistorical.
BrainRespawned(k) ==
  /\ Answers(k)
  /\ LET c == client[k].cluster
     IN  /\ transcript' = [transcript EXCEPT ![c] = [i \in 1..Len(@) |-> [@[i] EXCEPT !.state = "historical"]]]
         /\ session' = session \ {c}
  /\ asked' = [asked EXCEPT ![k] = Tail(@)]
  /\ UNCHANGED <<active, client, clientRef, connection, history, lost, calls, up, chats, switches>>

-----------------------------------------------------------------------------
(* The header's buttons and the active cluster.                            *)

\* Faulty variant: the list of past chats is not cut.
KeptAll(chat, past) == IF chat = <<>> THEN past ELSE <<chat>> \o past

\* The past chats with the present one in front, cut to the newest.
Kept(chat, past) ==
  IF chat = <<>> THEN past
  ELSE <<chat>> \o SubSeq(past, 1, IF Len(past) < MaxHistory THEN Len(past) ELSE MaxHistory - 1)

NewChat ==
  /\ active # None
  /\ chats < MaxChats
  /\ chats' = chats + 1
  /\ history' = [history EXCEPT ![active] = Kept(transcript[active], @)]
  /\ lost' = lost \cup Stranded(transcript[active])
  /\ transcript' = [transcript EXCEPT ![active] = <<>>]
  /\ session' = session \ {active}
  /\ UNCHANGED <<active, client, clientRef, connection, calls, asked, up, switches>>

\* Faulty variant: the chat that is restored stays in the list.
RestoreKeepsEntry(i) ==
  /\ active # None
  /\ chats < MaxChats
  /\ chats' = chats + 1
  /\ i \in 1..Len(history[active])
  /\ history' = [history EXCEPT ![active] = Kept(transcript[active], @)]
  /\ lost' = lost \cup Stranded(transcript[active])
  /\ transcript' = [transcript EXCEPT ![active] = history[active][i]]
  /\ session' = session \ {active}
  /\ UNCHANGED <<active, client, clientRef, connection, calls, asked, up, switches>>

RestoreSession(i) ==
  /\ active # None
  /\ chats < MaxChats
  /\ chats' = chats + 1
  /\ i \in 1..Len(history[active])
  /\ LET others == SubSeq(history[active], 1, i - 1) \o SubSeq(history[active], i + 1, Len(history[active]))
     IN  history' = [history EXCEPT ![active] = Kept(transcript[active], others)]
  /\ lost' = lost \cup Stranded(transcript[active])
  /\ transcript' = [transcript EXCEPT ![active] = history[active][i]]
  /\ session' = session \ {active}
  /\ UNCHANGED <<active, client, clientRef, connection, calls, asked, up, switches>>

Idle(k) == k # clientRef /\ client[k].sock = "none" /\ \A p \in Sends : send[p].via # k

\* The store's onClusterSwitch: the present chats of all clusters are dropped,
\* and their sessions; past chats stay.
DropChats ==
  /\ transcript' = [c \in Clusters |-> <<>>]
  /\ session' = {}
  /\ placed' = [c \in Clusters |-> placed[c] \ Ids(transcript[c])]

\* Faulty variant: the effect returns no cleanup.
NotClosed == client

\* close() of the client that was current.
Closed ==
  IF clientRef = None THEN client
  ELSE [client EXCEPT ![clientRef].sock =
          CASE @ = "connecting" -> "aborting" [] @ = "open" -> "closing" [] OTHER -> @]

\* The store's listener runs if the switch is emitted, which one to no cluster
\* never is.  At this commit only tests call emitClusterSwitch: a switch with the
\* listener and one without are both steps here.
Switch(c) ==
  /\ c # active
  /\ switches < MaxSwitches
  /\ switches' = switches + 1
  /\ active' = c
  /\ IF c = None
     THEN client' = Closed /\ clientRef' = None
     ELSE \E k \in Clients :
            /\ Idle(k)
            /\ client' = [Closed EXCEPT ![k] = [NoClient EXCEPT !.cluster = c]]
            /\ clientRef' = k
  /\ \/ /\ c # None
        /\ DropChats
        /\ connection' = "idle"
     \/ /\ connection' = IF clientRef = None THEN connection ELSE "idle"
        /\ UNCHANGED <<session, transcript, placed>>
  /\ asked' = [k \in Clients |-> IF k = clientRef THEN <<>> ELSE asked[k]]
  /\ lost' = lost \cup (IF clientRef = None THEN {} ELSE InFlight(clientRef))
  /\ UNCHANGED <<history, send, turns, up, chats>>

BackendChanges ==
  /\ up' = ~up
  /\ UNCHANGED <<active, client, clientRef, connection, books, calls, asked, chats, switches>>

ChatNext ==
  \/ \E p \in Sends : SendMessage(p) \/ SendOpens(p) \/ SessionCreated(p) \/ SessionFails(p)
  \/ \E k \in Clients :
       \/ Opened(k) \/ Dropped(k) \/ LateClose(k)
       \/ StreamOpens(k) \/ StreamRefused(k) \/ StreamBreaks(k)
       \/ Ends(k) \/ BrainRespawned(k)
  \/ NewChat
  \/ \E i \in 1..MaxHistory : RestoreSession(i)
  \/ \E c \in Clusters \cup {None} : Switch(c)
  \/ BackendChanges

ChatSpec == ChatInit /\ [][ChatNext]_cvars

\* Handshakes end, close events arrive, requests and messages are answered.
ChatFairness ==
  /\ \A p \in Sends : WF_cvars(SessionCreated(p) \/ SessionFails(p))
  /\ \A k \in Clients :
       /\ WF_cvars(Opened(k) \/ Dropped(k)) /\ WF_cvars(LateClose(k))
       /\ WF_cvars(StreamOpens(k) \/ StreamRefused(k)) /\ WF_cvars(Ends(k))

ChatFairSpec == ChatSpec /\ ChatFairness

-----------------------------------------------------------------------------
(* Properties.                                                             *)

\* One conversation at a time: a socket that is open or connecting is that of
\* the client of the active cluster.
OneConnection ==
  \A k \in Clients : client[k].sock \in {"connecting", "open"} =>
    k = clientRef /\ client[k].cluster = active

Chats(c) == {transcript[c]} \cup {history[c][i] : i \in 1..Len(history[c])}

\* No turn is in two chats, and new chats and restored ones lose none, as long
\* as fewer were begun than are kept: a turn goes only with the whole chat that
\* a switch of the cluster drops while it is the present one.
TurnsKept ==
  \A c \in Clusters :
    /\ \A i \in 1..Len(history[c]) :
         /\ Ids(history[c][i]) \cap Ids(transcript[c]) = {}
         /\ \A j \in 1..(i - 1) : Ids(history[c][i]) \cap Ids(history[c][j]) = {}
    /\ chats <= MaxHistory => UNION {Ids(chat) : chat \in Chats(c)} = placed[c]

\* The turn at the end of a chat streams only while its message is with the
\* brain, or once its answer was cut off: by a message that was never sent, a
\* connection or stream that ended, a newer message or another chat.
StreamingHasReason ==
  \A c \in Clusters : Streaming(transcript[c]) =>
    \/ Last(transcript[c]).id \in lost
    \/ \E k \in Clients : /\ client[k].cluster = c
                          /\ client[k].sock = "open"
                          /\ Last(transcript[c]).id \in InFlight(k)

\* Such a turn ends.
TurnsEnd ==
  \A c \in Clusters :
    Streaming(transcript[c]) ~> (~Streaming(transcript[c]) \/ Last(transcript[c]).id \in lost)
=============================================================================
