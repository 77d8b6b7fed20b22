------------------------------ MODULE ChatProofs ------------------------------
(***************************************************************************)
(* Proofs about Chat for any clusters, clients and bounds and any finite   *)
(* number of calls of sendMessage.                                         *)
(***************************************************************************)
EXTENDS Chat, FiniteSetTheorems, SequenceTheorems, TLAPS

\* The current client is that of the active cluster, and not one being closed.
Current ==
  /\ clientRef = None <=> active = None
  /\ clientRef # None => /\ client[clientRef].cluster = active
                          /\ client[clientRef].sock \notin {"aborting", "closing"}

\* Every call that waits may yet add a turn, and waits for a cluster's.
Waiting ==
  /\ turns + Cardinality(Sending) <= MaxTurns
  /\ \A p \in Sends : /\ send[p].stage # "free" => send[p].cluster \in Clusters
                      /\ send[p].via # None => send[p].stage = "opening"

\* A past chat that ends in a streaming turn ends in a stranded one.
PastStranded ==
  \A c \in Clusters : \A i \in 1..Len(history[c]) :
    Streaming(history[c][i]) => Last(history[c][i]).id \in lost

ChatInv ==
  /\ ChatTypeOK /\ OneConnection /\ StreamingHasReason
  /\ Current /\ Waiting /\ PastStranded

LEMMA Bounds ==
  /\ MaxHistory \in Nat /\ MaxHistory >= 1 /\ MaxTurns \in Nat /\ MaxChats \in Nat
  /\ MaxSwitches \in Nat /\ None \notin Clusters /\ None \notin Clients /\ IsFiniteSet(Sends)
  BY ChatAssumption

-----------------------------------------------------------------------------
(* Chats and their last turns.                                             *)

LEMMA LastTyped ==
  ASSUME NEW chat \in Seq(Turn), chat # <<>>
  PROVE  Len(chat) \in 1..Len(chat) /\ Last(chat) \in Turn
<1>1. Len(chat) \in Nat \ {0}
  BY EmptySeq
<1> QED
  BY <1>1, ElementOfSeq DEF Last

LEMMA StrandedTyped ==
  ASSUME NEW chat \in Seq(Turn)
  PROVE  Stranded(chat) \subseteq 1..turns
  BY LastTyped DEF Stranded, Streaming, Turn

LEMMA InFlightTyped ==
  ASSUME ChatTypeOK, NEW k \in Clients
  PROVE  InFlight(k) \subseteq 1..turns
<1>1. asked[k] \in Seq(1..turns)
  BY DEF ChatTypeOK
<1> QED
  BY <1>1, ElementOfSeq DEF InFlight

\* Turns only become more: a chat stays a chat.
LEMMA ChatsStay ==
  ASSUME turns \in Nat, turns' \in Nat, turns <= turns'
  PROVE  /\ Turn \subseteq Turn'
         /\ \A chat \in Seq(Turn) : chat \in Seq(Turn')
         /\ \A past \in Seq(Seq(Turn)) : past \in Seq(Seq(Turn'))
         /\ \A q \in Seq(1..turns) : q \in Seq(1..turns')
<1>1. 1..turns \subseteq 1..turns'
  OBVIOUS
<1>2. Turn \subseteq Turn'
  BY <1>1 DEF Turn
<1>3. \A chat \in Seq(Turn) : chat \in Seq(Turn')
  BY <1>2, SeqMonotonic
<1>4. Seq(Turn) \subseteq Seq(Turn')
  BY <1>3
<1>5. \A past \in Seq(Seq(Turn)) : past \in Seq(Seq(Turn'))
  BY <1>4, SeqMonotonic
<1>6. \A q \in Seq(1..turns) : q \in Seq(1..turns')
  BY <1>1, SeqMonotonic
<1> QED
  BY <1>2, <1>3, <1>5, <1>6

\* A frame that ends the last turn leaves it ended, and the other chats alone.
LEMMA AppliedEnds ==
  ASSUME ChatTypeOK, NEW k \in Clients, client[k].cluster \in Clusters, NEW state \in {"done", "error"}
  PROVE  /\ Applied(k, state) \in [Clusters -> Seq(Turn)]
         /\ ~Streaming(Applied(k, state)[client[k].cluster])
         /\ \A c \in Clusters \ {client[k].cluster} : Applied(k, state)[c] = transcript[c]
<1> DEFINE c == client[k].cluster
           n == Len(transcript[c])
           t == [transcript[c][n] EXCEPT !.state = state]
<1>1. transcript \in [Clusters -> Seq(Turn)] /\ c \in Clusters /\ transcript[c] \in Seq(Turn)
  BY DEF ChatTypeOK
<1>2. CASE transcript[c] = <<>>
  BY <1>1, <1>2 DEF Applied, Streaming
<1>3. CASE transcript[c] # <<>>
  <2>1. n \in 1..n /\ transcript[c][n] \in Turn
    BY <1>1, <1>3, LastTyped DEF Last
  <2>2. t \in Turn /\ t.state = state
    BY <2>1 DEF Turn
  <2>3. Applied(k, state) = [transcript EXCEPT ![c] = [transcript[c] EXCEPT ![n] = t]]
    BY <1>1, <1>3 DEF Applied
  <2> HIDE DEF t
  <2>4. /\ [transcript[c] EXCEPT ![n] = t] \in Seq(Turn)
        /\ Len([transcript[c] EXCEPT ![n] = t]) = n
        /\ [transcript[c] EXCEPT ![n] = t][n] = t
    BY <1>1, <2>1, <2>2, ExceptSeq
  <2>5. Applied(k, state)[c] = [transcript[c] EXCEPT ![n] = t]
    BY <1>1, <2>3
  <2>6. ~Streaming(Applied(k, state)[c])
    BY <2>2, <2>4, <2>5 DEF Streaming, Last
  <2>7. Applied(k, state) \in [Clusters -> Seq(Turn)]
    BY <1>1, <2>3, <2>4
  <2>8. \A d \in Clusters \ {c} : Applied(k, state)[d] = transcript[d]
    BY <1>1, <2>3
  <2>9. QED
    BY <2>6, <2>7, <2>8
<1> QED
  BY <1>2, <1>3

-----------------------------------------------------------------------------
(* The past chats.                                                         *)

\* The present chat put before some of the past ones: never more than are kept.
LEMMA KeptPast ==
  ASSUME NEW S, NEW chat \in S, NEW past \in Seq(S), Len(past) <= MaxHistory
  PROVE  /\ Kept(chat, past) \in Seq(S)
         /\ Len(Kept(chat, past)) <= MaxHistory
         /\ \A i \in 1..Len(Kept(chat, past)) :
              Kept(chat, past)[i] = chat \/ \E j \in 1..Len(past) : Kept(chat, past)[i] = past[j]
<1> DEFINE m == IF Len(past) < MaxHistory THEN Len(past) ELSE MaxHistory - 1
           cut == SubSeq(past, 1, m)
<1>1. CASE chat = <<>>
  BY <1>1, LenProperties DEF Kept
<1>2. CASE chat # <<>>
  <2>1. Len(past) \in Nat /\ m \in Nat /\ m <= Len(past) /\ m < MaxHistory
    BY Bounds, LenProperties
  <2>2. \A i \in 1..m : past[i] \in S
    BY <2>1, ElementOfSeq
  <2> HIDE DEF m
  <2>3. /\ cut \in Seq(S) /\ Len(cut) = m
        /\ \A i \in 1..m : cut[i] = past[i]
    BY <2>1, <2>2, SubSeqProperties
  <2> HIDE DEF cut
  <2>4. <<chat>> \in Seq(S) /\ Len(<<chat>>) = 1 /\ <<chat>>[1] = chat
    OBVIOUS
  <2>5. Kept(chat, past) = <<chat>> \o cut
    BY <1>2 DEF Kept, cut, m
  <2>6. /\ <<chat>> \o cut \in Seq(S) /\ Len(<<chat>> \o cut) = 1 + m
        /\ \A i \in 1..(1 + m) : (<<chat>> \o cut)[i] = IF i <= 1 THEN <<chat>>[i] ELSE cut[i - 1]
    BY <2>3, <2>4, ConcatProperties
  <2>7. ASSUME NEW i \in 1..(1 + m)
        PROVE  (<<chat>> \o cut)[i] = chat \/ \E j \in 1..Len(past) : (<<chat>> \o cut)[i] = past[j]
    <3>1. CASE i = 1
      BY <2>1, <2>4, <2>6, <3>1
    <3>2. CASE i # 1
      <4>1. i - 1 \in 1..m /\ i - 1 \in 1..Len(past)
        BY <2>1, <3>2
      <4>2. (<<chat>> \o cut)[i] = past[i - 1]
        BY <2>3, <2>6, <3>2, <4>1
      <4>3. QED
        BY <4>1, <4>2
    <3>3. QED
      BY <3>1, <3>2
  <2>8. 1 + m <= MaxHistory
    BY <2>1, Bounds
  <2>9. QED
    BY <2>5, <2>6, <2>7, <2>8
<1> QED
  BY <1>1, <1>2

\* The past chats without the one that is restored.
Without(past, i) == SubSeq(past, 1, i - 1) \o SubSeq(past, i + 1, Len(past))

LEMMA OtherPast ==
  ASSUME NEW S, NEW past \in Seq(S), NEW i \in 1..Len(past)
  PROVE  /\ Without(past, i) \in Seq(S) /\ Len(Without(past, i)) <= Len(past)
         /\ \A n \in 1..Len(Without(past, i)) : \E j \in 1..Len(past) : Without(past, i)[n] = past[j]
<1> DEFINE front == SubSeq(past, 1, i - 1)
           back  == SubSeq(past, i + 1, Len(past))
<1>0. Without(past, i) = front \o back
  BY DEF Without
<1>1. Len(past) \in Nat /\ \A j \in 1..Len(past) : past[j] \in S
  BY LenProperties, ElementOfSeq
<1>2. /\ front \in Seq(S) /\ Len(front) = i - 1
      /\ \A n \in 1..(i - 1) : front[n] = past[n]
  BY <1>1, SubSeqProperties
<1>3. /\ back \in Seq(S) /\ Len(back) = Len(past) - i
      /\ \A n \in 1..(Len(past) - i) : back[n] = past[i + n]
  BY <1>1, SubSeqProperties
<1> HIDE DEF front, back
<1>4. /\ front \o back \in Seq(S) /\ Len(front \o back) = Len(past) - 1
      /\ \A n \in 1..(Len(past) - 1) : (front \o back)[n] = IF n <= i - 1 THEN front[n] ELSE back[n - (i - 1)]
  <2>1. /\ front \o back \in Seq(S) /\ Len(front \o back) = Len(front) + Len(back)
        /\ \A n \in 1..(Len(front) + Len(back)) :
             (front \o back)[n] = IF n <= Len(front) THEN front[n] ELSE back[n - Len(front)]
    BY <1>2, <1>3, ConcatProperties
  <2>2. Len(front) + Len(back) = Len(past) - 1
    BY <1>1, <1>2, <1>3
  <2>3. QED
    BY <1>2, <2>1, <2>2
<1>5. ASSUME NEW n \in 1..(Len(past) - 1) PROVE \E j \in 1..Len(past) : (front \o back)[n] = past[j]
  <2>1. CASE n <= i - 1
    BY <1>1, <1>2, <1>4, <2>1
  <2>2. CASE ~(n <= i - 1)
    <3>1. n - (i - 1) \in 1..(Len(past) - i) /\ i + (n - (i - 1)) = n + 1 /\ n + 1 \in 1..Len(past)
      BY <1>1, <2>2
    <3>2. QED
      BY <1>3, <1>4, <2>2, <3>1
  <2>3. QED
    BY <2>1, <2>2
<1>6. /\ front \o back \in Seq(S) /\ Len(front \o back) <= Len(past)
      /\ \A n \in 1..Len(front \o back) : \E j \in 1..Len(past) : (front \o back)[n] = past[j]
  <2>1. Len(front \o back) <= Len(past) /\ 1..Len(front \o back) = 1..(Len(past) - 1)
    BY <1>1, <1>4
  <2>2. QED
    BY <1>4, <1>5, <2>1
<1> QED
  BY <1>0, <1>6

-----------------------------------------------------------------------------
(* The calls that wait.                                                    *)

LEMMA SendingSize ==
  /\ IsFiniteSet(Sending) /\ Cardinality(Sending) \in Nat
  /\ \A p \in Sends : /\ Cardinality(Sending \cup {p}) <= Cardinality(Sending) + 1
                      /\ p \in Sending => Cardinality(Sending \ {p}) = Cardinality(Sending) - 1
<1>1. Sending \subseteq Sends
  BY DEF Sending
<1>2. IsFiniteSet(Sending) /\ Cardinality(Sending) \in Nat
  BY <1>1, Bounds, FS_Subset, FS_CardinalityType
<1> QED
  BY <1>2, FS_AddElement, FS_RemoveElement

LEMMA CallsTyped ==
  /\ NoCall \in Call
  /\ \A c \in Clusters : [stage |-> "creating", cluster |-> c, via |-> None] \in Call
  /\ \A c \in Clusters, k \in Clients : [stage |-> "opening", cluster |-> c, via |-> k] \in Call
  BY DEF NoCall, Call

\* Calls that end and no turn more: there is room for what the others add.
LEMMA CallsEnd ==
  ASSUME ChatInv, send' \in [Sends -> Call], turns' = turns,
         \A p \in Sends : send'[p] = send[p] \/ send'[p] = NoCall
  PROVE  Waiting'
<1>1. Sending' \subseteq Sending
  BY DEF Sending, NoCall
<1>2. Cardinality(Sending') <= Cardinality(Sending) /\ Cardinality(Sending') \in Nat
  BY <1>1, SendingSize, FS_Subset, FS_CardinalityType
<1>3. turns \in Nat /\ turns' + Cardinality(Sending') <= MaxTurns
  BY <1>2, SendingSize, Bounds DEF ChatInv, ChatTypeOK, Waiting
<1>4. \A p \in Sends : /\ send'[p].stage # "free" => send'[p].cluster \in Clusters
                       /\ send'[p].via # None => send'[p].stage = "opening"
  BY DEF ChatInv, Waiting, NoCall
<1> QED
  BY <1>3, <1>4 DEF Waiting

LEMMA RejectedCalls ==
  ASSUME ChatTypeOK, NEW k \in Clients
  PROVE  /\ Rejected(k) \in [Sends -> Call]
         /\ \A p \in Sends : Rejected(k)[p] = send[p] \/ Rejected(k)[p] = NoCall
  BY CallsTyped DEF Rejected, ChatTypeOK

-----------------------------------------------------------------------------
(* The parts of the invariant, and what a step must do for each.           *)

\* The part of ChatTypeOK that turns, chats and questions have.
DataTyped ==
  /\ transcript \in [Clusters -> Seq(Turn)]
  /\ history \in [Clusters -> Seq(Seq(Turn))]
  /\ \A c \in Clusters : Len(history[c]) <= MaxHistory
  /\ asked \in [Clients -> Seq(1..turns)]
  /\ turns \in 0..MaxTurns
  /\ placed \in [Clusters -> SUBSET (1..turns)]
  /\ lost \subseteq 1..turns

\* The rest of it.
ControlTyped ==
  /\ active \in Clusters \cup {None}
  /\ client \in [Clients -> Client]
  /\ clientRef \in Clients \cup {None}
  /\ connection \in {"idle", "connecting", "open", "error"}
  /\ session \subseteq Clusters
  /\ send \in [Sends -> Call]
  /\ up \in BOOLEAN
  /\ chats \in 0..MaxChats
  /\ switches \in 0..MaxSwitches

LEMMA TypeParts == ChatTypeOK <=> DataTyped /\ ControlTyped
  BY DEF ChatTypeOK, DataTyped, ControlTyped

\* StreamingHasReason for one cluster.
Reason(c) ==
  Streaming(transcript[c]) =>
    \/ Last(transcript[c]).id \in lost
    \/ \E k \in Clients : /\ client[k].cluster = c
                          /\ client[k].sock = "open"
                          /\ Last(transcript[c]).id \in InFlight(k)

LEMMA Reasons == StreamingHasReason <=> \A c \in Clusters : Reason(c)
  BY DEF StreamingHasReason, Reason

\* A turn keeps its reason while its message stays with the brain or is lost.
LEMMA ReasonKept ==
  ASSUME StreamingHasReason, lost \subseteq lost', NEW c \in Clusters,
         transcript'[c] = transcript[c],
         \A k \in Clients : client[k].cluster = c /\ client[k].sock = "open" =>
           \/ InFlight(k) \subseteq lost'
           \/ client'[k].cluster = c /\ client'[k].sock = "open" /\ InFlight(k) \subseteq InFlight(k)'
  PROVE  Reason(c)'
<1>1. SUFFICES ASSUME Streaming(transcript[c])
               PROVE  \/ Last(transcript[c]).id \in lost'
                      \/ \E k \in Clients : /\ client'[k].cluster = c /\ client'[k].sock = "open"
                                            /\ Last(transcript[c]).id \in InFlight(k)'
  BY DEF Reason, Streaming, Last
<1>2. Reason(c)
  BY Reasons
<1>3. CASE Last(transcript[c]).id \in lost
  BY <1>3
<1>4. CASE Last(transcript[c]).id \notin lost
  <2>1. PICK k \in Clients : /\ client[k].cluster = c /\ client[k].sock = "open"
                             /\ Last(transcript[c]).id \in InFlight(k)
    BY <1>1, <1>2, <1>4 DEF Reason
  <2>2. QED
    BY <2>1
<1> QED
  BY <1>3, <1>4

\* Steps that leave the turns and the chats alone.
LEMMA ChatsAlone ==
  ASSUME ChatInv, UNCHANGED <<transcript, history, turns, placed>>,
         asked' \in [Clients -> Seq(1..turns)], lost \subseteq lost', lost' \subseteq 1..turns,
         \A k \in Clients : client[k].sock = "open" =>
           \/ InFlight(k) \subseteq lost'
           \/ client'[k].cluster = client[k].cluster /\ client'[k].sock = "open" /\ asked'[k] = asked[k]
  PROVE  DataTyped' /\ StreamingHasReason' /\ PastStranded'
<1>1. DataTyped'
  BY TypeParts DEF ChatInv, DataTyped, Turn
<1>2. \A c \in Clusters : Reason(c)'
  BY ReasonKept DEF ChatInv, InFlight
<1>3. PastStranded'
  BY DEF ChatInv, PastStranded, Streaming, Last
<1> QED
  BY <1>1, <1>2, <1>3 DEF StreamingHasReason, Reason

\* A step that drops the present chats leaves nothing that streams.
LEMMA ChatsDropped ==
  ASSUME ChatInv, DropChats, UNCHANGED <<history, turns>>,
         asked' \in [Clients -> Seq(1..turns)], lost \subseteq lost', lost' \subseteq 1..turns
  PROVE  DataTyped' /\ StreamingHasReason' /\ PastStranded'
<1>1. DataTyped
  BY TypeParts DEF ChatInv
<1>2. /\ transcript' = [c \in Clusters |-> <<>>]
      /\ placed' = [c \in Clusters |-> placed[c] \ Ids(transcript[c])]
  BY DEF DropChats
<1>3. transcript' \in [Clusters -> Seq(Turn)]
  BY <1>2, EmptySeq
<1>4. placed' \in [Clusters -> SUBSET (1..turns)]
  BY <1>1, <1>2 DEF DataTyped
<1>5. DataTyped'
  BY <1>1, <1>3, <1>4 DEF DataTyped, Turn
<1>6. StreamingHasReason'
  BY <1>2 DEF StreamingHasReason, Streaming
<1>7. PastStranded'
  BY DEF ChatInv, PastStranded, Streaming, Last
<1> QED
  BY <1>5, <1>6, <1>7

\* Steps that end the last turn of the cluster of client k.
LEMMA LastTurnEnds ==
  ASSUME ChatInv, NEW k \in Clients, UNCHANGED <<history, turns, placed>>,
         transcript' \in [Clusters -> Seq(Turn)],
         ~Streaming(transcript'[client[k].cluster]),
         \A c \in Clusters \ {client[k].cluster} : transcript'[c] = transcript[c],
         asked' \in [Clients -> Seq(1..turns)], lost \subseteq lost', lost' \subseteq 1..turns,
         \A j \in Clients \ {k} : client'[j] = client[j] /\ asked'[j] = asked[j]
  PROVE  DataTyped' /\ StreamingHasReason' /\ PastStranded'
<1>1. DataTyped'
  BY TypeParts DEF ChatInv, DataTyped, Turn
<1>2. ASSUME NEW c \in Clusters PROVE Reason(c)'
  <2>1. CASE c = client[k].cluster
    BY <2>1 DEF Reason, Streaming, Last
  <2>2. CASE c # client[k].cluster
    <3>1. transcript'[c] = transcript[c]
      BY <2>2
    <3>2. \A j \in Clients : client[j].cluster = c /\ client[j].sock = "open" =>
             client'[j].cluster = c /\ client'[j].sock = "open" /\ InFlight(j) \subseteq InFlight(j)'
      BY <2>2 DEF InFlight
    <3>3. QED
      BY <3>1, <3>2, ReasonKept DEF ChatInv
  <2>3. QED
    BY <2>1, <2>2
<1>3. PastStranded'
  BY DEF ChatInv, PastStranded, Streaming, Last
<1> QED
  BY <1>1, <1>2, <1>3 DEF StreamingHasReason, Reason

-----------------------------------------------------------------------------
(* A message is sent.                                                      *)

LEMMA AskKeeps ==
  ASSUME ChatInv, NEW c \in Clusters, NEW clients, clients = client', Ask(c, clients),
         turns + 1 <= MaxTurns, UNCHANGED <<clientRef, history>>,
         \A k \in Clients : client[k].sock = "open" =>
           client'[k].sock = "open" /\ client'[k].cluster = client[k].cluster
  PROVE  DataTyped' /\ StreamingHasReason' /\ PastStranded'
<1> DEFINE id == turns + 1
           new == [id |-> id, state |-> "streaming"]
           reaches == clientRef # None /\ clients[clientRef].sock = "open"
                                       /\ clients[clientRef].stream # "ended"
<1>1. DataTyped /\ ControlTyped /\ turns \in Nat /\ id \in Nat
  BY TypeParts DEF ChatInv, DataTyped
<1>2. turns' = id /\ id \in 1..turns' /\ turns' \in 0..MaxTurns /\ turns <= turns' /\ turns' \in Nat
  BY <1>1, Bounds DEF Ask
<1>3. /\ Turn \subseteq Turn'
      /\ \A chat \in Seq(Turn) : chat \in Seq(Turn')
      /\ \A past \in Seq(Seq(Turn)) : past \in Seq(Seq(Turn'))
      /\ \A q \in Seq(1..turns) : q \in Seq(1..turns')
  BY <1>1, <1>2, ChatsStay
<1>4. new \in Turn'
  BY <1>2 DEF Turn
<1>5. transcript[c] \in Seq(Turn) /\ transcript[c] \in Seq(Turn')
  BY <1>1, <1>3 DEF DataTyped
<1>6. /\ Append(transcript[c], new) \in Seq(Turn')
      /\ Last(Append(transcript[c], new)) = new
  <2>1. /\ Append(transcript[c], new) \in Seq(Turn')
        /\ Len(Append(transcript[c], new)) = Len(transcript[c]) + 1
        /\ Append(transcript[c], new)[Len(transcript[c]) + 1] = new
    BY <1>4, <1>5, AppendProperties
  <2>2. QED
    BY <2>1 DEF Last
<1>7. transcript' = [transcript EXCEPT ![c] = Append(transcript[c], new)]
  BY DEF Ask
<1> HIDE DEF new
<1>8. transcript' \in [Clusters -> Seq(Turn')]
  BY <1>1, <1>3, <1>6, <1>7 DEF DataTyped
<1>9. history' \in [Clusters -> Seq(Seq(Turn'))] /\ \A d \in Clusters : Len(history'[d]) <= MaxHistory
  BY <1>1, <1>3 DEF DataTyped
<1>10. reaches => clientRef \in Clients
  BY <1>1 DEF ControlTyped
<1>11. asked' = IF reaches THEN [asked EXCEPT ![clientRef] = Append(asked[clientRef], id)] ELSE asked
  BY DEF Ask
<1>12. ASSUME NEW k \in Clients, NEW q, q = Append(asked[k], id)
       PROVE  /\ q \in Seq(1..turns')
              /\ InFlight(k) \subseteq {q[i] : i \in 1..Len(q)}
              /\ id \in {q[i] : i \in 1..Len(q)}
  <2>1. asked[k] \in Seq(1..turns')
    BY <1>1, <1>3 DEF DataTyped
  <2>2. /\ q \in Seq(1..turns') /\ Len(q) = Len(asked[k]) + 1
        /\ \A i \in 1..Len(asked[k]) : q[i] = asked[k][i]
        /\ q[Len(asked[k]) + 1] = id
    BY <1>2, <1>12, <2>1, AppendProperties
  <2>3. Len(asked[k]) \in Nat
    BY <2>1, LenProperties
  <2>4. QED
    BY <2>2, <2>3 DEF InFlight
<1> HIDE DEF reaches
<1>13. /\ asked' \in [Clients -> Seq(1..turns')]
       /\ \A k \in Clients : InFlight(k) \subseteq InFlight(k)'
       /\ reaches => id \in InFlight(clientRef)'
  <2>1. CASE reaches
    <3> DEFINE q == Append(asked[clientRef], id)
    <3>1. /\ q \in Seq(1..turns')
          /\ InFlight(clientRef) \subseteq {q[i] : i \in 1..Len(q)}
          /\ id \in {q[i] : i \in 1..Len(q)}
      BY <1>10, <1>12, <2>1
    <3>2. asked' = [asked EXCEPT ![clientRef] = q]
      BY <1>11, <2>1
    <3> HIDE DEF q
    <3>3. asked \in [Clients -> Seq(1..turns)] /\ clientRef \in Clients
      BY <1>1, <1>10, <2>1 DEF DataTyped
    <3>4. asked' \in [Clients -> Seq(1..turns')]
      BY <1>3, <3>1, <3>2, <3>3
    <3>5. asked'[clientRef] = q /\ \A k \in Clients \ {clientRef} : asked'[k] = asked[k]
      BY <3>2, <3>3
    <3>6. clientRef' = clientRef /\ InFlight(clientRef)' = {q[i] : i \in 1..Len(q)}
      BY <3>5 DEF InFlight
    <3>7. ASSUME NEW k \in Clients PROVE InFlight(k) \subseteq InFlight(k)'
      <4>1. CASE k = clientRef
        <5>1. asked'[k] = q /\ InFlight(k) = InFlight(clientRef)
          BY <3>5, <4>1
        <5>2. InFlight(k)' = {q[i] : i \in 1..Len(q)}
          BY <5>1 DEF InFlight
        <5>3. QED
          BY <3>1, <5>1, <5>2
      <4>2. CASE k # clientRef
        BY <3>5, <4>2 DEF InFlight
      <4>3. QED
        BY <4>1, <4>2
    <3>8. id \in InFlight(clientRef)'
      BY <3>1, <3>6
    <3>9. QED
      BY <3>4, <3>7, <3>8
  <2>2. CASE ~reaches
    BY <1>1, <1>3, <1>11, <2>2 DEF DataTyped, InFlight
  <2>3. QED
    BY <2>1, <2>2
<1>14. lost \subseteq lost' /\ (~reaches => id \in lost')
       /\ (reaches /\ client'[clientRef].cluster # c => id \in lost')
  BY DEF Ask, reaches
<1>15. lost' \subseteq 1..turns'
  <2>1. Stranded(transcript[c]) \subseteq 1..turns /\ lost \subseteq 1..turns
    BY <1>1, <1>5, StrandedTyped DEF DataTyped
  <2>2. lost' \subseteq lost \cup Stranded(transcript[c]) \cup {id}
    BY DEF Ask
  <2>3. 1..turns \subseteq 1..turns'
    BY <1>1, <1>2
  <2>4. QED
    BY <1>2, <2>1, <2>2, <2>3
<1>16. placed' \in [Clusters -> SUBSET (1..turns')]
  <2>1. \A d \in Clusters : placed[d] \subseteq 1..turns'
    BY <1>1, <1>2 DEF DataTyped
  <2>2. placed' = [placed EXCEPT ![c] = placed[c] \cup {id}]
    BY DEF Ask
  <2>3. QED
    BY <1>1, <1>2, <2>1, <2>2 DEF DataTyped
<1>17. DataTyped'
  BY <1>2, <1>8, <1>9, <1>13, <1>15, <1>16 DEF DataTyped
<1>18. ASSUME NEW d \in Clusters PROVE Reason(d)'
  <2>1. CASE d = c
    <3>1. transcript'[c] = Append(transcript[c], new) /\ Last(transcript'[c]).id = id
      BY <1>1, <1>6, <1>7 DEF DataTyped, new
    <3>2. CASE id \in lost'
      BY <2>1, <3>1, <3>2 DEF Reason, Last
    <3>3. CASE id \notin lost'
      <4>1. reaches /\ client'[clientRef].cluster = c
        BY <1>14, <3>3
      <4>2. /\ clientRef \in Clients /\ client'[clientRef].sock = "open"
            /\ id \in InFlight(clientRef)'
        BY <1>10, <1>13, <4>1 DEF reaches
      <4>3. QED
        BY <2>1, <3>1, <4>1, <4>2 DEF Reason, Last, InFlight
    <3>4. QED
      BY <3>2, <3>3
  <2>2. CASE d # c
    <3>1. transcript'[d] = transcript[d]
      BY <1>1, <1>7, <2>2 DEF DataTyped
    <3>2. QED
      BY <1>13, <1>14, <3>1, ReasonKept DEF ChatInv
  <2>3. QED
    BY <2>1, <2>2
<1>19. PastStranded'
  BY <1>14 DEF ChatInv, PastStranded, Streaming, Last
<1> QED
  BY <1>17, <1>18, <1>19 DEF StreamingHasReason, Reason

\* The call that sends ends, and leaves the others the room they need.
LEMMA AskEndsCall ==
  ASSUME ChatInv, NEW p \in Sends, NEW c \in Clusters, NEW clients, clients = client',
         Ask(c, clients), send' = [send EXCEPT ![p] = NoCall],
         turns + Cardinality(Sending \ {p}) < MaxTurns, UNCHANGED <<clientRef, history>>,
         \A k \in Clients : client[k].sock = "open" =>
           client'[k].sock = "open" /\ client'[k].cluster = client[k].cluster
  PROVE  DataTyped' /\ StreamingHasReason' /\ PastStranded' /\ Waiting' /\ send' \in [Sends -> Call]
<1>1. send \in [Sends -> Call] /\ turns \in Nat
  BY DEF ChatInv, ChatTypeOK
<1>2. IsFiniteSet(Sending \ {p}) /\ Cardinality(Sending \ {p}) \in Nat
  BY SendingSize, FS_Subset, FS_CardinalityType
<1>3. turns + 1 <= MaxTurns /\ turns' = turns + 1
  BY <1>1, <1>2, Bounds DEF Ask
<1>4. DataTyped' /\ StreamingHasReason' /\ PastStranded'
  BY <1>3, AskKeeps
<1>5. /\ send' \in [Sends -> Call] /\ send'[p] = NoCall
      /\ \A q \in Sends \ {p} : send'[q] = send[q]
  BY <1>1, CallsTyped
<1>6. Sending' = Sending \ {p}
  BY <1>5 DEF Sending, NoCall
<1>7. turns' + Cardinality(Sending') <= MaxTurns
  BY <1>1, <1>2, <1>3, <1>6, Bounds
<1>8. \A q \in Sends : /\ send'[q].stage # "free" => send'[q].cluster \in Clusters
                       /\ send'[q].via # None => send'[q].stage = "opening"
  BY <1>5 DEF ChatInv, Waiting, NoCall
<1> QED
  BY <1>4, <1>5, <1>7, <1>8 DEF Waiting

\* A call that goes on from the socket.
LEMMA GoesOnKeeps ==
  ASSUME ChatInv, NEW p \in Sends, NEW c \in Clusters, NEW clients, clients = client',
         GoesOn(p, c, clients),
         turns + Cardinality(Sending \ {p}) < MaxTurns, UNCHANGED <<clientRef, history>>,
         \A k \in Clients : client[k].sock = "open" =>
           client'[k].sock = "open" /\ client'[k].cluster = client[k].cluster
  PROVE  DataTyped' /\ StreamingHasReason' /\ PastStranded' /\ Waiting' /\ send' \in [Sends -> Call]
<1>1. CASE c \in session
  BY <1>1, AskEndsCall DEF GoesOn
<1>2. CASE c \notin session
  <2> DEFINE call == [stage |-> "creating", cluster |-> c, via |-> None]
  <2>1. /\ send' = [send EXCEPT ![p] = call]
        /\ UNCHANGED <<turns, placed, transcript, asked, lost>>
    BY <1>2 DEF GoesOn
  <2>2. send \in [Sends -> Call] /\ turns \in Nat /\ call \in Call
    BY CallsTyped DEF ChatInv, ChatTypeOK
  <2>3. DataTyped' /\ StreamingHasReason' /\ PastStranded'
    <3>1. asked' \in [Clients -> Seq(1..turns)] /\ lost' \subseteq 1..turns
      BY <2>1 DEF ChatInv, ChatTypeOK
    <3>2. QED
      BY <2>1, <3>1, ChatsAlone
  <2>4. /\ send' \in [Sends -> Call] /\ send'[p] = call
        /\ \A q \in Sends \ {p} : send'[q] = send[q]
    BY <2>1, <2>2
  <2>5. Sending' = (Sending \ {p}) \cup {p}
    BY <2>4 DEF Sending
  <2>6. IsFiniteSet(Sending \ {p}) /\ Cardinality(Sending \ {p}) \in Nat
    BY SendingSize, FS_Subset, FS_CardinalityType
  <2>7. Cardinality(Sending') = Cardinality(Sending \ {p}) + 1
    BY <2>5, <2>6, FS_AddElement
  <2>8. turns' + Cardinality(Sending') <= MaxTurns
    BY <2>1, <2>2, <2>6, <2>7, Bounds
  <2>9. \A q \in Sends : /\ send'[q].stage # "free" => send'[q].cluster \in Clusters
                         /\ send'[q].via # None => send'[q].stage = "opening"
    BY <2>4 DEF ChatInv, Waiting
  <2>10. QED
    BY <2>3, <2>4, <2>8, <2>9 DEF Waiting
<1> QED
  BY <1>1, <1>2

\* Room for the message of a call that waits.
LEMMA RoomToAsk ==
  ASSUME ChatInv, NEW p \in Sends, send[p].stage # "free"
  PROVE  turns + Cardinality(Sending \ {p}) < MaxTurns
<1>1. p \in Sending
  BY DEF Sending
<1>2. Cardinality(Sending \ {p}) = Cardinality(Sending) - 1 /\ Cardinality(Sending) \in Nat
  BY <1>1, SendingSize
<1>3. turns + Cardinality(Sending) <= MaxTurns /\ turns \in Nat /\ MaxTurns \in Nat
  BY Bounds DEF ChatInv, Waiting, ChatTypeOK
<1> QED
  BY <1>2, <1>3

-----------------------------------------------------------------------------
(* Every action keeps the invariant.                                       *)

LEMMA Together ==
  ASSUME ControlTyped', DataTyped', OneConnection', StreamingHasReason', Current', Waiting',
         PastStranded'
  PROVE  ChatInv'
  BY DEF ChatInv, ChatTypeOK, ControlTyped, DataTyped

LEMMA SendMessageKeeps == ASSUME ChatInv, NEW p \in Sends, SendMessage(p) PROVE ChatInv'
<1>1. ControlTyped /\ active \in Clusters /\ send[p].stage = "free"
  BY TypeParts DEF ChatInv, ControlTyped, SendMessage, MaySend, InputDisabled
<1>2. turns + Cardinality(Sending \ {p}) < MaxTurns
  <2>1. Sending \ {p} = Sending
    BY <1>1 DEF Sending
  <2>2. QED
    BY <2>1 DEF SendMessage, MaySend
<1>3. client = client' /\ UNCHANGED <<clientRef, history>> /\ GoesOn(p, active, client)
  BY DEF SendMessage
<1>4. DataTyped' /\ StreamingHasReason' /\ PastStranded' /\ Waiting' /\ send' \in [Sends -> Call]
  BY <1>1, <1>2, <1>3, GoesOnKeeps
<1>5. ControlTyped'
  BY <1>1, <1>4 DEF ControlTyped, SendMessage
<1>6. OneConnection' /\ Current'
  BY DEF ChatInv, OneConnection, Current, SendMessage
<1> QED
  BY <1>4, <1>5, <1>6, Together

LEMMA OpenedKeeps == ASSUME ChatInv, NEW k \in Clients, Opened(k) PROVE ChatInv'
<1>1. ControlTyped
  BY TypeParts DEF ChatInv
<1>2. PICK p \in Sends : send[p].via = k /\ GoesOn(p, send[p].cluster, client')
  BY DEF Opened
<1>3. k # None /\ send[p].stage = "opening" /\ send[p].cluster \in Clusters
  BY <1>2, Bounds DEF ChatInv, Waiting
<1>4. turns + Cardinality(Sending \ {p}) < MaxTurns
  BY <1>3, RoomToAsk
<1>5. /\ client[k].sock = "connecting"
      /\ client' = [client EXCEPT ![k].sock = "open"]
      /\ UNCHANGED <<clientRef, history>>
  BY DEF Opened
<1>6. client' \in [Clients -> Client]
  BY <1>1, <1>5 DEF ControlTyped, Client
<1>7. \A j \in Clients : /\ client'[j].cluster = client[j].cluster
                         /\ client'[j].sock = IF j = k THEN "open" ELSE client[j].sock
  BY <1>1, <1>5 DEF ControlTyped, Client
<1>8. \A j \in Clients : client[j].sock = "open" =>
        client'[j].sock = "open" /\ client'[j].cluster = client[j].cluster
  BY <1>7
<1>9. DataTyped' /\ StreamingHasReason' /\ PastStranded' /\ Waiting' /\ send' \in [Sends -> Call]
  BY <1>2, <1>3, <1>4, <1>5, <1>8, GoesOnKeeps
<1>10. ControlTyped'
  BY <1>1, <1>6, <1>9 DEF ControlTyped, Opened
<1>11. OneConnection' /\ Current'
  BY <1>1, <1>5, <1>7 DEF ChatInv, ControlTyped, OneConnection, Current, Opened
<1> QED
  BY <1>9, <1>10, <1>11, Together

LEMMA SessionCreatedKeeps == ASSUME ChatInv, NEW p \in Sends, SessionCreated(p) PROVE ChatInv'
<1>1. ControlTyped /\ send[p].stage = "creating" /\ send[p].cluster \in Clusters
  BY TypeParts DEF ChatInv, Waiting, SessionCreated
<1>2. turns + Cardinality(Sending \ {p}) < MaxTurns
  BY <1>1, RoomToAsk
<1>3. /\ client = client' /\ UNCHANGED <<clientRef, history>>
      /\ Ask(send[p].cluster, client) /\ send' = [send EXCEPT ![p] = NoCall]
  BY DEF SessionCreated
<1>4. DataTyped' /\ StreamingHasReason' /\ PastStranded' /\ Waiting' /\ send' \in [Sends -> Call]
  BY <1>1, <1>2, <1>3, AskEndsCall
<1>5. ControlTyped'
  BY <1>1, <1>4 DEF ControlTyped, SessionCreated
<1>6. OneConnection' /\ Current'
  BY DEF ChatInv, OneConnection, Current, SessionCreated
<1> QED
  BY <1>4, <1>5, <1>6, Together

LEMMA SendOpensKeeps == ASSUME ChatInv, NEW p \in Sends, SendOpens(p) PROVE ChatInv'
<1> DEFINE call == [stage |-> "opening", cluster |-> active, via |-> clientRef]
<1>1. ControlTyped /\ DataTyped /\ active \in Clusters /\ clientRef \in Clients
  BY TypeParts, Bounds DEF ChatInv, ControlTyped, Current, SendOpens, MaySend, InputDisabled
<1>2. /\ send[p].stage = "free" /\ turns + Cardinality(Sending) < MaxTurns
      /\ client[clientRef].sock = "none"
      /\ client' = [client EXCEPT ![clientRef].sock = "connecting", ![clientRef].stream = "pending"]
      /\ send' = [send EXCEPT ![p] = call]
      /\ UNCHANGED <<transcript, history, turns, placed, asked, lost, clientRef, active>>
  BY DEF SendOpens, MaySend, books
<1>3. /\ call \in Call /\ send' \in [Sends -> Call] /\ send'[p] = call
      /\ \A q \in Sends \ {p} : send'[q] = send[q]
  BY <1>1, <1>2, CallsTyped DEF ControlTyped
<1>4. client' \in [Clients -> Client]
  BY <1>1, <1>2 DEF ControlTyped, Client
<1>5. /\ client'[clientRef].cluster = client[clientRef].cluster
      /\ client'[clientRef].sock = "connecting"
      /\ \A j \in Clients \ {clientRef} : client'[j] = client[j]
  BY <1>1, <1>2 DEF ControlTyped, Client
<1>6. DataTyped' /\ StreamingHasReason' /\ PastStranded'
  <2>1. asked' \in [Clients -> Seq(1..turns)] /\ lost' \subseteq 1..turns
    BY <1>1, <1>2 DEF DataTyped
  <2>2. QED
    BY <1>2, <1>5, <2>1, ChatsAlone
<1>7. Waiting'
  <2>1. Sending' = Sending \cup {p} /\ p \notin Sending
    BY <1>2, <1>3 DEF Sending
  <2>2. Cardinality(Sending') = Cardinality(Sending) + 1
    BY <2>1, SendingSize, FS_AddElement
  <2>3. turns' + Cardinality(Sending') <= MaxTurns
    BY <1>1, <1>2, <2>2, SendingSize, Bounds DEF DataTyped
  <2>4. QED
    BY <1>1, <1>3, <2>3 DEF ChatInv, Waiting
<1>8. ControlTyped'
  BY <1>1, <1>3, <1>4 DEF ControlTyped, SendOpens, books
<1>9. OneConnection' /\ Current'
  <2>1. clientRef' = clientRef /\ active' = active /\ client[clientRef].cluster = active
    BY <1>1, <1>2, Bounds DEF ChatInv, Current
  <2>2. Current'
    BY <1>1, <1>5, <2>1, Bounds DEF ChatInv, Current
  <2>3. ASSUME NEW j \in Clients, client'[j].sock \in {"connecting", "open"}
        PROVE  j = clientRef /\ client'[j].cluster = active
    BY <1>5, <2>1, <2>3 DEF ChatInv, OneConnection
  <2>4. QED
    BY <2>1, <2>2, <2>3 DEF OneConnection
<1> QED
  BY <1>6, <1>7, <1>8, <1>9, Together

LEMMA SessionFailsKeeps == ASSUME ChatInv, NEW p \in Sends, SessionFails(p) PROVE ChatInv'
<1>1. ControlTyped /\ DataTyped
  BY TypeParts DEF ChatInv
<1>2. /\ send' = [send EXCEPT ![p] = NoCall]
      /\ UNCHANGED <<active, client, clientRef, connection, session, transcript, history, lost,
                     turns, placed, asked, up, chats, switches>>
  BY DEF SessionFails, books
<1>3. send' \in [Sends -> Call] /\ \A q \in Sends : send'[q] = send[q] \/ send'[q] = NoCall
  BY <1>1, <1>2, CallsTyped DEF ControlTyped
<1>4. Waiting'
  BY <1>2, <1>3, CallsEnd
<1>5. DataTyped' /\ StreamingHasReason' /\ PastStranded'
  <2>1. asked' \in [Clients -> Seq(1..turns)] /\ lost' \subseteq 1..turns
    BY <1>1, <1>2 DEF DataTyped
  <2>2. QED
    BY <1>2, <2>1, ChatsAlone
<1>6. ControlTyped'
  BY <1>1, <1>2, <1>3 DEF ControlTyped
<1>7. OneConnection' /\ Current'
  BY <1>2 DEF ChatInv, OneConnection, Current
<1> QED
  BY <1>4, <1>5, <1>6, <1>7, Together

LEMMA DroppedKeeps == ASSUME ChatInv, NEW k \in Clients, Dropped(k) PROVE ChatInv'
<1>1. ControlTyped /\ DataTyped /\ ChatTypeOK
  BY TypeParts DEF ChatInv
<1>2. /\ client' = [client EXCEPT ![k].sock = "none"]
      /\ connection' = "error"
      /\ send' = Rejected(k)
      /\ asked' = [asked EXCEPT ![k] = <<>>]
      /\ lost' = lost \cup InFlight(k)
      /\ UNCHANGED <<active, clientRef, session, transcript, history, turns, placed, up, chats, switches>>
  BY DEF Dropped
<1>3. send' \in [Sends -> Call] /\ \A q \in Sends : send'[q] = send[q] \/ send'[q] = NoCall
  BY <1>1, <1>2, RejectedCalls
<1>4. Waiting'
  BY <1>2, <1>3, CallsEnd
<1>5. /\ client' \in [Clients -> Client]
      /\ client'[k].cluster = client[k].cluster /\ client'[k].sock = "none"
      /\ \A j \in Clients \ {k} : client'[j] = client[j]
  BY <1>1, <1>2 DEF ControlTyped, Client
<1>6. DataTyped' /\ StreamingHasReason' /\ PastStranded'
  <2>1. asked' \in [Clients -> Seq(1..turns)] /\ \A j \in Clients \ {k} : asked'[j] = asked[j]
    BY <1>1, <1>2, EmptySeq DEF DataTyped
  <2>2. lost \subseteq lost' /\ lost' \subseteq 1..turns /\ InFlight(k) \subseteq lost'
    BY <1>1, <1>2, InFlightTyped DEF DataTyped
  <2>3. ASSUME NEW j \in Clients, client[j].sock = "open"
        PROVE  \/ InFlight(j) \subseteq lost'
               \/ client'[j].cluster = client[j].cluster /\ client'[j].sock = "open" /\ asked'[j] = asked[j]
    BY <1>5, <2>1, <2>2, <2>3
  <2>4. QED
    BY <1>2, <2>1, <2>2, <2>3, ChatsAlone
<1>7. ControlTyped'
  BY <1>1, <1>2, <1>3, <1>5 DEF ControlTyped
<1>8. OneConnection' /\ Current'
  BY <1>1, <1>2, <1>5 DEF ChatInv, ControlTyped, OneConnection, Current
<1> QED
  BY <1>4, <1>6, <1>7, <1>8, Together

LEMMA LateCloseKeeps == ASSUME ChatInv, NEW k \in Clients, LateClose(k) PROVE ChatInv'
<1>1. ControlTyped /\ DataTyped /\ ChatTypeOK
  BY TypeParts DEF ChatInv
<1>2. /\ client[k].sock \in {"aborting", "closing"}
      /\ connection' \in {"idle", "error"}
      /\ client' = [client EXCEPT ![k] = NoClient]
      /\ send' = Rejected(k)
      /\ UNCHANGED <<active, clientRef, session, transcript, history, lost, turns, placed, asked, up, chats, switches>>
  BY DEF LateClose, books
<1>3. send' \in [Sends -> Call] /\ \A q \in Sends : send'[q] = send[q] \/ send'[q] = NoCall
  BY <1>1, <1>2, RejectedCalls
<1>4. Waiting'
  BY <1>2, <1>3, CallsEnd
<1>5. NoClient \in Client /\ NoClient.sock = "none"
  BY DEF NoClient, Client
<1>6. /\ client' \in [Clients -> Client] /\ client'[k] = NoClient
      /\ \A j \in Clients \ {k} : client'[j] = client[j]
  BY <1>1, <1>2, <1>5 DEF ControlTyped
<1>7. DataTyped' /\ StreamingHasReason' /\ PastStranded'
  <2>1. asked' \in [Clients -> Seq(1..turns)] /\ lost' \subseteq 1..turns
    BY <1>1, <1>2 DEF DataTyped
  <2>2. \A j \in Clients : client[j].sock = "open" => j # k
    BY <1>2
  <2>3. QED
    BY <1>2, <1>6, <2>1, <2>2, ChatsAlone
<1>8. ControlTyped'
  BY <1>1, <1>2, <1>3, <1>6 DEF ControlTyped
<1>9. clientRef # k
  BY <1>1, <1>2, Bounds DEF ChatInv, Current, ControlTyped
<1>10. OneConnection' /\ Current'
  BY <1>1, <1>2, <1>5, <1>6, <1>9 DEF ChatInv, ControlTyped, OneConnection, Current
<1> QED
  BY <1>4, <1>7, <1>8, <1>10, Together

\* A socket that is open is the current client's, of the active cluster.
LEMMA OpenIsCurrent ==
  ASSUME ChatInv, NEW k \in Clients, client[k].sock = "open"
  PROVE  k = clientRef /\ client[k].cluster = active /\ active \in Clusters
  BY Bounds DEF ChatInv, OneConnection, Current, ChatTypeOK

LEMMA StreamOpensKeeps == ASSUME ChatInv, NEW k \in Clients, StreamOpens(k) PROVE ChatInv'
<1>1. ControlTyped /\ DataTyped
  BY TypeParts DEF ChatInv
<1>2. /\ client' = [client EXCEPT ![k].stream = "up"]
      /\ UNCHANGED <<active, clientRef, connection, session, transcript, history, lost, send, turns,
                     placed, asked, up, chats, switches>>
  BY DEF StreamOpens, books, calls
<1>3. /\ client' \in [Clients -> Client]
      /\ \A j \in Clients : client'[j].cluster = client[j].cluster /\ client'[j].sock = client[j].sock
  BY <1>1, <1>2 DEF ControlTyped, Client
<1>4. DataTyped' /\ StreamingHasReason' /\ PastStranded'
  <2>1. asked' \in [Clients -> Seq(1..turns)] /\ lost' \subseteq 1..turns
    BY <1>1, <1>2 DEF DataTyped
  <2>2. QED
    BY <1>2, <1>3, <2>1, ChatsAlone
<1>5. Waiting'
  <2>1. send' \in [Sends -> Call]
    BY <1>1, <1>2 DEF ControlTyped
  <2>2. QED
    BY <1>2, <2>1, CallsEnd
<1>6. ControlTyped'
  BY <1>1, <1>2, <1>3 DEF ControlTyped
<1>7. OneConnection' /\ Current'
  BY <1>1, <1>2, <1>3 DEF ChatInv, ControlTyped, OneConnection, Current
<1> QED
  BY <1>4, <1>5, <1>6, <1>7, Together

\* Frames that end the last turn of the chat of an open socket's client.
LEMMA FrameKeeps ==
  ASSUME ChatInv, NEW k \in Clients, client[k].sock = "open",
         UNCHANGED <<active, clientRef, history, turns, placed, send, up, chats, switches>>,
         transcript' \in [Clusters -> Seq(Turn)],
         ~Streaming(transcript'[client[k].cluster]),
         \A c \in Clusters \ {client[k].cluster} : transcript'[c] = transcript[c],
         connection' \in {"idle", "connecting", "open", "error"}, session' \subseteq session,
         asked' \in [Clients -> Seq(1..turns)],
         lost \subseteq lost', lost' \subseteq 1..turns,
         \A j \in Clients \ {k} : client'[j] = client[j] /\ asked'[j] = asked[j],
         client' \in [Clients -> Client], client'[k].cluster = client[k].cluster,
         client'[k].sock \in {"open", "none"}
  PROVE  ChatInv'
<1>1. ControlTyped /\ DataTyped
  BY TypeParts DEF ChatInv
<1>2. DataTyped' /\ StreamingHasReason' /\ PastStranded'
  BY LastTurnEnds
<1>3. Waiting'
  <2>1. send' \in [Sends -> Call]
    BY <1>1 DEF ControlTyped
  <2>2. QED
    BY <2>1, CallsEnd
<1>4. ControlTyped'
  BY <1>1 DEF ControlTyped
<1>5. k = clientRef /\ client[k].cluster = active
  BY OpenIsCurrent
<1>6. Current'
  BY <1>5, Bounds DEF ChatInv, Current
<1>7. ASSUME NEW j \in Clients, client'[j].sock \in {"connecting", "open"}
      PROVE  j = clientRef /\ client'[j].cluster = active
  BY <1>5, <1>7 DEF ChatInv, OneConnection
<1>8. OneConnection'
  BY <1>7 DEF OneConnection
<1> QED
  BY <1>2, <1>3, <1>4, <1>6, <1>8, Together

\* What a frame does to the questions of its client: none is left, or one less.
LEMMA AskedLess ==
  ASSUME ChatTypeOK, NEW k \in Clients, NEW q,
         q = <<>> \/ (asked[k] # <<>> /\ q = Tail(asked[k]))
  PROVE  /\ [asked EXCEPT ![k] = q] \in [Clients -> Seq(1..turns)]
         /\ \A j \in Clients \ {k} : [asked EXCEPT ![k] = q][j] = asked[j]
<1>1. asked \in [Clients -> Seq(1..turns)]
  BY DEF ChatTypeOK
<1>2. q \in Seq(1..turns)
  <2>1. asked[k] \in Seq(1..turns)
    BY <1>1
  <2>2. CASE q = <<>>
    BY <2>2
  <2>3. CASE asked[k] # <<>> /\ q = Tail(asked[k])
    BY <2>1, <2>3, HeadTailProperties
  <2>4. QED
    BY <2>2, <2>3
<1> QED
  BY <1>1, <1>2

LEMMA StreamRefusedKeeps == ASSUME ChatInv, NEW k \in Clients, StreamRefused(k) PROVE ChatInv'
<1>1. ControlTyped /\ DataTyped /\ ChatTypeOK
  BY TypeParts DEF ChatInv
<1>2. /\ client[k].sock = "open"
      /\ client' = [client EXCEPT ![k].sock = "none"]
      /\ connection' = "idle"
      /\ transcript' = Applied(k, "error")
      /\ asked' = [asked EXCEPT ![k] = <<>>]
      /\ lost' = lost \cup InFlight(k)
      /\ UNCHANGED <<active, clientRef, session, history, send, turns, placed, up, chats, switches>>
  BY DEF StreamRefused, calls
<1>3. client[k].cluster \in Clusters
  BY <1>2, OpenIsCurrent
<1>4. /\ transcript' \in [Clusters -> Seq(Turn)]
      /\ ~Streaming(transcript'[client[k].cluster])
      /\ \A c \in Clusters \ {client[k].cluster} : transcript'[c] = transcript[c]
  BY <1>1, <1>2, <1>3, AppliedEnds
<1>5. /\ asked' \in [Clients -> Seq(1..turns)]
      /\ \A j \in Clients \ {k} : asked'[j] = asked[j]
  BY <1>1, <1>2, AskedLess
<1>6. lost \subseteq lost' /\ lost' \subseteq 1..turns
  BY <1>1, <1>2, InFlightTyped DEF DataTyped
<1>7. /\ client' \in [Clients -> Client] /\ client'[k].cluster = client[k].cluster
      /\ client'[k].sock = "none" /\ \A j \in Clients \ {k} : client'[j] = client[j]
  BY <1>1, <1>2 DEF ControlTyped, Client
<1> QED
  BY <1>2, <1>4, <1>5, <1>6, <1>7, FrameKeeps

LEMMA StreamBreaksKeeps == ASSUME ChatInv, NEW k \in Clients, StreamBreaks(k) PROVE ChatInv'
<1>1. ControlTyped /\ DataTyped /\ ChatTypeOK
  BY TypeParts DEF ChatInv
<1>2. /\ client[k].sock = "open"
      /\ client' = [client EXCEPT ![k].stream = "ended"]
      /\ transcript' = Applied(k, "error")
      /\ session' \subseteq session
      /\ asked' = [asked EXCEPT ![k] = <<>>]
      /\ lost' = lost \cup InFlight(k)
      /\ UNCHANGED <<active, clientRef, connection, history, send, turns, placed, up, chats, switches>>
  BY DEF StreamBreaks, calls
<1>3. client[k].cluster \in Clusters
  BY <1>2, OpenIsCurrent
<1>4. /\ transcript' \in [Clusters -> Seq(Turn)]
      /\ ~Streaming(transcript'[client[k].cluster])
      /\ \A c \in Clusters \ {client[k].cluster} : transcript'[c] = transcript[c]
  BY <1>1, <1>2, <1>3, AppliedEnds
<1>5. /\ asked' \in [Clients -> Seq(1..turns)]
      /\ \A j \in Clients \ {k} : asked'[j] = asked[j]
  BY <1>1, <1>2, AskedLess
<1>6. lost \subseteq lost' /\ lost' \subseteq 1..turns
  BY <1>1, <1>2, InFlightTyped DEF DataTyped
<1>7. /\ client' \in [Clients -> Client] /\ client'[k].cluster = client[k].cluster
      /\ client'[k].sock = "open" /\ \A j \in Clients \ {k} : client'[j] = client[j]
  BY <1>1, <1>2 DEF ControlTyped, Client
<1>8. connection' \in {"idle", "connecting", "open", "error"}
  BY <1>1, <1>2 DEF ControlTyped
<1> QED
  BY <1>2, <1>4, <1>5, <1>6, <1>7, <1>8, FrameKeeps

\* A client that may be answered is open, and nothing but its turn and
\* questions changes.
LEMMA AnswerKeeps ==
  ASSUME ChatInv, NEW k \in Clients, Answers(k),
         transcript' \in [Clusters -> Seq(Turn)],
         ~Streaming(transcript'[client[k].cluster]),
         \A c \in Clusters \ {client[k].cluster} : transcript'[c] = transcript[c],
         session' \subseteq session, asked' = [asked EXCEPT ![k] = Tail(asked[k])],
         UNCHANGED <<active, client, clientRef, connection, history, lost, send, turns, placed,
                     up, chats, switches>>
  PROVE  ChatInv'
<1>1. ControlTyped /\ DataTyped /\ ChatTypeOK
  BY TypeParts DEF ChatInv
<1>2. client[k].sock = "open" /\ asked[k] # <<>>
  BY DEF Answers
<1>3. /\ asked' \in [Clients -> Seq(1..turns)]
      /\ \A j \in Clients \ {k} : asked'[j] = asked[j]
  BY <1>1, <1>2, AskedLess
<1>4. /\ connection' \in {"idle", "connecting", "open", "error"}
      /\ client' \in [Clients -> Client] /\ lost' \subseteq 1..turns
  BY <1>1 DEF ControlTyped, DataTyped
<1> QED
  BY <1>2, <1>3, <1>4, FrameKeeps

LEMMA EndsKeeps == ASSUME ChatInv, NEW k \in Clients, Ends(k) PROVE ChatInv'
<1>1. ChatTypeOK /\ Answers(k) /\ client[k].cluster \in Clusters
  BY OpenIsCurrent DEF ChatInv, Ends, Answers
<1>2. PICK state \in {"done", "error"} : transcript' = Applied(k, state)
  BY DEF Ends
<1>3. /\ transcript' \in [Clusters -> Seq(Turn)]
      /\ ~Streaming(transcript'[client[k].cluster])
      /\ \A c \in Clusters \ {client[k].cluster} : transcript'[c] = transcript[c]
  BY <1>1, <1>2, AppliedEnds
<1> QED
  BY <1>1, <1>3, AnswerKeeps DEF Ends, calls

LEMMA BrainRespawnedKeeps == ASSUME ChatInv, NEW k \in Clients, BrainRespawned(k) PROVE ChatInv'
<1> DEFINE c == client[k].cluster
           past == [i \in 1..Len(transcript[c]) |-> [transcript[c][i] EXCEPT !.state = "historical"]]
<1>1. ChatTypeOK /\ Answers(k) /\ c \in Clusters /\ transcript \in [Clusters -> Seq(Turn)]
  BY OpenIsCurrent DEF ChatInv, ChatTypeOK, BrainRespawned, Answers
<1>2. transcript[c] \in Seq(Turn) /\ Len(transcript[c]) \in Nat
  BY <1>1, LenProperties
<1>3. \A i \in 1..Len(transcript[c]) : [transcript[c][i] EXCEPT !.state = "historical"] \in Turn
  <2>1. \A i \in 1..Len(transcript[c]) : transcript[c][i] \in Turn
    BY <1>2, ElementOfSeq
  <2>2. QED
    BY <2>1 DEF Turn
<1>4. past \in [1..Len(transcript[c]) -> Turn]
  BY <1>3
<1>5. past \in Seq(Turn) /\ Len(past) = Len(transcript[c])
  BY <1>2, <1>4, SeqDef, LenProperties
<1>6. ~Streaming(past)
  <2>1. \A i \in 1..Len(past) : past[i].state = "historical"
    <3>1. \A i \in 1..Len(transcript[c]) : transcript[c][i] \in Turn
      BY <1>2, ElementOfSeq
    <3>2. QED
      BY <1>5, <3>1 DEF Turn
  <2> HIDE DEF past
  <2>2. past # <<>> => Len(past) \in 1..Len(past)
    BY <1>5, EmptySeq
  <2>3. QED
    BY <2>1, <2>2 DEF Streaming, Last
<1>7. transcript' = [transcript EXCEPT ![c] = past]
  BY DEF BrainRespawned
<1> HIDE DEF past
<1>8. /\ transcript' \in [Clusters -> Seq(Turn)]
      /\ ~Streaming(transcript'[c])
      /\ \A d \in Clusters \ {c} : transcript'[d] = transcript[d]
  BY <1>1, <1>5, <1>6, <1>7
<1>9. session' \subseteq session /\ asked' = [asked EXCEPT ![k] = Tail(asked[k])]
  BY DEF BrainRespawned
<1> QED
  BY <1>1, <1>8, <1>9, AnswerKeeps DEF BrainRespawned, calls

-----------------------------------------------------------------------------
(* The header's buttons.                                                   *)

\* The present chat is put away before some of the past ones.
LEMMA PutAway ==
  ASSUME ChatInv, active \in Clusters, NEW past \in Seq(Seq(Turn)), Len(past) <= MaxHistory,
         \A n \in 1..Len(past) : \E j \in 1..Len(history[active]) : past[n] = history[active][j],
         history' = [history EXCEPT ![active] = Kept(transcript[active], past)],
         lost' = lost \cup Stranded(transcript[active])
  PROVE  /\ history' \in [Clusters -> Seq(Seq(Turn))]
         /\ \A c \in Clusters : Len(history'[c]) <= MaxHistory
         /\ lost' \subseteq 1..turns
         /\ PastStranded'
<1> DEFINE chat == transcript[active]
           kept == Kept(chat, past)
<1>1. DataTyped
  BY TypeParts DEF ChatInv
<1>2. chat \in Seq(Turn)
  BY <1>1 DEF DataTyped
<1>3. /\ kept \in Seq(Seq(Turn)) /\ Len(kept) <= MaxHistory
      /\ \A i \in 1..Len(kept) : kept[i] = chat \/ \E j \in 1..Len(past) : kept[i] = past[j]
  BY <1>2, KeptPast
<1> HIDE DEF kept
<1>4. history' = [history EXCEPT ![active] = kept]
  BY DEF kept
<1>5. /\ history' \in [Clusters -> Seq(Seq(Turn))] /\ history'[active] = kept
      /\ \A c \in Clusters \ {active} : history'[c] = history[c]
  BY <1>1, <1>3, <1>4 DEF DataTyped
<1>6. \A c \in Clusters : Len(history'[c]) <= MaxHistory
  BY <1>1, <1>3, <1>5 DEF DataTyped
<1>7. lost' \subseteq 1..turns
  BY <1>1, <1>2, StrandedTyped DEF DataTyped
<1>8. Streaming(chat) => Last(chat).id \in lost'
  BY DEF Stranded
<1>9. ASSUME NEW c \in Clusters, NEW i \in 1..Len(history'[c]), Streaming(history'[c][i])
      PROVE  Last(history'[c][i]).id \in lost'
  <2>1. CASE c # active
    BY <1>5, <1>9, <2>1 DEF ChatInv, PastStranded
  <2>2. CASE c = active
    <3>1. i \in 1..Len(kept) /\ Streaming(kept[i])
      BY <1>5, <1>9, <2>2
    <3>2. kept[i] = chat \/ \E j \in 1..Len(history[active]) : kept[i] = history[active][j]
      BY <1>3, <3>1
    <3>3. Last(kept[i]).id \in lost'
      BY <1>8, <3>1, <3>2 DEF ChatInv, PastStranded
    <3>4. QED
      BY <1>5, <2>2, <3>3
  <2>3. QED
    BY <2>1, <2>2
<1>10. PastStranded'
  BY <1>9 DEF PastStranded, Streaming, Last
<1> QED
  BY <1>5, <1>6, <1>7, <1>10

\* Another chat, empty or one that was put away, becomes the present one.
LEMMA OtherChatKeeps ==
  ASSUME ChatInv, active \in Clusters, NEW past \in Seq(Seq(Turn)), Len(past) <= MaxHistory,
         \A n \in 1..Len(past) : \E j \in 1..Len(history[active]) : past[n] = history[active][j],
         history' = [history EXCEPT ![active] = Kept(transcript[active], past)],
         lost' = lost \cup Stranded(transcript[active]),
         NEW chat \in Seq(Turn), Streaming(chat) => Last(chat).id \in lost,
         transcript' = [transcript EXCEPT ![active] = chat],
         chats' \in 0..MaxChats, session' \subseteq session,
         UNCHANGED <<active, client, clientRef, connection, send, turns, placed, asked, up, switches>>
  PROVE  ChatInv'
<1>1. ControlTyped /\ DataTyped
  BY TypeParts DEF ChatInv
<1>2. /\ history' \in [Clusters -> Seq(Seq(Turn))]
      /\ \A c \in Clusters : Len(history'[c]) <= MaxHistory
      /\ lost' \subseteq 1..turns
      /\ PastStranded'
  BY PutAway
<1>3. /\ transcript' \in [Clusters -> Seq(Turn)] /\ transcript'[active] = chat
      /\ \A c \in Clusters \ {active} : transcript'[c] = transcript[c]
  BY <1>1 DEF DataTyped
<1>4. DataTyped'
  BY <1>1, <1>2, <1>3 DEF DataTyped, Turn
<1>5. ASSUME NEW c \in Clusters PROVE Reason(c)'
  <2>1. CASE c = active
    BY <1>3, <2>1 DEF Reason, Streaming, Last
  <2>2. CASE c # active
    BY <1>3, <2>2, ReasonKept DEF ChatInv, InFlight
  <2>3. QED
    BY <2>1, <2>2
<1>6. StreamingHasReason'
  BY <1>5 DEF StreamingHasReason, Reason
<1>7. Waiting'
  <2>1. send' \in [Sends -> Call]
    BY <1>1 DEF ControlTyped
  <2>2. QED
    BY <2>1, CallsEnd
<1>8. ControlTyped'
  BY <1>1 DEF ControlTyped
<1>9. OneConnection' /\ Current'
  BY DEF ChatInv, OneConnection, Current
<1> QED
  BY <1>2, <1>4, <1>6, <1>7, <1>8, <1>9, Together

LEMMA NewChatKeeps == ASSUME ChatInv, NewChat PROVE ChatInv'
<1>1. ControlTyped /\ DataTyped /\ active \in Clusters
  BY TypeParts DEF ChatInv, ControlTyped, NewChat
<1>2. history[active] \in Seq(Seq(Turn)) /\ Len(history[active]) <= MaxHistory
  BY <1>1 DEF DataTyped
<1>3. <<>> \in Seq(Turn) /\ ~Streaming(<<>>)
  BY DEF Streaming
<1>4. chats' \in 0..MaxChats
  BY <1>1, Bounds DEF ControlTyped, NewChat
<1>5. /\ history' = [history EXCEPT ![active] = Kept(transcript[active], history[active])]
      /\ lost' = lost \cup Stranded(transcript[active])
      /\ transcript' = [transcript EXCEPT ![active] = <<>>]
      /\ session' \subseteq session
      /\ UNCHANGED <<active, client, clientRef, connection, send, turns, placed, asked, up, switches>>
  BY DEF NewChat, calls
<1> QED
  BY <1>1, <1>2, <1>3, <1>4, <1>5, OtherChatKeeps

LEMMA RestoreSessionKeeps == ASSUME ChatInv, NEW i \in 1..MaxHistory, RestoreSession(i) PROVE ChatInv'
<1> DEFINE past == history[active]
           others == Without(past, i)
<1>1. ControlTyped /\ DataTyped /\ active \in Clusters
  BY TypeParts DEF ChatInv, ControlTyped, RestoreSession
<1>2. past \in Seq(Seq(Turn)) /\ Len(past) <= MaxHistory /\ i \in 1..Len(past)
  BY <1>1 DEF DataTyped, RestoreSession
<1>3. /\ others \in Seq(Seq(Turn)) /\ Len(others) <= Len(past)
      /\ \A n \in 1..Len(others) : \E j \in 1..Len(past) : others[n] = past[j]
  BY <1>2, OtherPast
<1>4. past[i] \in Seq(Turn) /\ (Streaming(past[i]) => Last(past[i]).id \in lost)
  BY <1>1, <1>2, ElementOfSeq DEF ChatInv, PastStranded
<1>5. chats' \in 0..MaxChats
  BY <1>1, Bounds DEF ControlTyped, RestoreSession
<1>6. /\ history' = [history EXCEPT ![active] = Kept(transcript[active], others)]
      /\ lost' = lost \cup Stranded(transcript[active])
      /\ transcript' = [transcript EXCEPT ![active] = past[i]]
      /\ session' \subseteq session
      /\ UNCHANGED <<active, client, clientRef, connection, send, turns, placed, asked, up, switches>>
  BY DEF RestoreSession, Without, calls
<1> HIDE DEF others
<1>7. Len(others) <= MaxHistory
  BY <1>2, <1>3, Bounds, LenProperties
<1> QED
  BY <1>1, <1>2, <1>3, <1>4, <1>5, <1>6, <1>7, OtherChatKeeps

-----------------------------------------------------------------------------
(* The active cluster changes.                                             *)

LEMMA ClosedLeavesNone ==
  ASSUME ChatInv
  PROVE  /\ Closed \in [Clients -> Client]
         /\ \A k \in Clients : /\ Closed[k].cluster = client[k].cluster
                               /\ Closed[k].sock \notin {"connecting", "open"}
                               /\ k # clientRef => Closed[k] = client[k]
<1>1. client \in [Clients -> Client] /\ clientRef \in Clients \cup {None}
  BY DEF ChatInv, ChatTypeOK
<1>2. \A k \in Clients \ {clientRef} : client[k].sock \notin {"connecting", "open"}
  BY DEF ChatInv, OneConnection
<1>3. CASE clientRef = None
  BY <1>1, <1>2, <1>3, Bounds DEF Closed
<1>4. CASE clientRef # None
  <2> DEFINE sock == CASE client[clientRef].sock = "connecting" -> "aborting"
                       [] client[clientRef].sock = "open" -> "closing"
                       [] OTHER -> client[clientRef].sock
  <2>1. clientRef \in Clients /\ client[clientRef] \in Client
    BY <1>1, <1>4
  <2>2. sock \in {"none", "aborting", "closing"}
    BY <2>1 DEF Client
  <2>3. Closed = [client EXCEPT ![clientRef].sock = sock]
    BY <1>1, <1>4, <2>1 DEF Closed
  <2> HIDE DEF sock
  <2>4. /\ Closed \in [Clients -> Client]
        /\ Closed[clientRef].sock = sock /\ Closed[clientRef].cluster = client[clientRef].cluster
        /\ \A k \in Clients \ {clientRef} : Closed[k] = client[k]
    BY <1>1, <2>1, <2>2, <2>3 DEF Client
  <2>5. QED
    BY <1>2, <2>2, <2>4
<1> QED
  BY <1>3, <1>4

LEMMA SwitchKeeps == ASSUME ChatInv, NEW c \in Clusters \cup {None}, Switch(c) PROVE ChatInv'
<1>1. ControlTyped /\ DataTyped /\ ChatTypeOK
  BY TypeParts DEF ChatInv
<1>2. /\ active' = c /\ switches < MaxSwitches /\ switches' = switches + 1
      /\ connection' \in {connection, "idle"}
      /\ \/ DropChats \/ UNCHANGED <<session, transcript, placed>>
      /\ asked' = [k \in Clients |-> IF k = clientRef THEN <<>> ELSE asked[k]]
      /\ lost' = lost \cup (IF clientRef = None THEN {} ELSE InFlight(clientRef))
      /\ UNCHANGED <<history, send, turns, up, chats>>
  BY DEF Switch
<1>3. /\ Closed \in [Clients -> Client]
      /\ \A k \in Clients : /\ Closed[k].cluster = client[k].cluster
                            /\ Closed[k].sock \notin {"connecting", "open"}
                            /\ k # clientRef => Closed[k] = client[k]
  BY ClosedLeavesNone
<1>4. /\ client' \in [Clients -> Client]
      /\ clientRef' \in Clients \cup {None}
      /\ \A k \in Clients : client'[k].sock \notin {"connecting", "open"}
      /\ Current'
  <2>1. CASE c = None
    BY <1>2, <1>3, <2>1 DEF Switch, Current
  <2>2. CASE c # None
    <3> DEFINE fresh == [NoClient EXCEPT !.cluster = c]
    <3>1. fresh \in Client /\ fresh.cluster = c /\ fresh.sock = "none"
      BY <2>2 DEF NoClient, Client
    <3>2. PICK k \in Clients : client' = [Closed EXCEPT ![k] = fresh] /\ clientRef' = k
      BY <2>2 DEF Switch
    <3> HIDE DEF fresh
    <3>3. client' \in [Clients -> Client] /\ client'[k] = fresh
          /\ \A j \in Clients \ {k} : client'[j] = Closed[j]
      BY <1>3, <3>1, <3>2
    <3>4. Current'
      BY <1>2, <2>2, <3>1, <3>2, <3>3, Bounds DEF Current
    <3>5. QED
      BY <1>3, <3>1, <3>2, <3>3, <3>4
  <2>3. QED
    BY <2>1, <2>2
<1>5. OneConnection'
  BY <1>4 DEF OneConnection
<1>6. /\ asked' \in [Clients -> Seq(1..turns)]
      /\ \A k \in Clients \ {clientRef} : asked'[k] = asked[k]
  BY <1>1, <1>2, EmptySeq DEF DataTyped
<1>7. lost \subseteq lost' /\ lost' \subseteq 1..turns
  BY <1>1, <1>2, InFlightTyped DEF DataTyped, ControlTyped
<1>8. ASSUME NEW k \in Clients, client[k].sock = "open" PROVE InFlight(k) \subseteq lost'
  BY <1>2, <1>8, OpenIsCurrent, Bounds
<1>9. DataTyped' /\ StreamingHasReason' /\ PastStranded'
  <2>1. CASE DropChats
    BY <1>2, <1>6, <1>7, <2>1, ChatsDropped
  <2>2. CASE UNCHANGED <<session, transcript, placed>>
    BY <1>2, <1>6, <1>7, <1>8, <2>2, ChatsAlone
  <2>3. QED
    BY <1>2, <2>1, <2>2
<1>10. Waiting'
  <2>1. send' \in [Sends -> Call]
    BY <1>1, <1>2 DEF ControlTyped
  <2>2. QED
    BY <1>2, <2>1, CallsEnd
<1>11. ControlTyped'
  <2>1. session' \subseteq Clusters /\ connection' \in {"idle", "connecting", "open", "error"}
    BY <1>1, <1>2 DEF ControlTyped, DropChats
  <2>2. QED
    BY <1>1, <1>2, <1>4, <2>1, Bounds DEF ControlTyped
<1> QED
  BY <1>4, <1>5, <1>9, <1>10, <1>11, Together

\* The backend comes and goes, and steps that change nothing.
LEMMA StutterKeeps ==
  ASSUME ChatInv, up' \in BOOLEAN,
         UNCHANGED <<active, client, clientRef, connection, session, transcript, history, lost, send,
                     turns, placed, asked, chats, switches>>
  PROVE  ChatInv'
<1>1. ControlTyped /\ DataTyped
  BY TypeParts DEF ChatInv
<1>2. DataTyped' /\ StreamingHasReason' /\ PastStranded'
  <2>1. asked' \in [Clients -> Seq(1..turns)] /\ lost' \subseteq 1..turns
    BY <1>1 DEF DataTyped
  <2>2. QED
    BY <2>1, ChatsAlone
<1>3. Waiting'
  <2>1. send' \in [Sends -> Call]
    BY <1>1 DEF ControlTyped
  <2>2. QED
    BY <2>1, CallsEnd
<1>4. ControlTyped'
  BY <1>1 DEF ControlTyped
<1>5. OneConnection' /\ Current'
  BY DEF ChatInv, OneConnection, Current
<1> QED
  BY <1>2, <1>3, <1>4, <1>5, Together

-----------------------------------------------------------------------------
(* The invariant, and the theorems.                                        *)

LEMMA ChatStarts == ASSUME ChatInit PROVE ChatInv
<1>1. NoClient \in Client /\ NoClient.sock = "none"
  BY DEF NoClient, Client
<1>2. NoCall \in Call /\ NoCall.stage = "free" /\ NoCall.via = None
  BY DEF NoCall, Call
<1>3. ControlTyped
  BY <1>1, <1>2, Bounds DEF ChatInit, ControlTyped
<1>4. DataTyped
  <2>1. transcript \in [Clusters -> Seq(Turn)] /\ history \in [Clusters -> Seq(Seq(Turn))]
    BY DEF ChatInit
  <2>2. \A c \in Clusters : Len(history[c]) <= MaxHistory
    BY Bounds, EmptySeq DEF ChatInit
  <2>3. asked \in [Clients -> Seq(1..turns)] /\ turns \in 0..MaxTurns
    BY Bounds DEF ChatInit
  <2>4. placed \in [Clusters -> SUBSET (1..turns)] /\ lost \subseteq 1..turns
    BY DEF ChatInit
  <2>5. QED
    BY <2>1, <2>2, <2>3, <2>4 DEF DataTyped
<1>5. OneConnection /\ Current
  BY <1>1 DEF ChatInit, OneConnection, Current
<1>6. StreamingHasReason
  BY DEF ChatInit, StreamingHasReason, Streaming
<1>7. PastStranded
  <2>1. \A c \in Clusters : history[c] = <<>> /\ Len(history[c]) = 0
    BY EmptySeq DEF ChatInit
  <2>2. QED
    BY <2>1 DEF PastStranded
<1>8. Waiting
  <2>1. Sending = {}
    BY <1>2 DEF ChatInit, Sending
  <2>2. turns = 0 /\ Cardinality(Sending) = 0
    BY <2>1, FS_EmptySet DEF ChatInit
  <2>3. QED
    BY <1>2, <2>2, Bounds DEF ChatInit, Waiting
<1> QED
  BY <1>3, <1>4, <1>5, <1>6, <1>7, <1>8, TypeParts DEF ChatInv

LEMMA ChatStep == ASSUME ChatInv, [ChatNext]_cvars PROVE ChatInv'
<1>1. ASSUME NEW p \in Sends,
             SendMessage(p) \/ SendOpens(p) \/ SessionCreated(p) \/ SessionFails(p)
      PROVE  ChatInv'
  BY <1>1, SendMessageKeeps, SendOpensKeeps, SessionCreatedKeeps, SessionFailsKeeps
<1>2. ASSUME NEW k \in Clients,
             \/ Opened(k) \/ Dropped(k) \/ LateClose(k) \/ StreamOpens(k)
             \/ StreamRefused(k) \/ StreamBreaks(k) \/ Ends(k) \/ BrainRespawned(k)
      PROVE  ChatInv'
  BY <1>2, OpenedKeeps, DroppedKeeps, LateCloseKeeps, StreamOpensKeeps, StreamRefusedKeeps,
     StreamBreaksKeeps, EndsKeeps, BrainRespawnedKeeps
<1>3. CASE NewChat
  BY <1>3, NewChatKeeps
<1>4. ASSUME NEW i \in 1..MaxHistory, RestoreSession(i) PROVE ChatInv'
  BY <1>4, RestoreSessionKeeps
<1>5. ASSUME NEW c \in Clusters \cup {None}, Switch(c) PROVE ChatInv'
  BY <1>5, SwitchKeeps
<1>6. CASE BackendChanges
  BY <1>6, StutterKeeps DEF BackendChanges, books, calls
<1>7. CASE UNCHANGED cvars
  <2>1. up' \in BOOLEAN
    BY <1>7 DEF ChatInv, ChatTypeOK, cvars
  <2>2. QED
    BY <1>7, <2>1, StutterKeeps DEF cvars, books, calls
<1> QED
  BY <1>1, <1>2, <1>3, <1>4, <1>5, <1>6, <1>7 DEF ChatNext

LEMMA ChatInvariant == ChatSpec => []ChatInv
<1>1. ChatInit => ChatInv
  BY ChatStarts
<1>2. ChatInv /\ [ChatNext]_cvars => ChatInv'
  BY ChatStep
<1> QED
  BY <1>1, <1>2, PTL DEF ChatSpec

\* The state keeps its types; in particular no more past chats are listed than
\* the store keeps, and every turn shown was sent.
THEOREM ChatTypes == ChatSpec => []ChatTypeOK
<1>1. ChatInv => ChatTypeOK
  BY DEF ChatInv
<1> QED
  BY <1>1, ChatInvariant, PTL

\* Whatever the order of switches, handshakes and late close events, a socket
\* that is open or connecting is that of the active cluster's client.
THEOREM OneConnectionAtATime == ChatSpec => []OneConnection
<1>1. ChatInv => OneConnection
  BY DEF ChatInv
<1> QED
  BY <1>1, ChatInvariant, PTL

\* A turn that streams is with the brain over the chat's own connection, or is
\* known to have been cut off.
THEOREM StreamingIsExplained == ChatSpec => []StreamingHasReason
<1>1. ChatInv => StreamingHasReason
  BY DEF ChatInv
<1> QED
  BY <1>1, ChatInvariant, PTL

-----------------------------------------------------------------------------
(* New chats and restored ones neither copy a turn nor lose one, and a      *)
(* switch of the cluster loses whole chats only.                           *)

\* Of one cluster: its present chat, its past ones, the turns placed in it (and
\* not dropped) and how many chats were begun.  All chats are of turns placed there, no two of
\* them share one, and as long as nothing was cut off the list they have all.
Accounted(chat, past, mine, n) ==
  /\ Ids(chat) \subseteq mine
  /\ \A i \in 1..Len(past) : Ids(past[i]) \subseteq mine /\ Ids(past[i]) \cap Ids(chat) = {}
  /\ \A i, j \in 1..Len(past) : i # j => Ids(past[i]) \cap Ids(past[j]) = {}
  /\ Len(past) <= n
  /\ n <= MaxHistory => \A id \in mine : id \in Ids(chat) \/ \E i \in 1..Len(past) : id \in Ids(past[i])

TurnsInv == \A c \in Clusters : Accounted(transcript[c], history[c], placed[c], chats)

-----------------------------------------------------------------------------
(* What the helpers of the module do to the turns of a chat.               *)

LEMMA NoIds == Ids(<<>>) = {}
  BY DEF Ids

LEMMA IdsAppended ==
  ASSUME NEW S, NEW chat \in Seq(S), NEW turn \in S
  PROVE  Ids(Append(chat, turn)) = Ids(chat) \cup {turn.id}
<1>1. /\ Len(chat) \in Nat /\ Len(Append(chat, turn)) = Len(chat) + 1
      /\ \A i \in 1..Len(chat) : Append(chat, turn)[i] = chat[i]
      /\ Append(chat, turn)[Len(chat) + 1] = turn
  BY AppendProperties, LenProperties
<1>2. 1..(Len(chat) + 1) = 1..Len(chat) \cup {Len(chat) + 1}
  BY <1>1
<1> QED
  BY <1>1, <1>2 DEF Ids

LEMMA AppliedIds ==
  ASSUME ChatTypeOK, NEW k \in Clients, client[k].cluster \in Clusters, NEW state, NEW c \in Clusters
  PROVE  Ids(Applied(k, state)[c]) = Ids(transcript[c])
<1> DEFINE d == client[k].cluster
           n == Len(transcript[d])
           t == [transcript[d][n] EXCEPT !.state = state]
<1>1. transcript \in [Clusters -> Seq(Turn)] /\ d \in Clusters /\ transcript[d] \in Seq(Turn)
  BY DEF ChatTypeOK
<1>2. CASE transcript[d] = <<>> \/ c # d
  BY <1>1, <1>2 DEF Applied
<1>3. CASE transcript[d] # <<>> /\ c = d
  <2>1. n \in 1..n /\ transcript[d][n] \in Turn
    BY <1>1, <1>3, LastTyped DEF Last
  <2>2. t.id = transcript[d][n].id
    BY <2>1 DEF Turn
  <2>3. Applied(k, state)[c] = [transcript[d] EXCEPT ![n] = t]
    BY <1>1, <1>3 DEF Applied
  <2> HIDE DEF t
  <2>4. /\ DOMAIN transcript[d] = 1..n
        /\ Len([transcript[d] EXCEPT ![n] = t]) = n
        /\ \A i \in 1..n : [transcript[d] EXCEPT ![n] = t][i] = IF i = n THEN t ELSE transcript[d][i]
    BY <1>1, <2>1, LenProperties
  <2>5. \A i \in 1..n : [transcript[d] EXCEPT ![n] = t][i].id = transcript[d][i].id
    BY <2>2, <2>4
  <2>6. QED
    BY <1>3, <2>3, <2>4, <2>5 DEF Ids
<1> QED
  BY <1>2, <1>3

\* The list with a chat put in front holds that chat and then the others, all of
\* them if there is room.
LEMMA KeptEntries ==
  ASSUME NEW S, NEW chat \in S, NEW past \in Seq(S), chat # <<>>
  PROVE  /\ Len(Kept(chat, past)) >= 1
         /\ Len(Kept(chat, past)) <= Len(past) + 1
         /\ Len(past) < MaxHistory => Len(Kept(chat, past)) = Len(past) + 1
         /\ Kept(chat, past)[1] = chat
         /\ \A i \in 2..Len(Kept(chat, past)) : Kept(chat, past)[i] = past[i - 1]
<1> DEFINE m == IF Len(past) < MaxHistory THEN Len(past) ELSE MaxHistory - 1
           cut == SubSeq(past, 1, m)
<1>1. /\ Len(past) \in Nat /\ m \in Nat /\ m <= Len(past)
      /\ Len(past) < MaxHistory => m = Len(past)
  BY Bounds, LenProperties
<1>2. \A i \in 1..m : past[i] \in S
  BY <1>1, ElementOfSeq
<1> HIDE DEF m
<1>3. /\ cut \in Seq(S) /\ Len(cut) = m
      /\ \A i \in 1..m : cut[i] = past[i]
  BY <1>1, <1>2, SubSeqProperties
<1> HIDE DEF cut
<1>4. <<chat>> \in Seq(S) /\ Len(<<chat>>) = 1 /\ <<chat>>[1] = chat
  OBVIOUS
<1>5. Kept(chat, past) = <<chat>> \o cut
  BY DEF Kept, cut, m
<1>6. /\ Len(<<chat>> \o cut) = 1 + m
      /\ \A i \in 1..(1 + m) : (<<chat>> \o cut)[i] = IF i <= 1 THEN <<chat>>[i] ELSE cut[i - 1]
  BY <1>3, <1>4, ConcatProperties
<1>7. (<<chat>> \o cut)[1] = chat
  BY <1>1, <1>4, <1>6
<1>8. ASSUME NEW i \in 2..(1 + m) PROVE (<<chat>> \o cut)[i] = past[i - 1]
  <2>1. i - 1 \in 1..m /\ i \in 1..(1 + m) /\ ~(i <= 1)
    BY <1>1
  <2>2. QED
    BY <1>3, <1>6, <2>1
<1> QED
  BY <1>1, <1>5, <1>6, <1>7, <1>8

LEMMA WithoutEntries ==
  ASSUME NEW S, NEW past \in Seq(S), NEW i \in 1..Len(past)
  PROVE  /\ Len(Without(past, i)) = Len(past) - 1
         /\ \A n \in 1..(Len(past) - 1) : Without(past, i)[n] = past[IF n < i THEN n ELSE n + 1]
<1> DEFINE front == SubSeq(past, 1, i - 1)
           back  == SubSeq(past, i + 1, Len(past))
<1>1. Len(past) \in Nat /\ \A j \in 1..Len(past) : past[j] \in S
  BY LenProperties, ElementOfSeq
<1>2. /\ front \in Seq(S) /\ Len(front) = i - 1
      /\ \A n \in 1..(i - 1) : front[n] = past[n]
  BY <1>1, SubSeqProperties
<1>3. /\ back \in Seq(S) /\ Len(back) = Len(past) - i
      /\ \A n \in 1..(Len(past) - i) : back[n] = past[i + n]
  BY <1>1, SubSeqProperties
<1>4. Without(past, i) = front \o back
  BY DEF Without
<1> HIDE DEF front, back
<1>5. /\ Len(front \o back) = Len(front) + Len(back)
      /\ \A n \in 1..(Len(front) + Len(back)) :
           (front \o back)[n] = IF n <= Len(front) THEN front[n] ELSE back[n - Len(front)]
  BY <1>2, <1>3, ConcatProperties
<1>6. Len(front) + Len(back) = Len(past) - 1
  BY <1>1, <1>2, <1>3
<1>7. ASSUME NEW n \in 1..(Len(past) - 1)
      PROVE  (front \o back)[n] = past[IF n < i THEN n ELSE n + 1]
  <2>1. CASE n < i
    BY <1>1, <1>2, <1>5, <1>6, <2>1
  <2>2. CASE ~(n < i)
    <3>1. n - (i - 1) \in 1..(Len(past) - i) /\ i + (n - (i - 1)) = n + 1 /\ ~(n <= i - 1)
      BY <1>1, <2>2
    <3>2. (front \o back)[n] = back[n - (i - 1)]
      BY <1>2, <1>5, <1>6, <3>1
    <3>3. back[n - (i - 1)] = past[n + 1]
      BY <1>3, <3>1
    <3>4. QED
      BY <2>2, <3>2, <3>3
  <2>3. QED
    BY <2>1, <2>2
<1> QED
  BY <1>4, <1>5, <1>6, <1>7

-----------------------------------------------------------------------------
(* How the account of one cluster changes.                                 *)

\* A turn that was not placed yet joins the present chat.
LEMMA TurnJoins ==
  ASSUME NEW chat \in Seq(Turn), NEW past, NEW mine, NEW n, NEW S, Turn \subseteq S,
         NEW turn \in S, turn.id \notin mine, Accounted(chat, past, mine, n)
  PROVE  Accounted(Append(chat, turn), past, mine \cup {turn.id}, n)
<1>1. Ids(Append(chat, turn)) = Ids(chat) \cup {turn.id}
  <2>1. chat \in Seq(S)
    BY SeqMonotonic
  <2>2. QED
    BY <2>1, IdsAppended
<1> DEFINE longer == Append(chat, turn)
           more == mine \cup {turn.id}
<1>2. mine \subseteq more /\ turn.id \in more /\ \A id \in more : id \in mine \/ id = turn.id
  OBVIOUS
<1>3. Ids(longer) = Ids(chat) \cup {turn.id}
  BY <1>1
<1> HIDE DEF longer, more
<1>4. Ids(longer) \subseteq more /\ Len(past) <= n
  BY <1>2, <1>3 DEF Accounted
<1>5. \A i \in 1..Len(past) : Ids(past[i]) \subseteq more /\ Ids(past[i]) \cap Ids(longer) = {}
  <2>1. ASSUME NEW i \in 1..Len(past)
        PROVE  Ids(past[i]) \subseteq more /\ Ids(past[i]) \cap Ids(longer) = {}
    <3>1. Ids(past[i]) \subseteq mine /\ Ids(past[i]) \cap Ids(chat) = {}
      BY DEF Accounted
    <3>2. QED
      BY <1>2, <1>3, <3>1
  <2>2. QED
    BY <2>1
<1>6. \A i, j \in 1..Len(past) : i # j => Ids(past[i]) \cap Ids(past[j]) = {}
  BY DEF Accounted
<1>7. n <= MaxHistory => \A id \in more : id \in Ids(longer) \/ \E i \in 1..Len(past) : id \in Ids(past[i])
  <2>1. n <= MaxHistory => \A id \in mine : id \in Ids(chat) \/ \E i \in 1..Len(past) : id \in Ids(past[i])
    BY DEF Accounted
  <2>2. QED
    BY <1>2, <1>3, <2>1
<1>8. Accounted(longer, past, more, n)
  BY <1>4, <1>5, <1>6, <1>7 DEF Accounted
<1> QED
  BY <1>8 DEF longer, more

\* The present chat is put in front of rest, and next becomes the present one.
LEMMA ChatReplaced ==
  ASSUME NEW chat \in Seq(Turn), NEW rest \in Seq(Seq(Turn)), NEW next, NEW mine, NEW n \in Nat,
         Ids(chat) \subseteq mine, Ids(next) \subseteq mine, Ids(chat) \cap Ids(next) = {},
         \A i \in 1..Len(rest) : /\ Ids(rest[i]) \subseteq mine
                                 /\ Ids(rest[i]) \cap Ids(chat) = {}
                                 /\ Ids(rest[i]) \cap Ids(next) = {},
         \A i, j \in 1..Len(rest) : i # j => Ids(rest[i]) \cap Ids(rest[j]) = {},
         Len(rest) <= n,
         n <= MaxHistory =>
           \A id \in mine : \/ id \in Ids(chat) \/ id \in Ids(next)
                            \/ \E i \in 1..Len(rest) : id \in Ids(rest[i])
  PROVE  Accounted(next, Kept(chat, rest), mine, n + 1)
<1> DEFINE kept == Kept(chat, rest)
<1>0. Len(rest) \in Nat /\ MaxHistory \in Nat
  BY Bounds, LenProperties
<1>1. CASE chat = <<>>
  <2>1. kept = rest
    BY <1>1 DEF Kept
  <2>2. Ids(chat) = {}
    BY <1>1, NoIds
  <2>3. n + 1 <= MaxHistory => \A id \in mine : id \in Ids(next) \/ \E i \in 1..Len(rest) : id \in Ids(rest[i])
    BY <1>0, <2>2
  <2>4. Len(rest) <= n + 1
    BY <1>0
  <2>5. Accounted(next, rest, mine, n + 1)
    BY <2>3, <2>4 DEF Accounted
  <2>6. QED
    BY <2>1, <2>5
<1>2. CASE chat # <<>>
  <2>1. /\ Len(kept) >= 1 /\ Len(kept) <= Len(rest) + 1
        /\ Len(rest) < MaxHistory => Len(kept) = Len(rest) + 1
        /\ kept[1] = chat
        /\ \A i \in 2..Len(kept) : kept[i] = rest[i - 1]
    BY <1>2, KeptEntries
  <2>2. kept \in Seq(Seq(Turn)) /\ Len(kept) \in Nat
    <3>1. CASE Len(rest) <= MaxHistory
      BY <3>1, KeptPast, LenProperties
    <3>2. CASE ~(Len(rest) <= MaxHistory)
      <4>1. SubSeq(rest, 1, MaxHistory - 1) \in Seq(Seq(Turn))
        <5>1. \A i \in 1..(MaxHistory - 1) : rest[i] \in Seq(Turn)
          BY <1>0, <3>2, ElementOfSeq
        <5>2. QED
          BY <1>0, <3>2, <5>1, Bounds, SubSeqProperties
      <4>2. kept = <<chat>> \o SubSeq(rest, 1, MaxHistory - 1)
        BY <1>0, <1>2, <3>2 DEF Kept
      <4>3. kept \in Seq(Seq(Turn))
        BY <4>1, <4>2, ConcatProperties
      <4>4. QED
        BY <4>3, LenProperties
    <3>3. QED
      BY <1>0, <3>1, <3>2
  <2> HIDE DEF kept
  <2>3. \A i \in 2..Len(kept) : i - 1 \in 1..Len(rest) /\ kept[i] = rest[i - 1]
    <3>1. \A l, m \in Nat : l <= m + 1 => \A i \in 2..l : i - 1 \in 1..m
      OBVIOUS
    <3>2. \A i \in 2..Len(kept) : i - 1 \in 1..Len(rest)
      BY <1>0, <2>1, <2>2, <3>1
    <3>3. QED
      BY <2>1, <3>2
  <2>4. \A i \in 1..Len(kept) : i = 1 \/ i \in 2..Len(kept)
    BY <2>2
  <2>5. ASSUME NEW i \in 1..Len(kept) PROVE Ids(kept[i]) \subseteq mine /\ Ids(kept[i]) \cap Ids(next) = {}
    BY <2>1, <2>3, <2>4
  <2>6. ASSUME NEW i \in 1..Len(kept), NEW j \in 1..Len(kept), i # j
        PROVE  Ids(kept[i]) \cap Ids(kept[j]) = {}
    <3>1. CASE i = 1
      BY <2>1, <2>3, <2>4, <2>6, <3>1
    <3>2. CASE j = 1
      BY <2>1, <2>3, <2>4, <2>6, <3>2
    <3>3. CASE i \in 2..Len(kept) /\ j \in 2..Len(kept)
      <4>1. i - 1 # j - 1
        BY <2>6, <3>3
      <4>2. QED
        BY <2>3, <3>3, <4>1
    <3>4. QED
      BY <2>4, <3>1, <3>2, <3>3
  <2>7. ASSUME n + 1 <= MaxHistory, NEW id \in mine
        PROVE  id \in Ids(next) \/ \E i \in 1..Len(kept) : id \in Ids(kept[i])
    <3>1. n <= MaxHistory /\ Len(kept) = Len(rest) + 1
      BY <1>0, <2>1, <2>7
    <3>2. CASE id \in Ids(chat)
      BY <2>1, <2>2, <3>2
    <3>3. ASSUME NEW i \in 1..Len(rest), id \in Ids(rest[i])
          PROVE  \E j \in 1..Len(kept) : id \in Ids(kept[j])
      <4>1. i + 1 \in 2..Len(kept) /\ i + 1 \in 1..Len(kept) /\ (i + 1) - 1 = i
        BY <1>0, <3>1
      <4>2. QED
        BY <2>3, <3>3, <4>1
    <3>4. QED
      BY <3>1, <3>2, <3>3
  <2>8. Len(kept) <= n + 1
    BY <1>0, <2>1, <2>2
  <2>9. QED
    BY <2>5, <2>6, <2>7, <2>8 DEF Accounted, kept
<1> QED
  BY <1>1, <1>2

\* The newest chat is put away and an empty one begun.
LEMMA BegunAnew ==
  ASSUME NEW chat \in Seq(Turn), NEW past \in Seq(Seq(Turn)), NEW mine, NEW n \in Nat,
         Accounted(chat, past, mine, n)
  PROVE  Accounted(<<>>, Kept(chat, past), mine, n + 1)
<1>1. /\ Ids(chat) \subseteq mine /\ Len(past) <= n
      /\ \A i \in 1..Len(past) : Ids(past[i]) \subseteq mine /\ Ids(past[i]) \cap Ids(chat) = {}
      /\ \A i, j \in 1..Len(past) : i # j => Ids(past[i]) \cap Ids(past[j]) = {}
      /\ n <= MaxHistory => \A id \in mine : id \in Ids(chat) \/ \E i \in 1..Len(past) : id \in Ids(past[i])
  BY DEF Accounted
<1>2. /\ Ids(<<>>) \subseteq mine /\ Ids(chat) \cap Ids(<<>>) = {}
      /\ \A i \in 1..Len(past) : Ids(past[i]) \cap Ids(<<>>) = {}
  BY NoIds
<1> QED
  BY <1>1, <1>2, ChatReplaced

\* A past chat changes places with the present one.
LEMMA Restored ==
  ASSUME NEW chat \in Seq(Turn), NEW past \in Seq(Seq(Turn)), NEW mine, NEW n \in Nat,
         NEW i \in 1..Len(past), Accounted(chat, past, mine, n)
  PROVE  Accounted(past[i], Kept(chat, Without(past, i)), mine, n + 1)
<1> DEFINE rest == Without(past, i)
           From == [k \in 1..(Len(past) - 1) |-> IF k < i THEN k ELSE k + 1]
<1>1. Len(past) \in Nat /\ i \in Nat
  BY LenProperties
<1>2. /\ rest \in Seq(Seq(Turn)) /\ Len(rest) = Len(past) - 1
      /\ \A k \in 1..(Len(past) - 1) : rest[k] = past[From[k]]
  BY OtherPast, WithoutEntries
<1>3. /\ \A k \in 1..(Len(past) - 1) : From[k] \in 1..Len(past) /\ From[k] # i
      /\ \A k, l \in 1..(Len(past) - 1) : k # l => From[k] # From[l]
      /\ \A l \in 1..Len(past) : l = i \/ \E k \in 1..(Len(past) - 1) : From[k] = l
  <2>1. ASSUME NEW l \in 1..Len(past), l # i PROVE \E k \in 1..(Len(past) - 1) : From[k] = l
    <3>1. CASE l < i
      <4>1. l \in 1..(Len(past) - 1)
        BY <1>1, <3>1
      <4>2. From[l] = l
        BY <3>1, <4>1
      <4>3. QED
        BY <4>1, <4>2
    <3>2. CASE ~(l < i)
      <4>1. l - 1 \in 1..(Len(past) - 1) /\ ~(l - 1 < i) /\ (l - 1) + 1 = l
        BY <1>1, <2>1, <3>2
      <4>2. From[l - 1] = l
        BY <4>1
      <4>3. QED
        BY <4>1, <4>2
    <3>3. QED
      BY <3>1, <3>2
  <2>2. QED
    BY <1>1, <2>1
<1> HIDE DEF rest, From
<1>4. ASSUME NEW k \in 1..Len(rest)
      PROVE  /\ Ids(rest[k]) \subseteq mine
             /\ Ids(rest[k]) \cap Ids(chat) = {}
             /\ Ids(rest[k]) \cap Ids(past[i]) = {}
  <2>1. From[k] \in 1..Len(past) /\ From[k] # i /\ rest[k] = past[From[k]]
    BY <1>2, <1>3
  <2>2. QED
    BY <2>1 DEF Accounted
<1>5. ASSUME NEW k \in 1..Len(rest), NEW l \in 1..Len(rest), k # l
      PROVE  Ids(rest[k]) \cap Ids(rest[l]) = {}
  <2>1. /\ From[k] \in 1..Len(past) /\ From[l] \in 1..Len(past) /\ From[k] # From[l]
        /\ rest[k] = past[From[k]] /\ rest[l] = past[From[l]]
    BY <1>2, <1>3, <1>5
  <2>2. QED
    BY <2>1 DEF Accounted
<1>6. ASSUME n <= MaxHistory, NEW id \in mine
      PROVE  id \in Ids(chat) \/ id \in Ids(past[i]) \/ \E k \in 1..Len(rest) : id \in Ids(rest[k])
  <2>1. id \in Ids(chat) \/ \E l \in 1..Len(past) : id \in Ids(past[l])
    BY <1>6 DEF Accounted
  <2>2. ASSUME NEW l \in 1..Len(past), l # i, id \in Ids(past[l])
        PROVE  \E k \in 1..Len(rest) : id \in Ids(rest[k])
    <3>1. PICK k \in 1..(Len(past) - 1) : From[k] = l
      BY <1>3, <2>2
    <3>2. k \in 1..Len(rest) /\ rest[k] = past[l]
      BY <1>2, <3>1
    <3>3. QED
      BY <2>2, <3>2
  <2>3. QED
    BY <2>1, <2>2
<1>7. /\ Ids(chat) \subseteq mine /\ Ids(past[i]) \subseteq mine /\ Ids(chat) \cap Ids(past[i]) = {}
      /\ Len(rest) <= n
  BY <1>1, <1>2 DEF Accounted
<1>8. Accounted(past[i], Kept(chat, rest), mine, n + 1)
  BY <1>2, <1>4, <1>5, <1>6, <1>7, ChatReplaced
<1> QED
  BY <1>8 DEF rest

-----------------------------------------------------------------------------
(* The steps.                                                              *)

\* Steps after which every chat is of the turns it was of.
LEMMA SameTurns ==
  ASSUME TurnsInv, UNCHANGED <<history, placed, chats>>,
         \A c \in Clusters : Ids(transcript'[c]) = Ids(transcript[c])
  PROVE  TurnsInv'
<1>1. ASSUME NEW c \in Clusters PROVE Accounted(transcript'[c], history[c], placed[c], chats)
  BY DEF TurnsInv, Accounted
<1>2. \A c \in Clusters : Accounted(transcript'[c], history'[c], placed'[c], chats')
  BY <1>1
<1> QED
  BY <1>2 DEF TurnsInv, Accounted, Ids

LEMMA SameChats ==
  ASSUME TurnsInv, UNCHANGED <<transcript, history, placed, chats>>
  PROVE  TurnsInv'
  BY SameTurns

\* A message appends a turn with a number no turn had before.
LEMMA AskAccounted ==
  ASSUME ChatInv, TurnsInv, NEW d \in Clusters, NEW clients, Ask(d, clients), UNCHANGED <<history, chats>>
  PROVE  TurnsInv'
<1> DEFINE turn == [id |-> turns + 1, state |-> "streaming"]
<1>1. /\ transcript \in [Clusters -> Seq(Turn)]
      /\ placed \in [Clusters -> SUBSET (1..turns)]
      /\ turns \in Nat
  BY DEF ChatInv, ChatTypeOK
<1>2. /\ transcript' = [transcript EXCEPT ![d] = Append(transcript[d], turn)]
      /\ placed' = [placed EXCEPT ![d] = placed[d] \cup {turns + 1}]
  BY DEF Ask
<1>3. turn.id = turns + 1 /\ turns + 1 \notin placed[d]
  BY <1>1
<1> HIDE DEF turn
<1>4. Accounted(Append(transcript[d], turn), history[d], placed[d] \cup {turns + 1}, chats)
  <2>1. turn \in Turn \cup {turn} /\ Turn \subseteq Turn \cup {turn}
    OBVIOUS
  <2>2. QED
    BY <1>1, <1>3, <2>1, TurnJoins DEF TurnsInv
<1>5. ASSUME NEW c \in Clusters PROVE Accounted(transcript'[c], history'[c], placed'[c], chats')
  <2>1. CASE c = d
    BY <1>1, <1>2, <1>4, <2>1
  <2>2. CASE c # d
    <3>1. transcript'[c] = transcript[c] /\ placed'[c] = placed[c]
      BY <1>1, <1>2, <2>2
    <3>2. QED
      BY <3>1 DEF TurnsInv
  <2>3. QED
    BY <2>1, <2>2
<1> QED
  BY <1>5 DEF TurnsInv, Accounted, Ids

LEMMA GoesOnAccounted ==
  ASSUME ChatInv, TurnsInv, NEW p \in Sends, NEW d \in Clusters, NEW clients, GoesOn(p, d, clients),
         UNCHANGED <<history, chats>>
  PROVE  TurnsInv'
<1>1. CASE d \in session
  BY <1>1, AskAccounted DEF GoesOn
<1>2. CASE d \notin session
  BY <1>2, SameChats DEF GoesOn
<1> QED
  BY <1>1, <1>2

LEMMA SendsAccounted ==
  ASSUME ChatInv, TurnsInv, NEW p \in Sends,
         SendMessage(p) \/ SendOpens(p) \/ SessionCreated(p) \/ SessionFails(p)
  PROVE  TurnsInv'
<1>1. CASE SendMessage(p)
  <2>1. active \in Clusters
    BY <1>1 DEF SendMessage, MaySend, InputDisabled, ChatInv, ChatTypeOK
  <2>2. QED
    BY <1>1, <2>1, GoesOnAccounted DEF SendMessage
<1>2. CASE SessionCreated(p)
  <2>1. send[p].cluster \in Clusters
    BY <1>2 DEF SessionCreated, ChatInv, Waiting
  <2>2. QED
    BY <1>2, <2>1, AskAccounted DEF SessionCreated
<1>3. CASE SendOpens(p) \/ SessionFails(p)
  BY <1>3, SameChats DEF SendOpens, SessionFails, books
<1> QED
  BY <1>1, <1>2, <1>3

LEMMA ClientsAccounted ==
  ASSUME ChatInv, TurnsInv, NEW k \in Clients,
         \/ Opened(k) \/ Dropped(k) \/ LateClose(k) \/ StreamOpens(k)
         \/ StreamRefused(k) \/ StreamBreaks(k) \/ Ends(k) \/ BrainRespawned(k)
  PROVE  TurnsInv'
<1>1. CASE Opened(k)
  <2>1. PICK p \in Sends : send[p].via = k /\ GoesOn(p, send[p].cluster, client')
    BY <1>1 DEF Opened
  <2>2. send[p].cluster \in Clusters
    BY <2>1, Bounds DEF ChatInv, Waiting
  <2>3. QED
    BY <1>1, <2>1, <2>2, GoesOnAccounted DEF Opened
<1>2. CASE Dropped(k) \/ LateClose(k) \/ StreamOpens(k)
  BY <1>2, SameChats DEF Dropped, LateClose, StreamOpens, books, calls
<1>3. CASE StreamRefused(k) \/ StreamBreaks(k) \/ Ends(k)
  <2>1. client[k].cluster \in Clusters
    BY <1>3, OpenIsCurrent DEF StreamRefused, StreamBreaks, Ends, Answers
  <2>2. PICK state : transcript' = Applied(k, state)
    BY <1>3 DEF StreamRefused, StreamBreaks, Ends
  <2>3. \A c \in Clusters : Ids(transcript'[c]) = Ids(transcript[c])
    BY <2>1, <2>2, AppliedIds DEF ChatInv
  <2>4. UNCHANGED <<history, placed, chats>>
    BY <1>3 DEF StreamRefused, StreamBreaks, Ends, calls
  <2>5. QED
    BY <2>3, <2>4, SameTurns
<1>4. CASE BrainRespawned(k)
  <2> DEFINE d == client[k].cluster
  <2>1. d \in Clusters
    BY <1>4, OpenIsCurrent DEF BrainRespawned, Answers
  <2>2. transcript \in [Clusters -> Seq(Turn)]
    BY DEF ChatInv, ChatTypeOK
  <2>3. transcript' = [transcript EXCEPT ![d] =
          [i \in 1..Len(transcript[d]) |-> [transcript[d][i] EXCEPT !.state = "historical"]]]
    BY <1>4 DEF BrainRespawned
  <2>4. Ids(transcript'[d]) = Ids(transcript[d])
    <3> DEFINE flipped == [i \in 1..Len(transcript[d]) |-> [transcript[d][i] EXCEPT !.state = "historical"]]
    <3>1. Len(transcript[d]) \in Nat /\ \A i \in 1..Len(transcript[d]) : transcript[d][i] \in Turn
      BY <2>1, <2>2, LenProperties, ElementOfSeq
    <3>2. Len(flipped) = Len(transcript[d])
      BY <3>1
    <3>3. \A i \in 1..Len(transcript[d]) : flipped[i].id = transcript[d][i].id
      BY <3>1 DEF Turn
    <3>4. transcript'[d] = flipped
      BY <2>1, <2>2, <2>3
    <3> HIDE DEF flipped
    <3>5. QED
      BY <3>2, <3>3, <3>4 DEF Ids
  <2>5. \A c \in Clusters : Ids(transcript'[c]) = Ids(transcript[c])
    <3>1. \A c \in Clusters \ {d} : transcript'[c] = transcript[c]
      BY <2>2, <2>3
    <3>2. QED
      BY <2>4, <3>1
  <2>6. UNCHANGED <<history, placed, chats>>
    BY <1>4 DEF BrainRespawned, calls
  <2>7. QED
    BY <2>5, <2>6, SameTurns
<1> QED
  BY <1>1, <1>2, <1>3, <1>4

LEMMA ButtonsAccounted ==
  ASSUME ChatInv, TurnsInv, NewChat \/ \E i \in 1..MaxHistory : RestoreSession(i)
  PROVE  TurnsInv'
<1>1. /\ active \in Clusters
      /\ transcript \in [Clusters -> Seq(Turn)]
      /\ history \in [Clusters -> Seq(Seq(Turn))]
      /\ chats \in Nat /\ chats' = chats + 1 /\ placed' = placed
  BY Bounds DEF ChatInv, ChatTypeOK, NewChat, RestoreSession, calls
<1>2. Accounted(transcript[active], history[active], placed[active], chats)
  BY <1>1 DEF TurnsInv
<1>3. PICK chat, past :
        /\ transcript' = [transcript EXCEPT ![active] = chat]
        /\ history' = [history EXCEPT ![active] = past]
        /\ Accounted(chat, past, placed[active], chats + 1)
  <2>1. CASE NewChat
    <3>1. Accounted(<<>>, Kept(transcript[active], history[active]), placed[active], chats + 1)
      BY <1>1, <1>2, BegunAnew
    <3>2. QED
      BY <2>1, <3>1 DEF NewChat
  <2>2. ASSUME NEW i \in 1..MaxHistory, RestoreSession(i)
        PROVE  \E chat, past : /\ transcript' = [transcript EXCEPT ![active] = chat]
                               /\ history' = [history EXCEPT ![active] = past]
                               /\ Accounted(chat, past, placed[active], chats + 1)
    <3>1. i \in 1..Len(history[active])
      BY <2>2 DEF RestoreSession
    <3>2. Accounted(history[active][i], Kept(transcript[active], Without(history[active], i)),
                    placed[active], chats + 1)
      BY <1>1, <1>2, <3>1, Restored
    <3>3. /\ transcript' = [transcript EXCEPT ![active] = history[active][i]]
          /\ history' = [history EXCEPT ![active] = Kept(transcript[active], Without(history[active], i))]
      BY <2>2 DEF RestoreSession, Without
    <3>4. QED
      BY <3>2, <3>3
  <2>3. QED
    BY <2>1, <2>2
<1>4. ASSUME NEW c \in Clusters PROVE Accounted(transcript'[c], history'[c], placed[c], chats + 1)
  <2>1. CASE c = active
    BY <1>1, <1>3, <2>1
  <2>2. CASE c # active
    <3>1. transcript'[c] = transcript[c] /\ history'[c] = history[c]
      BY <1>1, <1>3, <2>2
    <3>2. Accounted(transcript[c], history[c], placed[c], chats)
      BY DEF TurnsInv
    <3>3. Len(history[c]) \in Nat /\ MaxHistory \in Nat
      BY <1>1, Bounds, LenProperties
    <3>4. Accounted(transcript[c], history[c], placed[c], chats + 1)
      <4>1. Len(history[c]) <= chats + 1
        BY <1>1, <3>2, <3>3 DEF Accounted
      <4>2. chats + 1 <= MaxHistory => chats <= MaxHistory
        BY <1>1, <3>3
      <4>3. QED
        BY <3>2, <4>1, <4>2 DEF Accounted
    <3>5. QED
      BY <3>1, <3>4
  <2>3. QED
    BY <2>1, <2>2
<1> QED
  BY <1>1, <1>4 DEF TurnsInv, Accounted, Ids

\* The account of a cluster whose present chat is dropped with its turns.
LEMMA ChatDropped ==
  ASSUME NEW chat, NEW past, NEW mine, NEW n, Accounted(chat, past, mine, n)
  PROVE  Accounted(<<>>, past, mine \ Ids(chat), n)
<1>1. \A i \in 1..Len(past) : Ids(past[i]) \subseteq mine \ Ids(chat)
  BY DEF Accounted
<1>2. n <= MaxHistory => \A id \in mine \ Ids(chat) : \E i \in 1..Len(past) : id \in Ids(past[i])
  BY DEF Accounted
<1> QED
  BY <1>1, <1>2, NoIds DEF Accounted

LEMMA SwitchAccounted ==
  ASSUME TurnsInv, NEW c \in Clusters \cup {None}, Switch(c)
  PROVE  TurnsInv'
<1>1. UNCHANGED <<history, chats>> /\ (DropChats \/ UNCHANGED <<transcript, placed>>)
  BY DEF Switch
<1>2. CASE DropChats
  <2>1. ASSUME NEW d \in Clusters PROVE Accounted(transcript'[d], history[d], placed'[d], chats)
    <3>1. transcript'[d] = <<>> /\ placed'[d] = placed[d] \ Ids(transcript[d])
      BY <1>2 DEF DropChats
    <3>2. Accounted(transcript[d], history[d], placed[d], chats)
      BY DEF TurnsInv
    <3>3. Accounted(<<>>, history[d], placed[d] \ Ids(transcript[d]), chats)
      BY <3>2, ChatDropped
    <3>4. QED
      BY <3>1, <3>3
  <2>2. \A d \in Clusters : Accounted(transcript'[d], history'[d], placed'[d], chats')
    BY <1>1, <2>1
  <2>3. QED
    BY <2>2 DEF TurnsInv, Accounted, Ids
<1>3. CASE UNCHANGED <<transcript, placed>>
  BY <1>1, <1>3, SameChats
<1> QED
  BY <1>1, <1>2, <1>3

LEMMA TurnsStep == ASSUME ChatInv, TurnsInv, [ChatNext]_cvars PROVE TurnsInv'
<1>1. CASE \E p \in Sends : SendMessage(p) \/ SendOpens(p) \/ SessionCreated(p) \/ SessionFails(p)
  BY <1>1, SendsAccounted
<1>2. CASE \E k \in Clients :
             \/ Opened(k) \/ Dropped(k) \/ LateClose(k) \/ StreamOpens(k)
             \/ StreamRefused(k) \/ StreamBreaks(k) \/ Ends(k) \/ BrainRespawned(k)
  BY <1>2, ClientsAccounted
<1>3. CASE NewChat \/ \E i \in 1..MaxHistory : RestoreSession(i)
  BY <1>3, ButtonsAccounted
<1>4. ASSUME NEW c \in Clusters \cup {None}, Switch(c) PROVE TurnsInv'
  BY <1>4, SwitchAccounted
<1>5. CASE BackendChanges \/ UNCHANGED cvars
  BY <1>5, SameChats DEF BackendChanges, cvars, books, calls
<1> QED
  BY <1>1, <1>2, <1>3, <1>4, <1>5 DEF ChatNext

LEMMA TurnsInitially == ChatInit => TurnsInv
<1> SUFFICES ASSUME ChatInit, NEW c \in Clusters
             PROVE  Accounted(transcript[c], history[c], placed[c], chats)
  BY DEF TurnsInv
<1>1. transcript[c] = <<>> /\ history[c] = <<>> /\ placed[c] = {} /\ chats = 0
  BY DEF ChatInit
<1>2. Len(history[c]) = 0 /\ 1..0 = {}
  BY <1>1
<1> QED
  BY <1>1, <1>2, NoIds DEF Accounted

\* The account implies what TurnsKept says of it.
LEMMA AccountedKept == ASSUME ChatTypeOK, TurnsInv PROVE TurnsKept
<1> SUFFICES ASSUME NEW c \in Clusters
             PROVE  /\ \A i \in 1..Len(history[c]) :
                         /\ Ids(history[c][i]) \cap Ids(transcript[c]) = {}
                         /\ \A j \in 1..(i - 1) : Ids(history[c][i]) \cap Ids(history[c][j]) = {}
                    /\ chats <= MaxHistory => UNION {Ids(chat) : chat \in Chats(c)} = placed[c]
  BY DEF TurnsKept
<1>1. Accounted(transcript[c], history[c], placed[c], chats)
  BY DEF TurnsInv
<1>2. Len(history[c]) \in Nat
  BY LenProperties DEF ChatTypeOK
<1>3. ASSUME NEW i \in 1..Len(history[c])
      PROVE  /\ Ids(history[c][i]) \cap Ids(transcript[c]) = {}
             /\ \A j \in 1..(i - 1) : Ids(history[c][i]) \cap Ids(history[c][j]) = {}
  <2>1. \A j \in 1..(i - 1) : j \in 1..Len(history[c]) /\ i # j
    BY <1>2
  <2>2. QED
    BY <1>1, <2>1 DEF Accounted
<1>4. ASSUME chats <= MaxHistory PROVE UNION {Ids(chat) : chat \in Chats(c)} = placed[c]
  <2>1. \A chat \in Chats(c) : chat = transcript[c] \/ \E i \in 1..Len(history[c]) : chat = history[c][i]
    BY DEF Chats
  <2>2. \A chat \in Chats(c) : Ids(chat) \subseteq placed[c]
    BY <1>1, <2>1 DEF Accounted
  <2>3. transcript[c] \in Chats(c) /\ \A i \in 1..Len(history[c]) : history[c][i] \in Chats(c)
    BY DEF Chats
  <2>4. \A id \in placed[c] : \E chat \in Chats(c) : id \in Ids(chat)
    BY <1>1, <1>4, <2>3 DEF Accounted
  <2>5. QED
    BY <2>2, <2>4
<1> QED
  BY <1>3, <1>4

\* Whatever chats are begun, restored and dropped in whatever order, also during a
\* call of sendMessage, no turn is in two chats, and while fewer chats were begun
\* than the store keeps none is missing but those of present chats that a switch
\* of the cluster has dropped whole.
THEOREM ChatsKeepTurns == ChatSpec => []TurnsKept
<1>1. ChatInit => TurnsInv
  BY TurnsInitially
<1>2. ChatInv /\ TurnsInv /\ [ChatNext]_cvars => TurnsInv'
  BY TurnsStep
<1>3. ChatInv /\ TurnsInv => TurnsKept
  BY AccountedKept DEF ChatInv
<1> QED
  BY <1>1, <1>2, <1>3, ChatInvariant, PTL DEF ChatSpec
=============================================================================
