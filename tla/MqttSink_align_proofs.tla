------------------------- MODULE MqttSink_align_proofs -------------------------
(* Proof that an honest peer's in-order acks are never taken for a         *)
(* protocol violation (InOrderAcksAccepted), for every value of the        *)
(* constants, on a connection whose sink is never closed by the user.     *)
(* With close() or ping() a woken sender panics after it recorded its id   *)
(* and before its packet went out (finding 2), and the property fails.    *)
EXTENDS MqttSink_ack_proofs

USE SinkAssumptions

\* MqttSink::close and MqttSink::ping are not called on this connection
NoTakeSender == "close" \notin EnvEvents /\ "ping" \notin EnvEvents

(* The inductive invariant: the ack bookkeeping of MqttSink_ack_proofs,    *)
(* the outbound sender still in place, and the property itself.            *)
AlignInv == IInv /\ sink = TRUE /\ InOrderAcksAccepted

-----------------------------------------------------------------------------
(* Every slab entry the peer owes an ack for belongs to a task that was    *)
(* given an id, so a step that changes only the kind of id-less tasks      *)
(* (a send before it takes an entry, send_at_most_once) cannot disturb it. *)
LEMMA KindFrame ==
  ASSUME AlignInv, UNCHANGED <<queue, queue_order, inbox>>,
         dispatcher' = dispatcher \/ dispatcher' # "Running",
         \A u \in Tasks : pid[u] # 0 => kind'[u] = kind[u]
  PROVE  InOrderAcksAccepted'
<1> SUFFICES ASSUME dispatcher' = "Running" PROVE InOrderAcksAccepted'
  BY DEF InOrderAcksAccepted, Running
<1>1. Running
  BY DEF Running
<1>2. ASSUME NEW i \in 1..Len(inbox)
      PROVE  kind'[queue[inbox[i].id - 1]] = kind[queue[inbox[i].id - 1]]
  <2>1. inbox[i].id - 1 \in Keys /\ queue[inbox[i].id - 1] # NoTask
    <3>1. inbox[i] \in Ack
      BY DEF AlignInv, IInv, TypeOK
    <3>2. inbox[i].id - 1 \in Keys
      BY <3>1 DEF Ack, Ids, Keys
    <3>. QED  BY <1>1, <3>2 DEF AlignInv, InOrderAcksAccepted
  <2>2. queue[inbox[i].id - 1] \in Tasks /\ pid[queue[inbox[i].id - 1]] # 0
    BY <2>1 DEF AlignInv, IInv, TypeOK, SlabOwned, Keys
  <2>. QED  BY <2>2
<1>. QED  BY <1>1, <1>2 DEF AlignInv, InOrderAcksAccepted, Running

(* The allocation path with the sender in place: when the packet goes out *)
(* its id joins the tail of queue_order and the peer's inbox together.     *)
LEMMA AllocateAlign ==
  ASSUME AlignInv, NEW t \in Tasks, NEW k \in AckKinds, Allocate(t, k),
         pc[t] \in {"Idle", "Woken"}, kind'[t] = k,
         \A u \in Tasks \ {t} : kind'[u] = kind[u],
         dispatcher' = dispatcher
  PROVE  InOrderAcksAccepted'
<1>1. pid[t] = 0
  BY DEF AlignInv, IInv, Unsent
<1>2. \A u \in Tasks : pid[u] # 0 => kind'[u] = kind[u]
  BY <1>1
<1>3. CASE ~IdAvailable(NextKey + 1)
  BY <1>2, <1>3, KindFrame DEF Allocate
<1>4. CASE IdAvailable(NextKey + 1) /\ ~Running
  BY <1>4 DEF InOrderAcksAccepted, Running
<1>5. CASE IdAvailable(NextKey + 1) /\ Running
  <2> DEFINE nk == NextKey
             id == nk + 1
  <2>1. /\ queue' = [queue EXCEPT ![nk] = t]
        /\ queue_order' = Append(queue_order, id)
        /\ inbox' = Append(inbox, [id |-> id, kind |-> k])
    BY <1>5 DEF Allocate, SlabInsert, RecordOrder, AlignInv
  <2>2. /\ nk \in Keys /\ id \in Ids /\ queue[nk] = NoTask
    <3>1. /\ nk \in Nat
          /\ nk \in Keys => queue[nk] = NoTask
      BY NextKeyFree DEF AlignInv
    <3>. QED  BY <1>5, <3>1 DEF IdAvailable, Keys, Ids
  <2>3. /\ queue_order \in Seq(Ids) /\ inbox \in Seq(Ack)
        /\ Len(queue_order) = Len(inbox)
        /\ [id |-> id, kind |-> k] \in Ack
    BY <1>5, <2>2 DEF AlignInv, IInv, TypeOK, InOrderAcksAccepted, Ack
  <2>4. /\ Len(inbox') = Len(inbox) + 1
        /\ Len(queue_order') = Len(inbox) + 1
        /\ \A i \in 1..Len(inbox) : inbox'[i] = inbox[i] /\ queue_order'[i] = queue_order[i]
        /\ inbox'[Len(inbox) + 1] = [id |-> id, kind |-> k]
        /\ queue_order'[Len(inbox) + 1] = id
    BY <2>1, <2>2, <2>3, AppendProperties
  <2>5. ASSUME NEW i \in 1..Len(inbox)
        PROVE  /\ queue_order'[i] = inbox'[i].id
               /\ queue'[inbox'[i].id - 1] # NoTask
               /\ kind'[queue'[inbox'[i].id - 1]] = inbox'[i].kind
    <3> DEFINE kk == inbox[i].id - 1
    <3>1. kk \in Keys /\ queue[kk] # NoTask /\ queue_order[i] = inbox[i].id
          /\ kind[queue[kk]] = inbox[i].kind
      BY <1>5, <2>3 DEF AlignInv, InOrderAcksAccepted, Ack, Ids, Keys
    <3>2. kk # nk /\ queue'[kk] = queue[kk]
      BY <2>1, <2>2, <3>1 DEF AlignInv, IInv, TypeOK
    <3>3. queue[kk] \in Tasks /\ pid[queue[kk]] # 0
      BY <3>1 DEF AlignInv, IInv, TypeOK, SlabOwned, Keys
    <3>. QED  BY <1>2, <2>4, <3>1, <3>2, <3>3
  <2>6. /\ queue_order'[Len(inbox) + 1] = inbox'[Len(inbox) + 1].id
        /\ queue'[inbox'[Len(inbox) + 1].id - 1] # NoTask
        /\ kind'[queue'[inbox'[Len(inbox) + 1].id - 1]] = inbox'[Len(inbox) + 1].kind
    <3>1. inbox'[Len(inbox) + 1].id - 1 = nk /\ inbox'[Len(inbox) + 1].kind = k
      BY <2>2, <2>4 DEF Keys
    <3>2. queue'[nk] = t
      BY <2>1, <2>2 DEF AlignInv, IInv, TypeOK
    <3>. QED  BY <2>4, <3>1, <3>2 DEF AlignInv, IInv, TypeOK
  <2>. QED  BY <1>5, <2>4, <2>5, <2>6 DEF InOrderAcksAccepted, Running
<1>. QED  BY <1>3, <1>4, <1>5

(* pkt_ack with the honest peer's ack: the head of queue_order and of the  *)
(* inbox go together, and the entries behind them are untouched because    *)
(* the ids in queue_order are distinct.                                    *)
LEMMA AckMatchAlign ==
  ASSUME AlignInv, NEW a \in Ack, Running, queue_order # <<>>,
         Head(queue_order) = a.id, AckInOrder(a), inbox # <<>>,
         inbox' = Tail(inbox)
  PROVE  InOrderAcksAccepted'
<1> DEFINE key == a.id - 1
<1>1. /\ queue' = [queue EXCEPT ![key] = NoTask]
      /\ queue_order' = Tail(queue_order)
      /\ kind' = kind
  BY DEF AckInOrder
<1>2. /\ queue_order \in Seq(Ids) /\ inbox \in Seq(Ack)
      /\ Len(queue_order) = Len(inbox)
      /\ queue_order[1] = a.id
  BY EmptySeq DEF AlignInv, IInv, TypeOK, InOrderAcksAccepted
<1>3. /\ Len(queue_order') = Len(queue_order) - 1
      /\ Len(inbox') = Len(inbox) - 1
      /\ \A i \in 1..Len(inbox') : queue_order'[i] = queue_order[i + 1]
                                  /\ inbox'[i] = inbox[i + 1]
  BY <1>1, <1>2, HeadTailProperties
<1>4. ASSUME NEW i \in 1..Len(inbox')
      PROVE  /\ queue_order'[i] = inbox'[i].id
             /\ queue'[inbox'[i].id - 1] # NoTask
             /\ kind'[queue'[inbox'[i].id - 1]] = inbox'[i].kind
  <2>1. i + 1 \in 1..Len(inbox) /\ 1 \in 1..Len(inbox)
    BY <1>2, <1>3
  <2>2. /\ queue_order[i + 1] = inbox[i + 1].id
        /\ queue[inbox[i + 1].id - 1] # NoTask
        /\ kind[queue[inbox[i + 1].id - 1]] = inbox[i + 1].kind
    BY <2>1 DEF AlignInv, InOrderAcksAccepted, Running
  <2>3. queue_order[i + 1] # a.id
    BY <1>2, <2>1 DEF AlignInv, IInv, OrderTracksSlab
  <2>4. inbox[i + 1].id - 1 \in Keys /\ inbox[i + 1].id - 1 # key
    <3>1. inbox[i + 1] \in Ack
      BY <1>2, <2>1
    <3>. QED  BY <2>2, <2>3, <3>1 DEF Ack, Ids, Keys
  <2>5. queue'[inbox[i + 1].id - 1] = queue[inbox[i + 1].id - 1]
    BY <1>1, <2>4 DEF AlignInv, IInv, TypeOK
  <2>. QED  BY <1>1, <1>3, <2>2, <2>5
<1>. QED  BY <1>2, <1>3, <1>4 DEF InOrderAcksAccepted

(* pkt_ack keeps the dispatcher running only on the matching branch of     *)
(* AckInOrder; every other branch stops it or panics it.                   *)
LEMMA PktAckRunning ==
  ASSUME NEW a \in Ack, PktAck(a), dispatcher' = "Running"
  PROVE  /\ queue_order # <<>> /\ Head(queue_order) = a.id
         /\ AckInOrder(a) /\ IsMatch(queue[a.id - 1], a)
         /\ dispatcher = "Running"
<1>1. ~CloseWhileBorrowed
  BY DEF CloseWhileBorrowed
<1>2. queue_order # <<>> /\ Head(queue_order) = a.id /\ AckInOrder(a)
  BY <1>1 DEF PktAck
<1>3. IsMatch(queue[a.id - 1], a) /\ dispatcher' = dispatcher
  BY <1>2 DEF AckInOrder
<1>. QED  BY <1>2, <1>3

LEMMA PeerAckAlign ==
  ASSUME AlignInv, PeerAck
  PROVE  InOrderAcksAccepted'
<1> SUFFICES ASSUME dispatcher' = "Running" PROVE InOrderAcksAccepted'
  BY DEF InOrderAcksAccepted, Running
<1>1. inbox # <<>> /\ Head(inbox) \in Ack /\ PktAck(Head(inbox)) /\ inbox' = Tail(inbox)
  BY HeadTailProperties DEF PeerAck, AlignInv, IInv, TypeOK
<1>2. /\ queue_order # <<>> /\ Head(queue_order) = Head(inbox).id
      /\ AckInOrder(Head(inbox)) /\ Running
  BY <1>1, PktAckRunning DEF Running
<1>. QED  BY <1>1, <1>2, AckMatchAlign

(* Any other ack while the connection runs: if it named the head of        *)
(* queue_order it would be the honest ack itself, so the kind check fails  *)
(* and the dispatcher stops; the matching branch cannot be taken.          *)
LEMMA PeerBadAckAlign ==
  ASSUME AlignInv, NEW a \in Ack, PeerBadAck(a)
  PROVE  InOrderAcksAccepted'
<1> SUFFICES ASSUME dispatcher' = "Running" PROVE FALSE
  BY DEF InOrderAcksAccepted, Running
<1>1. /\ queue_order # <<>> /\ Head(queue_order) = a.id
      /\ IsMatch(queue[a.id - 1], a) /\ Running
  BY PktAckRunning DEF PeerBadAck, Running
<1>2. /\ queue_order \in Seq(Ids) /\ inbox \in Seq(Ack)
      /\ Len(queue_order) = Len(inbox) /\ Len(queue_order) >= 1
  BY <1>1, EmptySeq DEF AlignInv, IInv, TypeOK, InOrderAcksAccepted
<1>3. inbox # <<>> /\ Head(inbox) = inbox[1] /\ inbox[1] \in Ack
  BY <1>2, EmptySeq
<1>4. /\ queue_order[1] = inbox[1].id
      /\ kind[queue[inbox[1].id - 1]] = inbox[1].kind
  BY <1>1, <1>2 DEF AlignInv, InOrderAcksAccepted
<1>5. inbox[1].id = a.id /\ inbox[1].kind = a.kind
  BY <1>1, <1>2, <1>4 DEF IsMatch
<1>6. inbox[1] = a
  BY <1>3, <1>5 DEF Ack
<1>. QED  BY <1>3, <1>6 DEF PeerBadAck

-----------------------------------------------------------------------------
LEMMA SendWithAckAlign ==
  ASSUME AlignInv, NEW t \in Tasks, NEW k \in AckKinds, SendWithAck(t, k)
  PROVE  InOrderAcksAccepted'
<1>1. /\ pc[t] = "Idle" /\ pid[t] = 0 /\ sink /\ dispatcher' = dispatcher
      /\ kind' = [kind EXCEPT ![t] = k]
  BY DEF SendWithAck, AlignInv, IInv, Unsent
<1>2. /\ kind'[t] = k
      /\ \A u \in Tasks \ {t} : kind'[u] = kind[u]
      /\ \A u \in Tasks : pid[u] # 0 => kind'[u] = kind[u]
  BY <1>1 DEF AlignInv, IInv, TypeOK
<1>3. CASE Allocate(t, k)
  BY <1>1, <1>2, <1>3, AllocateAlign
<1>4. CASE ~Allocate(t, k)
  <2>1. UNCHANGED <<queue, queue_order, inbox>>
    BY <1>1, <1>4 DEF SendWithAck
  <2>. QED  BY <1>1, <1>2, <2>1, KindFrame
<1>. QED  BY <1>3, <1>4

LEMMA ResumeAlign ==
  ASSUME AlignInv, NEW t \in Tasks, Resume(t)
  PROVE  InOrderAcksAccepted'
<1>1. kind[t] \in AckKinds /\ kind' = kind
  BY DEF Resume, AlignInv, IInv, TypeOK
<1>. QED  BY <1>1, AllocateAlign DEF Resume

LEMMA SendAtMostOnceAlign ==
  ASSUME AlignInv, NEW t \in Tasks, SendAtMostOnce(t)
  PROVE  InOrderAcksAccepted'
<1>1. pid[t] = 0 /\ kind' = [kind EXCEPT ![t] = "AtMostOnce"]
  BY DEF SendAtMostOnce, AlignInv, IInv, Unsent
<1>2. \A u \in Tasks : pid[u] # 0 => kind'[u] = kind[u]
  BY <1>1 DEF AlignInv, IInv, TypeOK
<1>. QED  BY <1>2, KindFrame DEF SendAtMostOnce, sinkVars, envVars

(* A step of the sink model keeps AlignInv while nobody takes the sender.  *)
LEMMA NextAlign ==
  ASSUME NoTakeSender, AlignInv, [Next]_vars
  PROVE  AlignInv'
<1>1. IInv'
  BY NextInv DEF AlignInv
<1>2. sink' = TRUE
  <2>1. ~Close /\ ~Ping
    BY DEF NoTakeSender, Close, Ping
  <2>2. ASSUME NEW a \in Ack, PktAck(a) PROVE sink' = sink
    BY <2>2 DEF PktAck, AckInOrder, CloseWhileBorrowed
  <2>3. ASSUME NEW t \in Tasks, NEW k \in AckKinds, SendWithAck(t, k)
        PROVE  sink' = sink
    BY <2>3 DEF SendWithAck
  <2>4. ASSUME NEW t \in Tasks, SendAtMostOnce(t) \/ Resume(t) \/ Cancel(t)
        PROVE  sink' = sink
    BY <2>4 DEF SendAtMostOnce, Resume, Cancel, sinkVars
  <2>5. sink' = sink
    <3>1. CASE \E t \in Tasks : SendPublish(t) \/ SendSubscribe(t) \/ SendUnsubscribe(t)
      BY <2>3, <3>1 DEF SendPublish, SendSubscribe, SendUnsubscribe, AckKinds
    <3>2. CASE \E t \in Tasks : SendAtMostOnce(t) \/ Resume(t) \/ Cancel(t)
      BY <2>4, <3>2
    <3>3. CASE Disconnect \/ UNCHANGED vars
      BY <3>3 DEF Disconnect, vars, sinkVars
    <3>4. CASE PeerAck \/ \E a \in Ack : PeerBadAck(a)
      <4>1. CASE PeerAck
        <5>1. Head(inbox) \in Ack
          BY <4>1, HeadTailProperties DEF PeerAck, AlignInv, IInv, TypeOK
        <5>. QED  BY <2>2, <4>1, <5>1 DEF PeerAck
      <4>2. CASE \E a \in Ack : PeerBadAck(a)
        BY <2>2, <4>2 DEF PeerBadAck
      <4>. QED  BY <3>4, <4>1, <4>2
    <3>. QED  BY <2>1, <3>1, <3>2, <3>3, <3>4 DEF Next
  <2>. QED  BY <2>5 DEF AlignInv
<1>3. InOrderAcksAccepted'
  <2>1. CASE \E t \in Tasks : SendPublish(t) \/ SendSubscribe(t) \/ SendUnsubscribe(t)
    BY <2>1, SendWithAckAlign DEF SendPublish, SendSubscribe, SendUnsubscribe, AckKinds
  <2>2. CASE \E t \in Tasks : SendAtMostOnce(t)
    BY <2>2, SendAtMostOnceAlign
  <2>3. CASE \E t \in Tasks : Resume(t)
    BY <2>3, ResumeAlign
  <2>4. CASE \E t \in Tasks : Cancel(t)
    BY <2>4, KindFrame DEF Cancel, sinkVars, envVars
  <2>5. CASE Close \/ Ping
    BY <2>5 DEF NoTakeSender, Close, Ping
  <2>6. CASE Disconnect
    BY <2>6, KindFrame DEF Disconnect, sinkVars, taskVars
  <2>7. CASE PeerAck
    BY <2>7, PeerAckAlign
  <2>8. CASE \E a \in Ack : PeerBadAck(a)
    BY <2>8, PeerBadAckAlign
  <2>9. CASE UNCHANGED vars
    BY <2>9, KindFrame DEF vars, sinkVars, taskVars, envVars
  <2>. QED  BY <2>1, <2>2, <2>3, <2>4, <2>5, <2>6, <2>7, <2>8, <2>9 DEF Next
<1>. QED  BY <1>1, <1>2, <1>3 DEF AlignInv

LEMMA InitAlign == Init => AlignInv
BY InitInv DEF Init, AlignInv, InOrderAcksAccepted

(* On a connection where neither MqttSink::close nor MqttSink::ping is     *)
(* called, while the dispatcher runs, queue_order holds exactly the ids    *)
(* the peer owes acks for, in the order it got them, with the kind each    *)
(* entry expects: pkt_ack never takes an in-order ack for a protocol       *)
(* violation, however senders, waiters, cancellations and bad acks         *)
(* interleave.                                                             *)
THEOREM InOrderAcksAcceptedHolds ==
  ASSUME NoTakeSender
  PROVE  Spec => []InOrderAcksAccepted
<1>1. Init => AlignInv
  BY InitAlign
<1>2. AlignInv /\ [Next]_vars => AlignInv'
  BY NextAlign
<1>3. AlignInv => InOrderAcksAccepted
  BY DEF AlignInv
<1>. QED  BY <1>1, <1>2, <1>3, PTL DEF Spec

=============================================================================
