-------------------------- MODULE MqttSink_ack_proofs --------------------------
(* Proofs that the sink's ack bookkeeping is sound for every value of the  *)
(* constants: queue_order names distinct occupied slab entries of the      *)
(* tasks that were given those ids (OrderTracksSlab), and a sender's       *)
(* one-shot receives an Ack with its own id and kind (AckCorrelation).     *)
EXTENDS MqttSink_proofs

USE SinkAssumptions

(* Every occupied slab entry holds the ack sender of the task that was     *)
(* given the id key + 1.                                                   *)
SlabOwned == \A k \in Keys : queue[k] # NoTask => pid[queue[k]] = k + 1

(* A task that has not yet taken a slab entry has no id and has received   *)
(* nothing.                                                                 *)
Unsent ==
  \A t \in Tasks :
     pc[t] \in {"Idle", "Parked", "Woken"} => pid[t] = 0 /\ delivered[t] = NoAck

(* The slab's free list: distinct keys below entries.len(), each vacant,   *)
(* and every key at or past entries.len() is vacant, so the key            *)
(* Slab::insert hands out is always free.                                  *)
FreeList ==
  /\ \A i, j \in 1..Len(vacant) : vacant[i] = vacant[j] => i = j
  /\ \A i \in 1..Len(vacant) :
        /\ vacant[i] < slabEnd
        /\ vacant[i] \in Keys => queue[vacant[i]] = NoTask
  /\ \A k \in Keys : k >= slabEnd => queue[k] = NoTask

(* The inductive invariant.                                                *)
IInv ==
  /\ TypeOK
  /\ OrderTracksSlab
  /\ AckCorrelation
  /\ SlabOwned
  /\ Unsent
  /\ FreeList

(* The conjuncts of IInv that a step must re-establish given TypeOK'.     *)
Bookkeeping == OrderTracksSlab /\ AckCorrelation /\ SlabOwned /\ Unsent /\ FreeList

Unsent_ == {"Idle", "Parked", "Woken"}

-----------------------------------------------------------------------------
(* Steps that leave the slab, the free list, queue_order and the ids       *)
(* alone and change the state of one task: a send refused, parked or       *)
(* panicking before it takes an entry, send_at_most_once, a cancellation.  *)
LEMMA OneTaskStep ==
  ASSUME IInv, NEW t \in Tasks,
         UNCHANGED <<queue, vacant, slabEnd, queue_order, pid, delivered>>,
         \A u \in Tasks \ {t} : pc'[u] = pc[u] /\ kind'[u] = kind[u],
         pc'[t] \in Unsent_ => pc[t] \in Unsent_,
         kind'[t] # kind[t] => delivered[t] = NoAck
  PROVE  Bookkeeping'
<1>1. OrderTracksSlab' /\ SlabOwned' /\ FreeList'
  BY DEF IInv, OrderTracksSlab, SlabOwned, FreeList
<1>2. AckCorrelation'
  BY DEF IInv, AckCorrelation, NoAck
<1>3. Unsent'
  BY DEF IInv, Unsent, Unsent_
<1>. QED  BY <1>1, <1>2, <1>3 DEF Bookkeeping

(* Steps that change neither the slab nor any task: close, ping and the   *)
(* connection ending.                                                      *)
LEMMA NoTaskStep ==
  ASSUME IInv, UNCHANGED <<queue, vacant, slabEnd, queue_order, taskVars>>
  PROVE  Bookkeeping'
BY DEF IInv, Bookkeeping, OrderTracksSlab, AckCorrelation, SlabOwned, Unsent,
       FreeList, taskVars

(* pkt_ack panics on the borrow after popping at most the head of          *)
(* queue_order: a suffix of a faithful queue_order is faithful.            *)
LEMMA CloseWhileBorrowedInv ==
  ASSUME IInv, CloseWhileBorrowed
  PROVE  Bookkeeping'
<1>1. UNCHANGED <<queue, vacant, slabEnd, taskVars>>
  BY DEF CloseWhileBorrowed
<1>2. OrderTracksSlab'
  <2>1. CASE queue_order = <<>>
    BY <1>1, <2>1 DEF CloseWhileBorrowed, OrderTracksSlab, taskVars
  <2>2. CASE queue_order # <<>>
    <3>1. queue_order \in Seq(Ids)
      BY DEF IInv, TypeOK
    <3>2. /\ queue_order' = Tail(queue_order)
          /\ Len(queue_order') = Len(queue_order) - 1
          /\ \A i \in 1..Len(queue_order') : queue_order'[i] = queue_order[i + 1]
      BY <2>2, <3>1, HeadTailProperties DEF CloseWhileBorrowed
    <3>3. \A i \in 1..Len(queue_order') : i + 1 \in 1..Len(queue_order)
      BY <3>1, <3>2
    <3>. QED  BY <1>1, <3>2, <3>3 DEF IInv, OrderTracksSlab, taskVars
  <2>. QED  BY <2>1, <2>2
<1>. QED  BY <1>1, <1>2 DEF IInv, Bookkeeping, AckCorrelation, SlabOwned, Unsent,
                             FreeList, taskVars

LEMMA InitInv == Init => IInv
<1> SUFFICES ASSUME Init PROVE IInv
  OBVIOUS
<1>1. TypeOK
  BY InitType
<1>. QED  BY <1>1 DEF Init, IInv, OrderTracksSlab, AckCorrelation, SlabOwned,
                       Unsent, FreeList

-----------------------------------------------------------------------------
(* Slab::insert hands out a free key below the id limit whenever the id    *)
(* check passes.                                                           *)
LEMMA NextKeyFree ==
  ASSUME IInv
  PROVE  /\ NextKey \in Nat
         /\ NextKey < slabEnd \/ (vacant = <<>> /\ NextKey = slabEnd)
         /\ NextKey \in Keys => queue[NextKey] = NoTask
<1>1. CASE vacant = <<>>
  BY <1>1 DEF NextKey, IInv, TypeOK, FreeList, Keys
<1>2. CASE vacant # <<>>
  <2>1. Len(vacant) >= 1 /\ NextKey = vacant[1]
    BY <1>2, EmptySeq DEF NextKey, IInv, TypeOK
  <2>. QED  BY <1>2, <2>1 DEF IInv, TypeOK, FreeList
<1>. QED  BY <1>1, <1>2

(* The id check fails: the entry goes straight back to the free list.      *)
LEMMA AllocateRejectInv ==
  ASSUME IInv, NEW t \in Tasks, NEW k, Allocate(t, k), ~IdAvailable(NextKey + 1),
         pc[t] \in {"Idle", "Woken"},
         \A u \in Tasks \ {t} : kind'[u] = kind[u]
  PROVE  Bookkeeping'
<1>1. /\ slabEnd' = IF vacant = <<>> THEN slabEnd + 1 ELSE slabEnd
      /\ vacant' = IF vacant = <<>> THEN <<NextKey>> ELSE vacant
      /\ Finish(t, "PacketIdNotAvailable")
      /\ UNCHANGED <<queue, queue_order, pid, delivered>>
  BY DEF Allocate
<1>2. pc'[t] = "Done" /\ \A u \in Tasks \ {t} : pc'[u] = pc[u]
  BY <1>1 DEF Finish, IInv, TypeOK
<1>3. delivered[t] = NoAck
  BY DEF IInv, Unsent
<1>4. OrderTracksSlab' /\ SlabOwned' /\ AckCorrelation' /\ Unsent'
  BY <1>1, <1>2, <1>3 DEF IInv, OrderTracksSlab, SlabOwned, AckCorrelation,
                          Unsent
<1>5. FreeList'
  <2>1. CASE vacant = <<>>
    <3>1. NextKey = slabEnd /\ slabEnd \in Nat
      BY <2>1 DEF NextKey, IInv, TypeOK
    <3>2. /\ vacant' = <<slabEnd>> /\ slabEnd' = slabEnd + 1
      BY <1>1, <2>1, <3>1
    <3>. QED  BY <1>1, <3>1, <3>2 DEF IInv, FreeList, Keys
  <2>2. CASE vacant # <<>>
    BY <1>1, <2>2 DEF IInv, FreeList
  <2>. QED  BY <2>1, <2>2
<1>. QED  BY <1>4, <1>5 DEF Bookkeeping

(* The id check passes: the task takes the free key NextKey, its id is     *)
(* appended to queue_order, and the task leaves the unsent states.         *)
LEMMA AllocateAcceptInv ==
  ASSUME IInv, NEW t \in Tasks, NEW k, Allocate(t, k), IdAvailable(NextKey + 1),
         pc[t] \in {"Idle", "Woken"},
         \A u \in Tasks \ {t} : kind'[u] = kind[u]
  PROVE  Bookkeeping'
<1> DEFINE nk == NextKey
           id == nk + 1
<1>1. /\ SlabInsert(t)
      /\ RecordOrder(id)
      /\ pid' = [pid EXCEPT ![t] = id]
      /\ UNCHANGED delivered
      /\ \/ pc' = [pc EXCEPT ![t] = "Panicked"]
         \/ pc' = [pc EXCEPT ![t] = "AwaitAck"]
         \/ Finish(t, "Disconnected")
  BY DEF Allocate
<1>2. /\ nk \in Keys /\ id \in Ids /\ queue[nk] = NoTask
      /\ (nk < slabEnd \/ (vacant = <<>> /\ nk = slabEnd))
  <2>1. /\ nk \in Nat
        /\ nk < slabEnd \/ (vacant = <<>> /\ nk = slabEnd)
        /\ nk \in Keys => queue[nk] = NoTask
    BY NextKeyFree
  <2>2. nk \in Keys /\ id \in Ids
    BY <2>1 DEF IdAvailable, Keys, Ids
  <2>. QED  BY <2>1, <2>2
<1>3. pid[t] = 0 /\ delivered[t] = NoAck
  BY DEF IInv, Unsent
<1>4. \A kk \in Keys : queue[kk] # NoTask => queue[kk] # t
  BY <1>3 DEF IInv, SlabOwned, Keys
<1>5. /\ queue' = [queue EXCEPT ![nk] = t]
      /\ queue_order' = Append(queue_order, id)
  BY <1>1 DEF SlabInsert, RecordOrder
<1>6. pc'[t] \notin Unsent_ /\ \A u \in Tasks \ {t} : pc'[u] = pc[u]
  BY <1>1 DEF Finish, IInv, TypeOK, Unsent_
<1>7. SlabOwned'
  BY <1>1, <1>2, <1>4, <1>5 DEF IInv, TypeOK, SlabOwned
<1>8. OrderTracksSlab'
  <2>1. queue_order \in Seq(Ids)
    BY DEF IInv, TypeOK
  <2>2. /\ Len(queue_order') = Len(queue_order) + 1
        /\ \A i \in 1..Len(queue_order) : queue_order'[i] = queue_order[i]
        /\ queue_order'[Len(queue_order) + 1] = id
    BY <1>2, <1>5, <2>1, AppendProperties
  <2>3. \A i \in 1..Len(queue_order) :
           /\ queue_order[i] - 1 \in Keys
           /\ queue[queue_order[i] - 1] # NoTask
           /\ queue_order[i] # id
    BY <1>2, <2>1 DEF IInv, OrderTracksSlab, Ids, Keys
  <2>4. ASSUME NEW i \in 1..Len(queue_order')
        PROVE  /\ queue'[queue_order'[i] - 1] # NoTask
               /\ pid'[queue'[queue_order'[i] - 1]] = queue_order'[i]
    <3>1. CASE i \in 1..Len(queue_order)
      <4> DEFINE kk == queue_order[i] - 1
      <4>1. queue_order'[i] - 1 = kk /\ kk \in Keys /\ kk # nk
        BY <1>2, <2>2, <2>3, <3>1
      <4>2. queue'[kk] = queue[kk] /\ queue[kk] # NoTask /\ queue[kk] # t
        BY <1>4, <1>5, <2>3, <3>1, <4>1 DEF IInv, TypeOK
      <4>3. pid[queue[kk]] = queue_order[i]
        BY <3>1 DEF IInv, OrderTracksSlab
      <4>. QED  BY <1>1, <2>2, <3>1, <4>1, <4>2, <4>3 DEF IInv, TypeOK
    <3>2. CASE i = Len(queue_order) + 1
      <4>1. queue'[nk] = t
        BY <1>2, <1>5 DEF IInv, TypeOK
      <4>2. pid'[t] = id /\ queue_order'[i] = id
        BY <1>1, <2>2, <3>2 DEF IInv, TypeOK
      <4>3. queue_order'[i] - 1 = nk
        BY <1>2, <4>2 DEF Keys
      <4>. QED  BY <4>1, <4>2, <4>3, SinkAssumptions
    <3>. QED  BY <2>1, <2>2, <3>1, <3>2
  <2>5. ASSUME NEW i \in 1..Len(queue_order'), NEW j \in 1..Len(queue_order'),
               queue_order'[i] = queue_order'[j]
        PROVE  i = j
    <3>1. CASE i \in 1..Len(queue_order) /\ j \in 1..Len(queue_order)
      BY <2>2, <2>5, <3>1 DEF IInv, OrderTracksSlab
    <3>2. CASE i \in 1..Len(queue_order) /\ j = Len(queue_order) + 1
      BY <2>2, <2>3, <2>5, <3>2
    <3>3. CASE i = Len(queue_order) + 1 /\ j \in 1..Len(queue_order)
      BY <2>2, <2>3, <2>5, <3>3
    <3>. QED  BY <2>1, <2>2, <3>1, <3>2, <3>3
  <2>. QED  BY <2>4, <2>5 DEF OrderTracksSlab
<1>9. AckCorrelation'
  BY <1>1, <1>3 DEF IInv, TypeOK, AckCorrelation
<1>10. Unsent'
  BY <1>1, <1>6 DEF IInv, TypeOK, Unsent, Unsent_
<1>11. FreeList'
  <2>1. CASE vacant = <<>>
    <3>1. vacant' = <<>> /\ slabEnd' = slabEnd + 1 /\ nk = slabEnd
      BY <1>1, <2>1 DEF SlabInsert, NextKey
    <3>. QED  BY <1>5, <2>1, <3>1 DEF IInv, TypeOK, FreeList, Keys
  <2>2. CASE vacant # <<>>
    <3>1. vacant \in Seq(Nat)
      BY DEF IInv, TypeOK
    <3>2. /\ vacant' = Tail(vacant) /\ slabEnd' = slabEnd /\ nk = vacant[1]
          /\ Len(vacant') = Len(vacant) - 1
          /\ \A i \in 1..Len(vacant') : vacant'[i] = vacant[i + 1]
      BY <1>1, <2>2, <3>1, HeadTailProperties, EmptySeq DEF SlabInsert, NextKey
    <3>3. \A i \in 1..Len(vacant') : vacant'[i] # nk /\ i + 1 \in 1..Len(vacant)
      BY <3>1, <3>2 DEF IInv, FreeList
    <3>4. nk < slabEnd
      BY <1>2, <2>2
    <3>. QED  BY <1>5, <3>2, <3>3, <3>4 DEF IInv, TypeOK, FreeList, Keys
  <2>. QED  BY <2>1, <2>2
<1>. QED  BY <1>7, <1>8, <1>9, <1>10, <1>11 DEF Bookkeeping

-----------------------------------------------------------------------------
(* pkt_ack with the head of queue_order: the owner of the entry was given  *)
(* that id, so it has left the unsent states; the key freed is occupied,  *)
(* hence below entries.len() and not yet on the free list.                *)
LEMMA AckInOrderInv ==
  ASSUME IInv, NEW a \in Ack, queue_order # <<>>, Head(queue_order) = a.id,
         AckInOrder(a)
  PROVE  Bookkeeping'
<1> DEFINE key   == a.id - 1
           owner == queue[key]
<1>1. /\ queue' = [queue EXCEPT ![key] = NoTask]
      /\ vacant' = <<key>> \o vacant
      /\ queue_order' = Tail(queue_order)
      /\ UNCHANGED <<slabEnd, kind, pid>>
  BY DEF AckInOrder
<1>2. queue_order \in Seq(Ids) /\ Len(queue_order) >= 1
      /\ queue_order[1] = a.id
  BY EmptySeq DEF IInv, TypeOK
<1>3. /\ key \in Keys /\ owner # NoTask /\ owner \in Tasks
      /\ pid[owner] = a.id /\ a.id # 0
  <2>1. key \in Keys /\ a.id # 0
    BY DEF Ack, Ids, Keys
  <2>2. owner # NoTask /\ pid[owner] = a.id
    <3>1. 1 \in 1..Len(queue_order)
      BY <1>2
    <3>. QED  BY <1>2, <3>1 DEF IInv, OrderTracksSlab
  <2>3. owner \in Tasks
    BY <2>1, <2>2 DEF IInv, TypeOK
  <2>. QED  BY <2>1, <2>2, <2>3
<1>4. pc[owner] \notin Unsent_
  BY <1>3 DEF IInv, Unsent, Unsent_
<1>5. key < slabEnd
  BY <1>3 DEF IInv, TypeOK, FreeList, Keys
<1>6. OrderTracksSlab'
  <2>1. /\ Len(queue_order') = Len(queue_order) - 1
        /\ \A i \in 1..Len(queue_order') : queue_order'[i] = queue_order[i + 1]
    BY <1>1, <1>2, HeadTailProperties
  <2>2. \A i \in 1..Len(queue_order') :
           /\ i + 1 \in 1..Len(queue_order)
           /\ queue_order[i + 1] # a.id
           /\ queue_order[i + 1] - 1 \in Keys
    BY <1>2, <2>1 DEF IInv, OrderTracksSlab, Ids, Keys
  <2>. QED  BY <1>1, <2>1, <2>2 DEF IInv, TypeOK, OrderTracksSlab
<1>7. SlabOwned'
  BY <1>1, <1>3 DEF IInv, TypeOK, SlabOwned
<1>8. FreeList'
  <2>1. vacant \in Seq(Nat) /\ <<key>> \in Seq(Nat)
    BY <1>3 DEF IInv, TypeOK, Keys
  <2>2. /\ Len(vacant') = Len(vacant) + 1
        /\ vacant'[1] = key
        /\ \A i \in 2..Len(vacant') : vacant'[i] = vacant[i - 1]
    BY <1>1, <2>1, ConcatProperties
  <2>3. \A i \in 1..Len(vacant) : vacant[i] # key
    BY <1>3 DEF IInv, FreeList
  <2>4. \A i, j \in 1..Len(vacant') : vacant'[i] = vacant'[j] => i = j
    BY <2>1, <2>2, <2>3 DEF IInv, FreeList
  <2>5. \A i \in 1..Len(vacant') :
           /\ vacant'[i] < slabEnd'
           /\ vacant'[i] \in Keys => queue'[vacant'[i]] = NoTask
    BY <1>1, <1>5, <2>1, <2>2 DEF IInv, TypeOK, FreeList
  <2>6. \A kk \in Keys : kk >= slabEnd' => queue'[kk] = NoTask
    BY <1>1 DEF IInv, TypeOK, FreeList
  <2>. QED  BY <2>4, <2>5, <2>6 DEF FreeList
<1>9. CASE IsMatch(owner, a)
  <2>1. /\ pc' = [u \in Tasks |->
                    IF u = owner /\ pc[u] = "AwaitAck" THEN "Done"
                    ELSE IF u \in Woken THEN "Woken" ELSE pc[u]]
        /\ delivered' = IF pc[owner] = "AwaitAck"
                        THEN [delivered EXCEPT ![owner] = a] ELSE delivered
    BY <1>9 DEF AckInOrder, IsMatch
  <2>2. \A w \in Woken : pc[w] = "Parked"
    BY WakeIdxType DEF IInv
  <2>3. /\ pc'[owner] \notin Unsent_
        /\ \A u \in Tasks \ {owner} : pc'[u] \in Unsent_ => pc[u] \in Unsent_
    BY <1>3, <1>4, <2>1, <2>2 DEF Unsent_
  <2>4. \A u \in Tasks \ {owner} : delivered'[u] = delivered[u]
    BY <2>1 DEF IInv, TypeOK
  <2>5. Unsent'
    BY <1>1, <2>3, <2>4 DEF IInv, Unsent, Unsent_
  <2>6. a = [id |-> pid[owner], kind |-> kind[owner]]
    BY <1>3, <1>9 DEF Ack, IsMatch
  <2>7. AckCorrelation'
    BY <1>1, <1>3, <2>1, <2>4, <2>6 DEF IInv, TypeOK, AckCorrelation
  <2>. QED  BY <1>6, <1>7, <1>8, <2>5, <2>7 DEF Bookkeeping
<1>10. CASE ~IsMatch(owner, a)
  <2>1. /\ IF pc[owner] = "AwaitAck" THEN Finish(owner, "Disconnected")
                                     ELSE UNCHANGED <<pc, res>>
        /\ UNCHANGED delivered
    BY <1>10 DEF AckInOrder, IsMatch
  <2>2. \A u \in Tasks : pc'[u] \in Unsent_ => pc[u] \in Unsent_
    BY <1>3, <2>1 DEF Finish, IInv, TypeOK, Unsent_
  <2>3. Unsent' /\ AckCorrelation'
    BY <1>1, <2>1, <2>2 DEF IInv, Unsent, Unsent_, AckCorrelation
  <2>. QED  BY <1>6, <1>7, <1>8, <2>3 DEF Bookkeeping
<1>. QED  BY <1>9, <1>10

-----------------------------------------------------------------------------
(* One lemma per operation.                                                *)

LEMMA SendWithAckInv ==
  ASSUME IInv, NEW t \in Tasks, NEW k \in AckKinds, SendWithAck(t, k)
  PROVE  Bookkeeping'
<1>1. /\ pc[t] = "Idle"
      /\ \A u \in Tasks \ {t} : kind'[u] = kind[u]
      /\ delivered[t] = NoAck
  BY DEF SendWithAck, IInv, TypeOK, Unsent
<1>2. ASSUME Finish(t, "Disconnected"),
             UNCHANGED <<queue, vacant, slabEnd, queue_order, pid, delivered>>
      PROVE  Bookkeeping'
  BY <1>1, <1>2, OneTaskStep DEF Finish, IInv, TypeOK, Unsent_
<1>3. ASSUME pc' = [pc EXCEPT ![t] = "Parked"] \/ pc' = [pc EXCEPT ![t] = "Panicked"],
             UNCHANGED <<queue, vacant, slabEnd, queue_order, pid, delivered>>
      PROVE  Bookkeeping'
  BY <1>1, <1>3, OneTaskStep DEF IInv, TypeOK, Unsent_
<1>4. ASSUME Allocate(t, k) PROVE Bookkeeping'
  BY <1>1, <1>4, AllocateRejectInv, AllocateAcceptInv
<1>. QED  BY <1>2, <1>3, <1>4 DEF SendWithAck

LEMMA ResumeInv ==
  ASSUME IInv, NEW t \in Tasks, Resume(t)
  PROVE  Bookkeeping'
BY AllocateRejectInv, AllocateAcceptInv DEF Resume

LEMMA SendAtMostOnceInv ==
  ASSUME IInv, NEW t \in Tasks, SendAtMostOnce(t)
  PROVE  Bookkeeping'
<1>1. pc[t] = "Idle" /\ delivered[t] = NoAck
  BY DEF SendAtMostOnce, IInv, Unsent
<1>2. /\ pc'[t] = "Done"
      /\ \A u \in Tasks \ {t} : pc'[u] = pc[u] /\ kind'[u] = kind[u]
  BY DEF SendAtMostOnce, Finish, IInv, TypeOK
<1>. QED  BY <1>1, <1>2, OneTaskStep DEF SendAtMostOnce, sinkVars, Unsent_

LEMMA CancelInv ==
  ASSUME IInv, NEW t \in Tasks, Cancel(t)
  PROVE  Bookkeeping'
<1>1. /\ pc'[t] = "Dropped"
      /\ \A u \in Tasks \ {t} : pc'[u] = pc[u] /\ kind'[u] = kind[u]
  BY DEF Cancel, IInv, TypeOK
<1>. QED  BY <1>1, OneTaskStep DEF Cancel, sinkVars, Unsent_

LEMMA PktAckInv ==
  ASSUME IInv, NEW a \in Ack, PktAck(a)
  PROVE  Bookkeeping'
BY CloseWhileBorrowedInv, AckInOrderInv DEF PktAck

LEMMA NextInv == IInv /\ [Next]_vars => IInv'
<1> SUFFICES ASSUME IInv, [Next]_vars PROVE IInv'
  OBVIOUS
<1>1. TypeOK'
  BY NextType DEF IInv
<1>2. Bookkeeping'
  <2>1. CASE \E t \in Tasks : SendPublish(t) \/ SendSubscribe(t) \/ SendUnsubscribe(t)
    BY <2>1, SendWithAckInv DEF SendPublish, SendSubscribe, SendUnsubscribe, AckKinds
  <2>2. CASE \E t \in Tasks : SendAtMostOnce(t) \/ Resume(t) \/ Cancel(t)
    BY <2>2, SendAtMostOnceInv, ResumeInv, CancelInv
  <2>3. CASE Close \/ Ping \/ Disconnect
    BY <2>3, NoTaskStep DEF Close, Ping, TakeSender, Disconnect, sinkVars
  <2>4. CASE PeerAck
    <3>1. Head(inbox) \in Ack
      BY <2>4, HeadTailProperties DEF PeerAck, IInv, TypeOK
    <3>. QED  BY <2>4, <3>1, PktAckInv DEF PeerAck
  <2>5. CASE \E a \in Ack : PeerBadAck(a)
    BY <2>5, PktAckInv DEF PeerBadAck
  <2>6. CASE UNCHANGED vars
    BY <2>6, NoTaskStep DEF vars, sinkVars
  <2>. QED  BY <2>1, <2>2, <2>3, <2>4, <2>5, <2>6 DEF Next
<1>. QED  BY <1>1, <1>2 DEF IInv, Bookkeeping

(* The sink's bookkeeping invariant holds in every reachable state.       *)
THEOREM AckInvariant == Spec => []IInv
BY InitInv, NextInv, PTL DEF Spec

(* However senders, cancellations, closes and good or bad acks            *)
(* interleave, queue_order names distinct occupied slab entries of the     *)
(* tasks that were given those ids: pkt_ack's unreachable!() on a missing  *)
(* entry is unreachable.                                                   *)
THEOREM OrderTracksSlabHolds == Spec => []OrderTracksSlab
<1>1. IInv => OrderTracksSlab
  BY DEF IInv
<1>. QED  BY AckInvariant, <1>1, PTL

(* The Ack that pkt_ack sends on a sender's one-shot carries the sender's *)
(* own packet id and AckType, so SubscribeBuilder::send and               *)
(* UnsubscribeBuilder::send never receive another packet's ack.            *)
THEOREM AckCorrelationHolds == Spec => []AckCorrelation
<1>1. IInv => AckCorrelation
  BY DEF IInv
<1>. QED  BY AckInvariant, <1>1, PTL

(* An admitted send appends its packet id to queue_order, and the id is    *)
(* not already there: the slab entry it is the key of was free, and every   *)
(* id of queue_order names an occupied entry.                               *)
LEMMA AllocateOrder ==
  ASSUME IInv, NEW t \in Tasks, NEW k, Allocate(t, k)
  PROVE  OrderStep
<1> DEFINE nk == NextKey
           id == nk + 1
<1>1. CASE ~IdAvailable(id)
  BY <1>1 DEF Allocate, OrderStep
<1>2. CASE IdAvailable(id)
  <2>1. /\ nk \in Nat
        /\ nk \in Keys => queue[nk] = NoTask
    BY NextKeyFree
  <2>2. nk \in Keys /\ id \in Ids /\ queue[nk] = NoTask
    BY <1>2, <2>1 DEF IdAvailable, Keys, Ids
  <2>3. \A i \in 1..Len(queue_order) : queue_order[i] # id
    <3> SUFFICES ASSUME NEW i \in 1..Len(queue_order), queue_order[i] = id
                 PROVE  FALSE
      OBVIOUS
    <3>1. queue[queue_order[i] - 1] # NoTask
      BY DEF IInv, OrderTracksSlab
    <3>2. queue_order[i] - 1 = nk
      BY <2>1
    <3>. QED  BY <2>2, <3>1, <3>2
  <2>4. queue_order' = Append(queue_order, id)
    BY <1>2 DEF Allocate, RecordOrder
  <2>. QED  BY <2>2, <2>3, <2>4 DEF OrderStep
<1>. QED  BY <1>1, <1>2

(* pkt_ack pops the head of queue_order, whether it matched (AckInOrder)   *)
(* or not (the unwinding pop_front of CloseWhileBorrowed).                  *)
LEMMA PktAckOrder ==
  ASSUME NEW a \in Ack, PktAck(a)
  PROVE  OrderStep
BY DEF PktAck, CloseWhileBorrowed, AckInOrder, OrderStep

(* Every step of the sink and of its dispatcher is a FIFO step of          *)
(* queue_order.                                                             *)
LEMMA NextOrder == IInv /\ [Next]_vars => [OrderStep]_queue_order
<1> SUFFICES ASSUME IInv, [Next]_vars PROVE OrderStep
  BY DEF OrderStep
<1>1. ASSUME NEW t \in Tasks, NEW k, SendWithAck(t, k) PROVE OrderStep
  BY <1>1, AllocateOrder DEF SendWithAck, OrderStep
<1>2. CASE \E t \in Tasks : SendPublish(t) \/ SendSubscribe(t) \/ SendUnsubscribe(t)
  BY <1>2, <1>1 DEF SendPublish, SendSubscribe, SendUnsubscribe
<1>3. CASE \E t \in Tasks : Resume(t)
  BY <1>3, AllocateOrder DEF Resume
<1>4. CASE \E t \in Tasks : SendAtMostOnce(t) \/ Cancel(t)
  BY <1>4 DEF SendAtMostOnce, Cancel, sinkVars, OrderStep
<1>5. CASE Close \/ Ping \/ Disconnect
  BY <1>5 DEF Close, Ping, TakeSender, Disconnect, sinkVars, OrderStep
<1>6. CASE PeerAck
  <2>1. Head(inbox) \in Ack
    BY <1>6, HeadTailProperties DEF PeerAck, IInv, TypeOK
  <2>. QED  BY <1>6, <2>1, PktAckOrder DEF PeerAck
<1>7. CASE \E a \in Ack : PeerBadAck(a)
  BY <1>7, PktAckOrder DEF PeerBadAck
<1>8. CASE UNCHANGED vars
  BY <1>8 DEF vars, sinkVars, OrderStep
<1>. QED  BY <1>2, <1>3, <1>4, <1>5, <1>6, <1>7, <1>8 DEF Next

(* Whatever the interleaving of senders, cancellations, closes and acks,   *)
(* queue_order only ever grows at the back by an id not already awaiting   *)
(* an ack and shrinks at the front: send_at_least_once and the builders'   *)
(* send push_back, pkt_ack pops the front.                                 *)
THEOREM OrderFifoHolds == Spec => OrderFifo
<1>1. []IInv /\ [][Next]_vars => [][OrderStep]_queue_order
  BY NextOrder, PTL
<1>. QED  BY AckInvariant, <1>1, PTL DEF Spec, OrderFifo

=============================================================================
