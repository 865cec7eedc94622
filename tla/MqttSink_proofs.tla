---------------------------- MODULE MqttSink_proofs ----------------------------
(* Proofs about the MQTT v3 sink model, for every value of the constants.  *)
EXTENDS MqttSink, WellFoundedInduction, FiniteSetTheorems, SequenceTheorems,
        TLAPS

USE SinkAssumptions

(* A nonempty set of naturals has a least element (from the well-foundedness *)
(* of < on Nat); it makes the waiter pop_front() loop's stopping index      *)
(* well defined.                                                            *)
NatLess == {ss \in Nat \X Nat : ss[1] < ss[2]}

LEMMA LeastNat ==
  ASSUME NEW T \in SUBSET Nat, T # {}
  PROVE  \E x \in T : \A y \in T : x <= y
<1>1. IsWellFoundedOn(NatLess, Nat)
  BY NatLessThanWellFounded, Zenon DEF OpToRel, NatLess
<1>2. PICK x \in T : \A y \in T : ~(<<y, x>> \in NatLess)
  BY <1>1, WFMin
<1>3. ASSUME NEW y \in T PROVE x <= y
  <2>1. ~(<<y, x>> \in NatLess)
    BY <1>2
  <2>. QED  BY <2>1 DEF NatLess
<1>. QED  BY <1>3

(* The pkt_ack wake-up pops a prefix of the waiter queue and wakes at most *)
(* one task of it.                                                          *)
LEMMA WakeIdxType ==
  ASSUME TypeOK
  PROVE  /\ WakeIdx \in 0..Len(waiters)
         /\ Woken \subseteq Tasks
         /\ \A w \in Woken : pc[w] = "Parked"
<1>1. CASE LiveWaiters = {}
  BY <1>1 DEF WakeIdx, Woken, TypeOK
<1>2. CASE LiveWaiters # {}
  <2>1. LiveWaiters \subseteq 1..Len(waiters)
    BY DEF LiveWaiters
  <2>2. \E i \in LiveWaiters : \A j \in LiveWaiters : i <= j
    BY <1>2, <2>1, LeastNat
  <2>3. WakeIdx \in LiveWaiters
    BY <1>2, <2>2 DEF WakeIdx
  <2>. QED  BY <1>2, <2>1, <2>3 DEF Woken, TypeOK, LiveWaiters
<1>. QED  BY <1>1, <1>2

-----------------------------------------------------------------------------
(* Type correctness, one lemma per operation.                              *)

(* The allocation path shared by a fresh send and a woken one.            *)
(* The one TypeOK conjunct that relates two variables survives a step that *)
(* changes only task t and leaves t neither parked nor woken.              *)
LEMMA KindOfWaiting ==
  ASSUME TypeOK, NEW t \in Tasks,
         \A u \in Tasks \ {t} : pc'[u] = pc[u] /\ kind'[u] = kind[u],
         pc'[t] \notin {"Parked", "Woken"}
  PROVE  \A u \in Tasks : pc'[u] \in {"Parked", "Woken"} => kind'[u] \in AckKinds
BY DEF TypeOK

(* TypeOK' from its conjuncts, so that each action lemma proves only the    *)
(* parts its step changes.                                                  *)
LEMMA TypeOKFromParts ==
  ASSUME sink' \in BOOLEAN,
         queue' \in [Keys -> Tasks \cup {NoTask}],
         vacant' \in Seq(Nat), slabEnd' \in Nat,
         queue_order' \in Seq(Ids), waiters' \in Seq(Tasks),
         pc' \in [Tasks -> PcStates], kind' \in [Tasks -> SendKinds],
         \A u \in Tasks : pc'[u] \in {"Parked", "Woken"} => kind'[u] \in AckKinds,
         pid' \in [Tasks -> 0..MaxPacketId], res' \in [Tasks -> Results],
         delivered' \in [Tasks -> Ack \cup {NoAck}],
         dispatcher' \in {"Running", "Stopped", "Panicked"},
         inbox' \in Seq(Ack)
  PROVE  TypeOK'
BY Zenon DEF TypeOK

(* Moving one task's future to a new suspension point.                     *)
LEMMA MoveType ==
  ASSUME TypeOK, NEW t \in Tasks, NEW st \in PcStates,
         pc' = [pc EXCEPT ![t] = st]
  PROVE  /\ pc' \in [Tasks -> PcStates] /\ pc'[t] = st
         /\ \A u \in Tasks \ {t} : pc'[u] = pc[u]
BY DEF TypeOK

(* Finishing one task's future with a result.                             *)
LEMMA FinishType ==
  ASSUME TypeOK, NEW t \in Tasks, NEW r \in Results, Finish(t, r)
  PROVE  /\ pc' \in [Tasks -> PcStates] /\ pc'[t] = "Done"
         /\ res' \in [Tasks -> Results]
         /\ \A u \in Tasks \ {t} : pc'[u] = pc[u]
BY DEF TypeOK, Finish, PcStates

LEMMA AllocateType ==
  ASSUME TypeOK, NEW t \in Tasks, NEW k \in AckKinds, Allocate(t, k),
         sink' = sink, waiters' = waiters, dispatcher' = dispatcher,
         kind' \in [Tasks -> SendKinds],
         \A u \in Tasks \ {t} : kind'[u] = kind[u]
  PROVE  TypeOK'
<1> DEFINE id == NextKey + 1
<1>1. NextKey \in Nat
  BY DEF TypeOK, NextKey
<1>2. CASE ~IdAvailable(id)
  <2>1. /\ slabEnd' = IF vacant = <<>> THEN slabEnd + 1 ELSE slabEnd
        /\ vacant' = IF vacant = <<>> THEN <<NextKey>> ELSE vacant
        /\ Finish(t, "PacketIdNotAvailable")
        /\ UNCHANGED <<queue, queue_order, pid, delivered, inbox>>
    BY <1>2 DEF Allocate
  <2>2. vacant' \in Seq(Nat) /\ slabEnd' \in Nat
    BY <1>1, <2>1 DEF TypeOK
  <2>3. /\ pc' \in [Tasks -> PcStates] /\ pc'[t] = "Done"
        /\ res' \in [Tasks -> Results]
        /\ \A u \in Tasks \ {t} : pc'[u] = pc[u]
    BY <2>1 DEF Finish, TypeOK, PcStates, Results
  <2>4. \A u \in Tasks : pc'[u] \in {"Parked", "Woken"} => kind'[u] \in AckKinds
    BY <2>3, KindOfWaiting
  <2>5. /\ sink' \in BOOLEAN /\ queue' \in [Keys -> Tasks \cup {NoTask}]
        /\ queue_order' \in Seq(Ids) /\ waiters' \in Seq(Tasks)
        /\ pid' \in [Tasks -> 0..MaxPacketId]
        /\ delivered' \in [Tasks -> Ack \cup {NoAck}]
        /\ dispatcher' \in {"Running", "Stopped", "Panicked"}
        /\ inbox' \in Seq(Ack)
    BY <2>1 DEF TypeOK
  <2>. QED  BY <2>2, <2>3, <2>4, <2>5, TypeOKFromParts, Zenon
<1>3. CASE IdAvailable(id)
  <2>1. id \in Ids
    BY <1>1, <1>3 DEF IdAvailable, Ids
  <2>2. /\ SlabInsert(t)
        /\ RecordOrder(id)
        /\ pid' = [pid EXCEPT ![t] = id]
        /\ UNCHANGED delivered
        /\ \/ /\ ~sink
              /\ pc' = [pc EXCEPT ![t] = "Panicked"]
              /\ UNCHANGED <<res, inbox>>
           \/ /\ sink /\ Running
              /\ inbox' = Append(inbox, [id |-> id, kind |-> k])
              /\ pc' = [pc EXCEPT ![t] = "AwaitAck"]
              /\ UNCHANGED res
           \/ /\ sink /\ ~Running
              /\ Finish(t, "Disconnected")
              /\ UNCHANGED inbox
    BY <1>3 DEF Allocate
  <2>3. /\ queue' \in [Keys -> Tasks \cup {NoTask}]
        /\ vacant' \in Seq(Nat)
        /\ slabEnd' \in Nat
    <3>1. queue' \in [Keys -> Tasks \cup {NoTask}]
      BY <2>2 DEF SlabInsert, TypeOK
    <3>2. vacant' \in Seq(Nat)
      <4>1. CASE vacant = <<>>
        BY <2>2, <4>1 DEF SlabInsert
      <4>2. CASE vacant # <<>>
        BY <2>2, <4>2 DEF SlabInsert, TypeOK
      <4>. QED  BY <4>1, <4>2
    <3>3. slabEnd' \in Nat
      BY <2>2 DEF SlabInsert, TypeOK
    <3>. QED  BY <3>1, <3>2, <3>3
  <2>4. queue_order' \in Seq(Ids) /\ pid' \in [Tasks -> 0..MaxPacketId]
    BY <2>1, <2>2 DEF RecordOrder, TypeOK, Ids
  <2>5. /\ pc' \in [Tasks -> PcStates]
        /\ pc'[t] \in {"Panicked", "AwaitAck", "Done"}
        /\ res' \in [Tasks -> Results]
        /\ inbox' \in Seq(Ack)
        /\ \A u \in Tasks \ {t} : pc'[u] = pc[u]
    <3>1. CASE ~sink
      BY <2>2, <3>1, MoveType DEF TypeOK, PcStates
    <3>2. CASE sink /\ Running
      <4>1. inbox' = Append(inbox, [id |-> id, kind |-> k])
            /\ pc' = [pc EXCEPT ![t] = "AwaitAck"] /\ res' = res
        BY <2>2, <3>2
      <4>2. [id |-> id, kind |-> k] \in Ack
        BY <2>1 DEF Ack
      <4>3. inbox' \in Seq(Ack) /\ res' \in [Tasks -> Results]
        BY <4>1, <4>2 DEF TypeOK
      <4>4. "AwaitAck" \in PcStates
        BY DEF PcStates
      <4>. QED  BY <4>1, <4>3, <4>4, MoveType
    <3>3. CASE sink /\ ~Running
      BY <2>2, <3>3, FinishType DEF TypeOK, Results
    <3>. QED  BY <3>1, <3>2, <3>3
  <2>6. \A u \in Tasks : pc'[u] \in {"Parked", "Woken"} => kind'[u] \in AckKinds
    BY <2>5, KindOfWaiting
  <2>7. /\ sink' \in BOOLEAN /\ waiters' \in Seq(Tasks)
        /\ delivered' \in [Tasks -> Ack \cup {NoAck}]
        /\ dispatcher' \in {"Running", "Stopped", "Panicked"}
    BY <2>2 DEF TypeOK
  <2>. QED  BY <2>3, <2>4, <2>5, <2>6, <2>7, TypeOKFromParts, Zenon
<1>. QED  BY <1>2, <1>3

(* Slab::len() is a natural number.                                        *)
LEMMA QueueLenType ==
  ASSUME TypeOK PROVE QueueLen \in Nat
<1>1. IsFiniteSet(Keys)
  BY FS_Interval DEF Keys
<1>2. IsFiniteSet(InFlight)
  BY <1>1, FS_Subset DEF InFlight
<1>. QED  BY <1>2, FS_CardinalityType DEF QueueLen

LEMMA SendWithAckType ==
  ASSUME TypeOK, NEW t \in Tasks, NEW k \in AckKinds, SendWithAck(t, k)
  PROVE  TypeOK'
<1>1. /\ kind' \in [Tasks -> SendKinds] /\ kind'[t] = k
      /\ \A u \in Tasks \ {t} : kind'[u] = kind[u]
  BY DEF SendWithAck, TypeOK, SendKinds
<1>2. sink' = sink /\ dispatcher' = dispatcher
  BY DEF SendWithAck
<1>3. QueueLen \in Nat
  BY QueueLenType
<1>8. QueueLen > Cap => QueueLen # Cap /\ ~(QueueLen < Cap)
  BY <1>3, SinkAssumptions
<1>4. CASE ~sink
  <2>1. Finish(t, "Disconnected")
        /\ UNCHANGED <<queue, vacant, slabEnd, queue_order, waiters, pid,
                       delivered, inbox>>
    BY <1>4 DEF SendWithAck
  <2>2. /\ pc' \in [Tasks -> PcStates] /\ pc'[t] = "Done"
        /\ res' \in [Tasks -> Results]
        /\ \A u \in Tasks \ {t} : pc'[u] = pc[u]
    BY <2>1, FinishType DEF Results
  <2>3. \A u \in Tasks : pc'[u] \in {"Parked", "Woken"} => kind'[u] \in AckKinds
    BY <1>1, <2>2, KindOfWaiting
  <2>. QED  BY <1>1, <1>2, <2>1, <2>2, <2>3, TypeOKFromParts DEF TypeOK
<1>5. CASE sink /\ QueueLen = Cap
  <2>1. /\ waiters' = Append(waiters, t)
        /\ pc' = [pc EXCEPT ![t] = "Parked"]
        /\ UNCHANGED <<queue, vacant, slabEnd, queue_order, pid, res,
                       delivered, inbox>>
    BY <1>5 DEF SendWithAck
  <2>2. /\ pc' \in [Tasks -> PcStates] /\ pc'[t] = "Parked"
        /\ \A u \in Tasks \ {t} : pc'[u] = pc[u]
    BY <2>1, MoveType DEF PcStates
  <2>3. \A u \in Tasks : pc'[u] \in {"Parked", "Woken"} => kind'[u] \in AckKinds
    <3> SUFFICES ASSUME NEW u \in Tasks, pc'[u] \in {"Parked", "Woken"}
                 PROVE  kind'[u] \in AckKinds
      OBVIOUS
    <3>1. CASE u = t
      BY <1>1, <3>1
    <3>2. CASE u # t
      BY <1>1, <2>2, <3>2 DEF TypeOK
    <3>. QED  BY <3>1, <3>2
  <2>. QED  BY <1>1, <1>2, <2>1, <2>2, <2>3, TypeOKFromParts DEF TypeOK
<1>6. CASE sink /\ QueueLen > Cap /\ OverflowChecks
  <2>1. /\ pc' = [pc EXCEPT ![t] = "Panicked"]
        /\ UNCHANGED <<queue, vacant, slabEnd, queue_order, waiters, pid, res,
                       delivered, inbox>>
    BY <1>6, <1>8, Zenon DEF SendWithAck
  <2>2. /\ pc' \in [Tasks -> PcStates] /\ pc'[t] = "Panicked"
        /\ \A u \in Tasks \ {t} : pc'[u] = pc[u]
    BY <2>1, MoveType DEF PcStates
  <2>3. \A u \in Tasks : pc'[u] \in {"Parked", "Woken"} => kind'[u] \in AckKinds
    BY <1>1, <2>2, KindOfWaiting
  <2>. QED  BY <1>1, <1>2, <2>1, <2>2, <2>3, TypeOKFromParts DEF TypeOK
<1>7. CASE sink /\ (QueueLen < Cap \/ (QueueLen > Cap /\ ~OverflowChecks))
  <2>0. QueueLen # Cap /\ ~(QueueLen > Cap /\ OverflowChecks)
    BY <1>3, <1>7, SinkAssumptions
  <2>1. Allocate(t, k) /\ waiters' = waiters
    BY <1>7, <2>0, Zenon DEF SendWithAck
  <2>. QED  BY <1>1, <1>2, <2>1, AllocateType
<1>. QED  BY <1>3, <1>4, <1>5, <1>6, <1>7, SinkAssumptions DEF TypeOK

LEMMA ResumeType ==
  ASSUME TypeOK, NEW t \in Tasks, Resume(t)
  PROVE  TypeOK'
<1>1. kind[t] \in AckKinds
  BY DEF Resume, TypeOK
<1>. QED  BY <1>1, AllocateType DEF Resume, TypeOK

LEMMA SendAtMostOnceType ==
  ASSUME TypeOK, NEW t \in Tasks, SendAtMostOnce(t)
  PROVE  TypeOK'
<1>1. /\ kind' \in [Tasks -> SendKinds]
      /\ \A u \in Tasks \ {t} : kind'[u] = kind[u]
  BY DEF SendAtMostOnce, TypeOK, SendKinds
<1>2. /\ pc' \in [Tasks -> PcStates] /\ pc'[t] = "Done"
      /\ res' \in [Tasks -> Results]
      /\ \A u \in Tasks \ {t} : pc'[u] = pc[u]
  <2>1. (IF sink /\ Running THEN "Ok" ELSE "Disconnected") \in Results
    BY DEF Results
  <2>. QED  BY <2>1, FinishType DEF SendAtMostOnce
<1>3. \A u \in Tasks : pc'[u] \in {"Parked", "Woken"} => kind'[u] \in AckKinds
  BY <1>1, <1>2, KindOfWaiting
<1>4. UNCHANGED <<sinkVars, pid, delivered, envVars>>
  BY DEF SendAtMostOnce
<1>. QED  BY <1>1, <1>2, <1>3, <1>4, TypeOKFromParts DEF TypeOK, sinkVars, envVars

LEMMA TakeSenderType ==
  ASSUME TypeOK, TakeSender PROVE TypeOK'
BY DEF TakeSender, TypeOK, taskVars, envVars

LEMMA DisconnectType ==
  ASSUME TypeOK, Disconnect PROVE TypeOK'
BY DEF Disconnect, TypeOK, sinkVars, taskVars

LEMMA CancelType ==
  ASSUME TypeOK, NEW t \in Tasks, Cancel(t)
  PROVE  TypeOK'
<1>1. /\ pc' \in [Tasks -> PcStates] /\ pc'[t] = "Dropped"
      /\ \A u \in Tasks \ {t} : pc'[u] = pc[u]
  BY MoveType DEF Cancel, PcStates
<1>2. UNCHANGED <<sinkVars, kind, pid, res, delivered, envVars>>
  BY DEF Cancel
<1>3. \A u \in Tasks : pc'[u] \in {"Parked", "Woken"} => kind'[u] \in AckKinds
  BY <1>1, <1>2, KindOfWaiting
<1>. QED  BY <1>1, <1>2, <1>3, TypeOKFromParts DEF TypeOK, sinkVars, envVars

(* The dispatcher dies inside pkt_ack after at most one pop_front().     *)
LEMMA CloseWhileBorrowedType ==
  ASSUME TypeOK, CloseWhileBorrowed, inbox' \in Seq(Ack)
  PROVE  TypeOK'
<1>1. queue_order' \in Seq(Ids)
  BY HeadTailProperties DEF CloseWhileBorrowed, TypeOK
<1>. QED  BY <1>1 DEF CloseWhileBorrowed, TypeOK, taskVars

(* An ack that matches the head of queue_order, of either AckType.        *)
LEMMA AckInOrderType ==
  ASSUME TypeOK, NEW a \in Ack, queue_order # <<>>, AckInOrder(a),
         inbox' \in Seq(Ack)
  PROVE  TypeOK'
<1> DEFINE key == a.id - 1
           owner == queue[key]
<1>1. key \in Keys /\ owner \in Tasks \cup {NoTask}
  BY DEF Ack, Ids, Keys, TypeOK
<1>2. /\ queue' = [queue EXCEPT ![key] = NoTask]
      /\ vacant' = <<key>> \o vacant
      /\ queue_order' = Tail(queue_order)
      /\ UNCHANGED <<sink, slabEnd, kind, pid>>
  BY DEF AckInOrder
<1>3. /\ queue' \in [Keys -> Tasks \cup {NoTask}]
      /\ vacant' \in Seq(Nat)
      /\ queue_order' \in Seq(Ids)
  BY <1>1, <1>2, HeadTailProperties DEF TypeOK, Keys
<1>4. CASE IsMatch(owner, a)
  <2>1. /\ waiters' = SubSeq(waiters, WakeIdx + 1, Len(waiters))
        /\ pc' = [u \in Tasks |->
                    IF u = owner /\ pc[u] = "AwaitAck" THEN "Done"
                    ELSE IF u \in Woken THEN "Woken" ELSE pc[u]]
        /\ res' = IF pc[owner] = "AwaitAck"
                  THEN [res EXCEPT ![owner] = "Ok"] ELSE res
        /\ delivered' = IF pc[owner] = "AwaitAck"
                        THEN [delivered EXCEPT ![owner] = a] ELSE delivered
        /\ UNCHANGED dispatcher
    BY <1>4 DEF AckInOrder, IsMatch
  <2>2. WakeIdx \in 0..Len(waiters) /\ Woken \subseteq Tasks
        /\ \A w \in Woken : pc[w] = "Parked"
    BY WakeIdxType
  <2>3. waiters' \in Seq(Tasks)
    <3>1. \A i \in (WakeIdx + 1)..Len(waiters) : waiters[i] \in Tasks
      BY <2>2 DEF TypeOK
    <3>. QED  BY <2>1, <2>2, <3>1, SubSeqProperties
  <2>4. pc' \in [Tasks -> PcStates]
    BY <2>1 DEF TypeOK, PcStates
  <2>5. \A u \in Tasks : pc'[u] \in {"Parked", "Woken"} => kind'[u] \in AckKinds
    <3> SUFFICES ASSUME NEW u \in Tasks, pc'[u] \in {"Parked", "Woken"}
                 PROVE  kind'[u] \in AckKinds
      OBVIOUS
    <3>1. pc[u] \in {"Parked", "Woken"}
      BY <2>1, <2>2
    <3>. QED  BY <1>2, <3>1 DEF TypeOK
  <2>6. res' \in [Tasks -> Results] /\ delivered' \in [Tasks -> Ack \cup {NoAck}]
    BY <2>1 DEF TypeOK, Results
  <2>. QED  BY <1>2, <1>3, <2>1, <2>3, <2>4, <2>5, <2>6, TypeOKFromParts DEF TypeOK
<1>5. CASE ~IsMatch(owner, a)
  <2>1. /\ IF pc[owner] = "AwaitAck" THEN Finish(owner, "Disconnected")
                                     ELSE UNCHANGED <<pc, res>>
        /\ dispatcher' = "Stopped"
        /\ UNCHANGED <<waiters, delivered>>
    BY <1>5 DEF AckInOrder, IsMatch
  <2>2. /\ pc' \in [Tasks -> PcStates] /\ res' \in [Tasks -> Results]
        /\ \A u \in Tasks : pc'[u] \in {"Parked", "Woken"} => kind'[u] \in AckKinds
    <3>1. CASE pc[owner] = "AwaitAck" /\ owner \in Tasks
      <4>1. /\ pc' \in [Tasks -> PcStates] /\ pc'[owner] = "Done"
            /\ res' \in [Tasks -> Results]
            /\ \A u \in Tasks \ {owner} : pc'[u] = pc[u]
        BY <2>1, <3>1, FinishType DEF Results
      <4>2. \A u \in Tasks \ {owner} : kind'[u] = kind[u]
        BY <1>2
      <4>. QED  BY <3>1, <4>1, <4>2, KindOfWaiting
    <3>2. CASE pc[owner] = "AwaitAck" /\ owner = NoTask
      <4>1. pc' = [pc EXCEPT ![NoTask] = "Done"]
            /\ res' = [res EXCEPT ![NoTask] = "Disconnected"]
        BY <2>1, <3>2 DEF Finish
      <4>2. DOMAIN pc = Tasks /\ DOMAIN res = Tasks /\ NoTask \notin Tasks
        BY DEF TypeOK
      <4>3. /\ pc' \in [Tasks -> PcStates] /\ res' \in [Tasks -> Results]
            /\ \A u \in Tasks : pc'[u] = pc[u]
        BY <4>1, <4>2 DEF TypeOK
      <4>. QED  BY <1>2, <4>3 DEF TypeOK
    <3>3. CASE pc[owner] # "AwaitAck"
      BY <1>2, <2>1, <3>3 DEF TypeOK
    <3>. QED  BY <1>1, <3>1, <3>2, <3>3
  <2>. QED  BY <1>2, <1>3, <2>1, <2>2, TypeOKFromParts DEF TypeOK
<1>. QED  BY <1>4, <1>5

LEMMA PktAckType ==
  ASSUME TypeOK, NEW a \in Ack, PktAck(a), inbox' \in Seq(Ack)
  PROVE  TypeOK'
BY CloseWhileBorrowedType, AckInOrderType DEF PktAck

LEMMA PeerAckType ==
  ASSUME TypeOK, PeerAck PROVE TypeOK'
<1>1. inbox # <<>> /\ Head(inbox) \in Ack /\ inbox' \in Seq(Ack)
  BY HeadTailProperties DEF PeerAck, TypeOK
<1>. QED  BY <1>1, PktAckType DEF PeerAck

LEMMA PeerBadAckType ==
  ASSUME TypeOK, NEW a \in Ack, PeerBadAck(a) PROVE TypeOK'
BY PktAckType DEF PeerBadAck, TypeOK

LEMMA InitType == Init => TypeOK
BY DEF Init, TypeOK, PcStates, SendKinds, Results, Keys

LEMMA NextType == TypeOK /\ [Next]_vars => TypeOK'
<1> SUFFICES ASSUME TypeOK, [Next]_vars PROVE TypeOK'
  OBVIOUS
<1>1. CASE \E t \in Tasks : SendPublish(t) \/ SendSubscribe(t) \/ SendUnsubscribe(t)
  BY <1>1, SendWithAckType DEF SendPublish, SendSubscribe, SendUnsubscribe, AckKinds
<1>2. CASE \E t \in Tasks : SendAtMostOnce(t) \/ Resume(t) \/ Cancel(t)
  BY <1>2, SendAtMostOnceType, ResumeType, CancelType
<1>3. CASE Close \/ Ping
  BY <1>3, TakeSenderType DEF Close, Ping
<1>4. CASE Disconnect
  BY <1>4, DisconnectType
<1>5. CASE PeerAck
  BY <1>5, PeerAckType
<1>6. CASE \E a \in Ack : PeerBadAck(a)
  BY <1>6, PeerBadAckType
<1>7. CASE UNCHANGED vars
  BY <1>7 DEF vars, sinkVars, taskVars, envVars, TypeOK
<1>. QED  BY <1>1, <1>2, <1>3, <1>4, <1>5, <1>6, <1>7 DEF Next

(* Type correctness of the sink model: however senders, the peer, closes,  *)
(* cancellations and bad acks interleave, the slab, the free list, the     *)
(* queue_order ids, the waiter queue and every task's state keep their     *)
(* types, and a parked or woken sender always sends a packet that needs an *)
(* ack, the AckType that Resume stores in the slab.                        *)
THEOREM TypeCorrect == Spec => []TypeOK
BY InitType, NextType, PTL DEF Spec

=============================================================================
