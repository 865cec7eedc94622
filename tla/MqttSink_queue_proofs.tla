------------------------- MODULE MqttSink_queue_proofs -------------------------
(* Proof that MqttSink implements AckQueue under the mapping AckOwners,    *)
(* SentTasks, AckedTasks, for every value of the constants.                *)
EXTENDS MqttSink_ack_proofs

USE SinkAssumptions

(* The task of an occupied slab entry has not yet received an ack: the     *)
(* entry is removed by the very pkt_ack that sends on its one-shot.         *)
InQueueUnacked ==
  \A k \in Keys : queue[k] # NoTask => delivered[queue[k]] = NoAck

(* The inductive invariant of the refinement.                              *)
RInv == IInv /\ InQueueUnacked

-----------------------------------------------------------------------------
(* Lemmas about the refinement mapping.                                    *)

(* queue_order names occupied entries, so its owners are tasks.           *)
LEMMA OwnersType ==
  ASSUME IInv
  PROVE  AckOwners \in Seq(Tasks) /\ Len(AckOwners) = Len(queue_order)
<1>1. queue_order \in Seq(Ids)
  BY DEF IInv, TypeOK
<1>2. \A i \in 1..Len(queue_order) :
         queue_order[i] - 1 \in Keys /\ queue[queue_order[i] - 1] \in Tasks
  BY <1>1 DEF IInv, TypeOK, OrderTracksSlab, Ids, Keys
<1>. QED  BY <1>1, <1>2 DEF AckOwners

(* The same in the state after a step.                                     *)
LEMMA OwnersTypePrimed ==
  ASSUME IInv'
  PROVE  AckOwners' \in Seq(Tasks) /\ Len(AckOwners') = Len(queue_order')
<1>1. queue_order' \in Seq(Ids)
  BY DEF IInv, TypeOK
<1>2. \A i \in 1..Len(queue_order') :
         queue_order'[i] - 1 \in Keys /\ queue'[queue_order'[i] - 1] \in Tasks
  BY <1>1 DEF IInv, TypeOK, OrderTracksSlab, Ids, Keys
<1>. QED  BY <1>1, <1>2 DEF AckOwners

(* A step that leaves the slab, queue_order, the ids and the one-shots     *)
(* alone is a stutter of AckQueue.                                         *)
LEMMA MapFrame ==
  ASSUME UNCHANGED <<queue, queue_order, pid, delivered>>
  PROVE  UNCHANGED AQ!vars
BY DEF AQ!vars, AckOwners, SentTasks, AckedTasks

(* Popping the head of queue_order, while the entries of the others stay,  *)
(* pops the oldest owner.                                                  *)
LEMMA PopOwners ==
  ASSUME IInv, IInv', queue_order # <<>>, queue_order' = Tail(queue_order),
         \A i \in 2..Len(queue_order) :
            queue'[queue_order[i] - 1] = queue[queue_order[i] - 1]
  PROVE  /\ AckOwners # <<>>
         /\ Head(AckOwners) = queue[queue_order[1] - 1]
         /\ AckOwners' = Tail(AckOwners)
<1>1. queue_order \in Seq(Ids)
  BY DEF IInv, TypeOK
<1>2. /\ AckOwners \in Seq(Tasks) /\ Len(AckOwners) = Len(queue_order)
      /\ AckOwners' \in Seq(Tasks) /\ Len(AckOwners') = Len(queue_order')
  BY OwnersType, OwnersTypePrimed
<1>3. /\ Len(queue_order') = Len(queue_order) - 1
      /\ \A i \in 1..Len(queue_order') : queue_order'[i] = queue_order[i + 1]
  BY <1>1, HeadTailProperties
<1>4. AckOwners # <<>> /\ Head(AckOwners) = queue[queue_order[1] - 1]
  BY <1>1, <1>2 DEF AckOwners
<1>5. /\ Tail(AckOwners) \in Seq(Tasks)
      /\ Len(Tail(AckOwners)) = Len(AckOwners) - 1
      /\ \A i \in 1..Len(Tail(AckOwners)) : Tail(AckOwners)[i] = AckOwners[i + 1]
  BY <1>2, <1>4, HeadTailProperties
<1>6. \A i \in 1..Len(AckOwners') : AckOwners'[i] = Tail(AckOwners)[i]
  <2> SUFFICES ASSUME NEW i \in 1..Len(AckOwners')
               PROVE  AckOwners'[i] = Tail(AckOwners)[i]
    OBVIOUS
  <2>1. i + 1 \in 2..Len(queue_order) /\ i \in 1..Len(Tail(AckOwners))
    BY <1>2, <1>3, <1>5
  <2>2. AckOwners'[i] = queue'[queue_order[i + 1] - 1]
    BY <1>2, <1>3 DEF AckOwners
  <2>3. AckOwners[i + 1] = queue[queue_order[i + 1] - 1]
    BY <2>1 DEF AckOwners
  <2>. QED  BY <1>5, <2>1, <2>2, <2>3
<1>7. AckOwners' = Tail(AckOwners)
  BY <1>2, <1>3, <1>5, <1>6, SeqEqual
<1>. QED  BY <1>4, <1>7

(* Filling a free entry and pushing its id at the back of queue_order     *)
(* appends the filling task to the owners.                                 *)
LEMMA AppendOwner ==
  ASSUME IInv, IInv', NEW t \in Tasks, NEW id \in Ids,
         queue' = [queue EXCEPT ![id - 1] = t],
         queue_order' = Append(queue_order, id),
         \A i \in 1..Len(queue_order) : queue_order[i] # id
  PROVE  AckOwners' = Append(AckOwners, t)
<1>1. queue_order \in Seq(Ids)
  BY DEF IInv, TypeOK
<1>2. /\ AckOwners \in Seq(Tasks) /\ Len(AckOwners) = Len(queue_order)
      /\ AckOwners' \in Seq(Tasks) /\ Len(AckOwners') = Len(queue_order')
  BY OwnersType, OwnersTypePrimed
<1>3. /\ Len(queue_order') = Len(queue_order) + 1
      /\ \A i \in 1..Len(queue_order) : queue_order'[i] = queue_order[i]
      /\ queue_order'[Len(queue_order) + 1] = id
  BY <1>1, AppendProperties
<1>4. /\ Append(AckOwners, t) \in Seq(Tasks)
      /\ Len(Append(AckOwners, t)) = Len(AckOwners) + 1
      /\ \A i \in 1..Len(AckOwners) : Append(AckOwners, t)[i] = AckOwners[i]
      /\ Append(AckOwners, t)[Len(AckOwners) + 1] = t
  BY <1>2, AppendProperties
<1>5. \A i \in 1..Len(AckOwners') : AckOwners'[i] = Append(AckOwners, t)[i]
  <2> SUFFICES ASSUME NEW i \in 1..Len(AckOwners')
               PROVE  AckOwners'[i] = Append(AckOwners, t)[i]
    OBVIOUS
  <2>1. CASE i \in 1..Len(queue_order)
    <3>1. queue_order[i] - 1 \in Keys /\ queue_order[i] - 1 # id - 1
      BY <1>1, <2>1 DEF Ids, Keys
    <3>2. AckOwners'[i] = queue[queue_order[i] - 1]
      BY <1>2, <1>3, <2>1, <3>1 DEF AckOwners, IInv, TypeOK
    <3>. QED  BY <1>2, <1>4, <2>1, <3>2 DEF AckOwners
  <2>2. CASE i = Len(queue_order) + 1
    <3>1. id - 1 \in Keys
      BY DEF Ids, Keys
    <3>2. AckOwners'[i] = t
      BY <1>2, <1>3, <2>2, <3>1 DEF AckOwners, IInv, TypeOK
    <3>. QED  BY <1>2, <1>4, <2>2, <3>2
  <2>. QED  BY <1>2, <1>3, <2>1, <2>2
<1>. QED  BY <1>2, <1>4, <1>5, SeqEqual

-----------------------------------------------------------------------------
(* One lemma per kind of step: each re-establishes InQueueUnacked and maps *)
(* to a step of AckQueue or a stutter.                                     *)

(* Parking, refusing, panicking, send_at_most_once, cancelling, closing,   *)
(* pinging, disconnecting: no slab entry, id or one-shot changes.         *)
LEMMA QuietStep ==
  ASSUME RInv, UNCHANGED <<queue, queue_order, pid, delivered>>
  PROVE  InQueueUnacked' /\ [AQ!Next]_AQ!vars
BY MapFrame DEF RInv, InQueueUnacked

(* An admitted send takes a free entry: its task had no id and no ack, so *)
(* the step is AckQueue's Send of that task.  A rejected id changes none  *)
(* of the mapped state.                                                    *)
LEMMA AllocateRefines ==
  ASSUME RInv, IInv', NEW t \in Tasks, NEW k, Allocate(t, k),
         pc[t] \in {"Idle", "Woken"}
  PROVE  InQueueUnacked' /\ [AQ!Next]_AQ!vars
<1> DEFINE nk == NextKey
           id == nk + 1
<1>1. CASE ~IdAvailable(id)
  BY <1>1, QuietStep DEF Allocate
<1>2. CASE IdAvailable(id)
  <2>1. /\ nk \in Nat
        /\ nk \in Keys => queue[nk] = NoTask
    BY NextKeyFree DEF RInv
  <2>2. nk \in Keys /\ id \in Ids /\ queue[nk] = NoTask /\ id - 1 = nk
    BY <1>2, <2>1 DEF IdAvailable, Keys, Ids
  <2>3. \A i \in 1..Len(queue_order) : queue_order[i] # id
    <3> SUFFICES ASSUME NEW i \in 1..Len(queue_order), queue_order[i] = id
                 PROVE  FALSE
      OBVIOUS
    <3>1. queue[queue_order[i] - 1] # NoTask
      BY DEF RInv, IInv, OrderTracksSlab
    <3>. QED  BY <2>2, <3>1
  <2>4. /\ queue' = [queue EXCEPT ![nk] = t]
        /\ queue_order' = Append(queue_order, id)
        /\ pid' = [pid EXCEPT ![t] = id]
        /\ UNCHANGED delivered
    BY <1>2 DEF Allocate, SlabInsert, RecordOrder
  <2>5. pid[t] = 0 /\ delivered[t] = NoAck
    BY DEF RInv, IInv, Unsent
  <2>6. AckOwners' = Append(AckOwners, t)
    BY <2>2, <2>3, <2>4, AppendOwner DEF RInv
  <2>7. t \notin SentTasks /\ SentTasks' = SentTasks \cup {t}
    BY <2>2, <2>4, <2>5 DEF SentTasks, Ids, RInv, IInv, TypeOK
  <2>8. AckedTasks' = AckedTasks
    BY <2>4 DEF AckedTasks
  <2>9. InQueueUnacked'
    BY <2>2, <2>4, <2>5 DEF RInv, InQueueUnacked, IInv, TypeOK
  <2>. QED  BY <2>6, <2>7, <2>8, <2>9 DEF AQ!Next, AQ!Send
<1>. QED  BY <1>1, <1>2

(* pkt_ack panicking on the borrow pops the oldest request with nothing   *)
(* delivered: AckQueue's Drop, or a stutter if queue_order was empty.     *)
LEMMA CloseWhileBorrowedRefines ==
  ASSUME RInv, IInv', CloseWhileBorrowed
  PROVE  InQueueUnacked' /\ [AQ!Next]_AQ!vars
<1>1. UNCHANGED <<queue, pid, delivered>>
  BY DEF CloseWhileBorrowed, taskVars
<1>2. InQueueUnacked'
  BY <1>1 DEF RInv, InQueueUnacked
<1>3. CASE queue_order = <<>>
  BY <1>1, <1>3, QuietStep DEF CloseWhileBorrowed
<1>4. CASE queue_order # <<>>
  <2>1. queue_order' = Tail(queue_order)
    BY <1>4 DEF CloseWhileBorrowed
  <2>2. AckOwners # <<>> /\ AckOwners' = Tail(AckOwners)
    BY <1>1, <1>4, <2>1, PopOwners DEF RInv
  <2>3. SentTasks' = SentTasks /\ AckedTasks' = AckedTasks
    BY <1>1 DEF SentTasks, AckedTasks
  <2>. QED  BY <1>2, <2>2, <2>3 DEF AQ!Next, AQ!Drop
<1>. QED  BY <1>2, <1>3, <1>4

(* pkt_ack with the head of queue_order removes the oldest owner's entry. *)
(* If the AckType matches and the owner still awaits it, the owner's      *)
(* one-shot, empty until now, receives the ack: AckQueue's Ack.  If the    *)
(* owner is gone or the AckType is wrong, nothing is delivered: Drop.      *)
LEMMA AckInOrderRefines ==
  ASSUME RInv, IInv', NEW a \in Ack, queue_order # <<>>,
         Head(queue_order) = a.id, AckInOrder(a)
  PROVE  InQueueUnacked' /\ [AQ!Next]_AQ!vars
<1> DEFINE key   == a.id - 1
           owner == queue[key]
<1>1. /\ queue' = [queue EXCEPT ![key] = NoTask]
      /\ queue_order' = Tail(queue_order)
      /\ UNCHANGED pid
  BY DEF AckInOrder
<1>2. queue_order \in Seq(Ids) /\ Len(queue_order) >= 1 /\ queue_order[1] = a.id
  BY EmptySeq DEF RInv, IInv, TypeOK
<1>3. /\ key \in Keys /\ owner \in Tasks /\ pid[owner] = a.id
      /\ delivered[owner] = NoAck /\ a # NoAck
  <2>1. key \in Keys /\ a # NoAck
    BY DEF Ack, NoAck, Ids, Keys
  <2>2. owner # NoTask /\ pid[owner] = a.id
    BY <1>2 DEF RInv, IInv, OrderTracksSlab
  <2>. QED  BY <2>1, <2>2 DEF RInv, IInv, TypeOK, InQueueUnacked
<1>4. \A i \in 2..Len(queue_order) :
         queue'[queue_order[i] - 1] = queue[queue_order[i] - 1]
  <2> SUFFICES ASSUME NEW i \in 2..Len(queue_order)
               PROVE  queue'[queue_order[i] - 1] = queue[queue_order[i] - 1]
    OBVIOUS
  <2>1. queue_order[i] # a.id
    BY <1>2 DEF RInv, IInv, OrderTracksSlab
  <2>. QED  BY <1>1, <1>2, <2>1 DEF Ids, Keys
<1>5. /\ AckOwners # <<>> /\ Head(AckOwners) = owner
      /\ AckOwners' = Tail(AckOwners)
  BY <1>1, <1>2, <1>4, PopOwners DEF RInv
<1>6. SentTasks' = SentTasks
  BY <1>1 DEF SentTasks
<1>7. owner \notin AckedTasks
  BY <1>3 DEF AckedTasks
(* the other occupied entries belong to other tasks, whose one-shots stay *)
<1>8. ASSUME NEW kk \in Keys, queue'[kk] # NoTask
      PROVE  kk # key /\ queue'[kk] = queue[kk] /\ queue[kk] # owner
  <2>1. kk # key /\ queue'[kk] = queue[kk]
    BY <1>1, <1>8 DEF RInv, IInv, TypeOK
  <2>2. pid[queue[kk]] = kk + 1
    BY <1>8, <2>1 DEF RInv, IInv, SlabOwned
  <2>. QED  BY <1>3, <2>1, <2>2 DEF Keys
<1>9. CASE IsMatch(owner, a) /\ pc[owner] = "AwaitAck"
  <2>1. delivered' = [delivered EXCEPT ![owner] = a]
    BY <1>9 DEF AckInOrder
  <2>2. AckedTasks' = AckedTasks \cup {owner}
    BY <1>3, <2>1 DEF AckedTasks, RInv, IInv, TypeOK
  <2>3. InQueueUnacked'
    BY <1>8, <2>1 DEF RInv, InQueueUnacked, IInv, TypeOK
  <2>. QED  BY <1>5, <1>6, <1>7, <2>2, <2>3 DEF AQ!Next, AQ!Ack
<1>10. CASE ~(IsMatch(owner, a) /\ pc[owner] = "AwaitAck")
  <2>1. UNCHANGED delivered
    BY <1>10 DEF AckInOrder
  <2>2. AckedTasks' = AckedTasks
    BY <2>1 DEF AckedTasks
  <2>3. InQueueUnacked'
    BY <1>8, <2>1 DEF RInv, InQueueUnacked
  <2>. QED  BY <1>5, <1>6, <2>2, <2>3 DEF AQ!Next, AQ!Drop
<1>. QED  BY <1>9, <1>10

LEMMA PktAckRefines ==
  ASSUME RInv, IInv', NEW a \in Ack, PktAck(a)
  PROVE  InQueueUnacked' /\ [AQ!Next]_AQ!vars
BY CloseWhileBorrowedRefines, AckInOrderRefines DEF PktAck

(* Every step of the sink keeps RInv and is a step of AckQueue or a        *)
(* stutter.                                                                *)
LEMMA NextRefinesQueue == RInv /\ [Next]_vars => RInv' /\ [AQ!Next]_AQ!vars
<1> SUFFICES ASSUME RInv, [Next]_vars PROVE RInv' /\ [AQ!Next]_AQ!vars
  OBVIOUS
<1>1. IInv'
  BY NextInv DEF RInv
<1> SUFFICES InQueueUnacked' /\ [AQ!Next]_AQ!vars
  BY <1>1 DEF RInv
<1>2. ASSUME NEW t \in Tasks, NEW k, SendWithAck(t, k)
      PROVE  InQueueUnacked' /\ [AQ!Next]_AQ!vars
  BY <1>1, <1>2, QuietStep, AllocateRefines DEF SendWithAck, Finish
<1>3. CASE \E t \in Tasks : SendPublish(t) \/ SendSubscribe(t) \/ SendUnsubscribe(t)
  BY <1>2, <1>3 DEF SendPublish, SendSubscribe, SendUnsubscribe
<1>4. CASE \E t \in Tasks : Resume(t)
  BY <1>1, <1>4, AllocateRefines DEF Resume
<1>5. CASE \E t \in Tasks : SendAtMostOnce(t) \/ Cancel(t)
  BY <1>5, QuietStep DEF SendAtMostOnce, Cancel, sinkVars
<1>6. CASE Close \/ Ping \/ Disconnect
  BY <1>6, QuietStep DEF Close, Ping, TakeSender, Disconnect, sinkVars, taskVars
<1>7. CASE PeerAck
  <2>1. Head(inbox) \in Ack
    BY <1>7, HeadTailProperties DEF PeerAck, RInv, IInv, TypeOK
  <2>. QED  BY <1>1, <1>7, <2>1, PktAckRefines DEF PeerAck
<1>8. CASE \E a \in Ack : PeerBadAck(a)
  BY <1>1, <1>8, PktAckRefines DEF PeerBadAck
<1>9. CASE UNCHANGED vars
  BY <1>9, QuietStep DEF vars, sinkVars, taskVars
<1>. QED  BY <1>3, <1>4, <1>5, <1>6, <1>7, <1>8, <1>9 DEF Next

(* MqttSink implements AckQueue: however senders, wake-ups, cancellations, *)
(* closes and good or bad acks interleave, send_at_least_once and the      *)
(* builders' send queue each task once, pkt_ack answers or abandons the    *)
(* oldest outstanding request, and a sender's one-shot receives at most    *)
(* one ack, the answer to its own request.                                 *)
THEOREM ImplementsAckQueue == Spec => AckQueueRefinement
<1>1. Init => RInv
  BY InitInv DEF Init, RInv, InQueueUnacked
<1>2. Init => AQ!Init
  BY DEF Init, AQ!Init, AckOwners, SentTasks, AckedTasks
<1>. QED  BY <1>1, <1>2, NextRefinesQueue, PTL
          DEF Spec, AckQueueRefinement, AQ!Spec

(* AckQueue's own invariant (AckQueue_proofs!QueueSafe) read through the  *)
(* mapping follows from RInv: owners are distinct because their ids are,  *)
(* each was given an id and has no ack, and an ack carries its task's id. *)
LEMMA QueueInvOfSink == RInv => AQ!QueueInv
<1> SUFFICES ASSUME RInv PROVE AQ!QueueInv
  OBVIOUS
<1>1. AckOwners \in Seq(Tasks) /\ Len(AckOwners) = Len(queue_order)
  BY OwnersType DEF RInv
<1>2. queue_order \in Seq(Ids)
  BY DEF RInv, IInv, TypeOK
<1>3. \A i \in 1..Len(queue_order) :
         /\ queue_order[i] - 1 \in Keys
         /\ AckOwners[i] = queue[queue_order[i] - 1]
         /\ queue[queue_order[i] - 1] # NoTask
         /\ pid[AckOwners[i]] = queue_order[i]
  BY <1>2 DEF RInv, IInv, OrderTracksSlab, AckOwners, Ids, Keys
<1>4. \A i, j \in 1..Len(AckOwners) : AckOwners[i] = AckOwners[j] => i = j
  BY <1>1, <1>3 DEF RInv, IInv, OrderTracksSlab
<1>5. \A i \in 1..Len(AckOwners) :
         AckOwners[i] \in SentTasks /\ AckOwners[i] \notin AckedTasks
  BY <1>1, <1>2, <1>3 DEF RInv, InQueueUnacked, SentTasks, AckedTasks, Ids
<1>6. AckedTasks \subseteq SentTasks
  BY DEF RInv, IInv, TypeOK, AckCorrelation, AckedTasks, SentTasks, Ack, Ids
<1>. QED  BY <1>1, <1>4, <1>5, <1>6 DEF AQ!QueueInv, SentTasks

(* Hence, in the sink itself: a task's ack sender is in at most one slab  *)
(* entry named by queue_order, only a task given a packet id ever waits   *)
(* or receives an ack, and a task that received its ack never waits for   *)
(* another -- whatever the peer sends.                                    *)
THEOREM SinkQueueSafe == Spec => []AQ!QueueInv
<1>1. Init => RInv
  BY InitInv DEF Init, RInv, InQueueUnacked
<1>2. RInv /\ [Next]_vars => RInv'
  BY NextRefinesQueue
<1>. QED  BY <1>1, <1>2, QueueInvOfSink, PTL DEF Spec

=============================================================================
