---------------------------- MODULE AckQueue_proofs ----------------------------
(* Proof that AckQueue's QueueInv holds in every behaviour, for every set  *)
(* of tasks.                                                               *)
EXTENDS AckQueue, SequenceTheorems, TLAPS

LEMMA InitQueueInv == Init => QueueInv
BY DEF Init, QueueInv

(* A task not yet sent joins the back: it is new to flight and to acked.  *)
LEMMA SendQueueInv ==
  ASSUME QueueInv, NEW t \in Tasks, Send(t)
  PROVE  QueueInv'
<1>1. /\ Append(flight, t) \in Seq(Tasks)
      /\ Len(Append(flight, t)) = Len(flight) + 1
      /\ \A i \in 1..Len(flight) : Append(flight, t)[i] = flight[i]
      /\ Append(flight, t)[Len(flight) + 1] = t
  BY AppendProperties DEF QueueInv
<1>2. t \notin acked /\ \A i \in 1..Len(flight) : flight[i] # t
  BY DEF Send, QueueInv
<1>. QED  BY <1>1, <1>2 DEF Send, QueueInv

(* Popping the head keeps the rest distinct, sent and unacked; the head    *)
(* may join acked because it appears nowhere else in flight.              *)
LEMMA PopQueueInv ==
  ASSUME QueueInv, flight # <<>>, flight' = Tail(flight), UNCHANGED sent,
         acked' = acked \/ acked' = acked \cup {Head(flight)}
  PROVE  QueueInv'
<1>1. /\ Tail(flight) \in Seq(Tasks)
      /\ Len(Tail(flight)) = Len(flight) - 1
      /\ \A i \in 1..Len(Tail(flight)) : Tail(flight)[i] = flight[i + 1]
  BY HeadTailProperties DEF QueueInv
<1>2. Len(flight) >= 1 /\ Head(flight) = flight[1]
  BY EmptySeq DEF QueueInv
<1>3. \A i \in 1..Len(Tail(flight)) :
         /\ i + 1 \in 1..Len(flight)
         /\ flight[i + 1] # Head(flight)
  BY <1>1, <1>2 DEF QueueInv
<1>4. Head(flight) \in sent
  BY <1>2 DEF QueueInv
<1>. QED  BY <1>1, <1>3, <1>4 DEF QueueInv

LEMMA NextQueueInv == QueueInv /\ [Next]_vars => QueueInv'
<1> SUFFICES ASSUME QueueInv, [Next]_vars PROVE QueueInv'
  OBVIOUS
<1>1. CASE \E t \in Tasks : Send(t)
  BY <1>1, SendQueueInv
<1>2. CASE Ack
  BY <1>2, PopQueueInv DEF Ack
<1>3. CASE Drop
  BY <1>3, PopQueueInv DEF Drop
<1>4. CASE UNCHANGED vars
  BY <1>4 DEF vars, QueueInv
<1>. QED  BY <1>1, <1>2, <1>3, <1>4 DEF Next

(* In every behaviour of AckQueue each waiting task waits once, was sent  *)
(* and has no ack yet, and only tasks that sent are ever acked.            *)
THEOREM QueueSafe == Spec => []QueueInv
BY InitQueueInv, NextQueueInv, PTL DEF Spec

=============================================================================
