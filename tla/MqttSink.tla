------------------------------- MODULE MqttSink -------------------------------
(***************************************************************************)
(* The MQTT v3 sink of src/v3/sink.rs: the handle through which server     *)
(* code originates PUBLISH (QoS 0 and 1), SUBSCRIBE and UNSUBSCRIBE        *)
(* packets, together with pkt_ack, the entry point the dispatcher calls    *)
(* for every PUBACK, SUBACK and UNSUBACK the peer sends.                   *)
(*                                                                         *)
(* The shared MqttSinkInner is the slab `queue` of ack channels (its dense *)
(* key + 1 is the packet id), the FIFO `queue_order` of ids in send order, *)
(* the FIFO `waiters` of senders parked on the receive maximum `cap`, and  *)
(* the optional outbound sender `sink`.  Every sender is a task of the     *)
(* single-threaded executor; a task runs without interruption between two *)
(* await points, so each action below is the code between two awaits.     *)
(*                                                                         *)
(* The dispatcher and the peer are the environment: the peer owes one ack  *)
(* per packet that reached it (`inbox`, in arrival order) and may also    *)
(* send acks out of order, of the wrong kind or unsolicited.               *)
(***************************************************************************)
EXTENDS Naturals, Sequences, FiniteSets

CONSTANTS
  Tasks,          \* the sender tasks; each one sends one packet
  Cap,            \* MqttSinkInner.cap, the peer's receive maximum
  MaxPacketId,    \* u16::max_value(), the largest packet id
  OverflowChecks, \* TRUE when the build panics on usize underflow
  EnvEvents,      \* which environment events this model lets happen
  NoTask          \* marks a vacant slab entry

ASSUME SinkAssumptions ==
  /\ Cap \in Nat
  /\ MaxPacketId \in Nat \ {0}
  /\ OverflowChecks \in BOOLEAN
  /\ EnvEvents \subseteq {"close", "ping", "disconnect", "cancel", "badAck"}
  /\ NoTask \notin Tasks

AckKinds  == {"Publish", "Subscribe", "Unsubscribe"}   \* enum AckType
SendKinds == AckKinds \cup {"AtMostOnce", "None"}
Ids       == 1..MaxPacketId
Keys      == 0..(MaxPacketId - 1)                     \* slab keys of valid ids
Ack       == [id : Ids, kind : AckKinds]             \* enum Ack
NoAck     == [id |-> 0, kind |-> "None"]
PcStates  == {"Idle", "Parked", "Woken", "AwaitAck", "Done", "Dropped", "Panicked"}
Results   == {"None", "Ok", "Disconnected", "PacketIdNotAvailable"}

VARIABLES
  sink,         \* inner.sink.is_some(): the outbound sender is still there
  queue,        \* the slab: key -> the task whose ack sender it holds
  vacant,       \* the slab's free list, most recently freed key first
  slabEnd,      \* the slab's entries.len()
  queue_order,  \* packet ids in the order they were sent
  waiters,      \* tasks whose waiter sender is queued, oldest first
  pc,           \* where each task's future is suspended
  kind,         \* what each task sends
  pid,          \* the packet id each task was given (0: none yet)
  res,          \* what each finished task's future returned
  delivered,    \* the Ack each task's one-shot received
  dispatcher,   \* "Running", "Stopped" or "Panicked"
  inbox         \* the acks the peer owes, in the order it got the packets

sinkVars == <<sink, queue, vacant, slabEnd, queue_order, waiters>>
taskVars == <<pc, kind, pid, res, delivered>>
envVars  == <<dispatcher, inbox>>
vars     == <<sinkVars, taskVars, envVars>>

-----------------------------------------------------------------------------
(* Slab bookkeeping.                                                       *)

InFlight == {k \in Keys : queue[k] # NoTask}

\* Slab::len(), the number of occupied entries
QueueLen == Cardinality(InFlight)

\* the key Slab::insert hands out: the head of the free list, else the end
NextKey == IF vacant = <<>> THEN slabEnd ELSE Head(vacant)

Running == dispatcher = "Running"

Finish(t, r) ==
  /\ pc' = [pc EXCEPT ![t] = "Done"]
  /\ res' = [res EXCEPT ![t] = r]

-----------------------------------------------------------------------------
\* Slab::insert(): a mutant forgets to advance the free list
SlabInsertNoAdvance(t) ==
  /\ queue' = [queue EXCEPT ![NextKey] = t]
  /\ slabEnd' = IF vacant = <<>> THEN slabEnd + 1 ELSE slabEnd
  /\ UNCHANGED vacant

\* Slab::insert(): fill the key NextKey with the task's ack sender
SlabInsert(t) ==
  /\ queue' = [queue EXCEPT ![NextKey] = t]
  /\ vacant' = IF vacant = <<>> THEN <<>> ELSE Tail(vacant)
  /\ slabEnd' = IF vacant = <<>> THEN slabEnd + 1 ELSE slabEnd

\* `idx > u16::max_value()` is the rejection test; a mutant is off by one
IdAvailableOffByOne(id) == id <= MaxPacketId + 1
IdAvailable(id) == id <= MaxPacketId

\* queue_order.push_back(idx); a mutant pushes at the front
RecordOrderFront(id) == queue_order' = <<id>> \o queue_order
RecordOrder(id) == queue_order' = Append(queue_order, id)

(* The part of send_at_least_once / SubscribeBuilder::send /               *)
(* UnsubscribeBuilder::send after admission: take a slab entry, check the  *)
(* packet id, record it in queue_order, push the packet to the dispatcher. *)
(* It is entered with the borrow held, either straight from the call or   *)
(* after the waiter was woken; `inner.sink.as_ref().unwrap()` is not       *)
(* re-checked after the wait.                                              *)
Allocate(t, k) ==
  LET id == NextKey + 1
  IN \/ /\ ~IdAvailable(id)
        \* insert then remove: the key ends up at the head of the free list
        /\ slabEnd' = IF vacant = <<>> THEN slabEnd + 1 ELSE slabEnd
        /\ vacant' = IF vacant = <<>> THEN <<NextKey>> ELSE vacant
        /\ Finish(t, "PacketIdNotAvailable")
        /\ UNCHANGED <<queue, queue_order, pid, delivered, inbox>>
     \/ /\ IdAvailable(id)
        /\ SlabInsert(t)
        /\ RecordOrder(id)
        /\ pid' = [pid EXCEPT ![t] = id]
        /\ UNCHANGED delivered
        /\ \/ /\ ~sink                 \* unwrap() of None: the task panics
              /\ pc' = [pc EXCEPT ![t] = "Panicked"]
              /\ UNCHANGED <<res, inbox>>
           \/ /\ sink /\ Running       \* the packet goes out
              /\ inbox' = Append(inbox, [id |-> id, kind |-> k])
              /\ pc' = [pc EXCEPT ![t] = "AwaitAck"]
              /\ UNCHANGED res
           \/ /\ sink /\ ~Running      \* receiver gone: entry stays behind
              /\ Finish(t, "Disconnected")
              /\ UNCHANGED inbox

(* A call of send_at_least_once (k = "Publish"), SubscribeBuilder::send or *)
(* UnsubscribeBuilder::send, up to its first await.                        *)
SendWithAck(t, k) ==
  /\ pc[t] = "Idle"
  /\ kind' = [kind EXCEPT ![t] = k]
  /\ UNCHANGED <<sink, dispatcher>>
  /\ \/ /\ ~sink
        /\ Finish(t, "Disconnected")
        /\ UNCHANGED <<queue, vacant, slabEnd, queue_order, waiters, pid,
                       delivered, inbox>>
     \/ /\ sink /\ QueueLen = Cap    \* cap - queue.len() == 0: park
        /\ waiters' = Append(waiters, t)
        /\ pc' = [pc EXCEPT ![t] = "Parked"]
        /\ UNCHANGED <<queue, vacant, slabEnd, queue_order, pid, res,
                       delivered, inbox>>
     \/ /\ sink /\ QueueLen > Cap /\ OverflowChecks  \* cap - len underflows
        /\ pc' = [pc EXCEPT ![t] = "Panicked"]
        /\ UNCHANGED <<queue, vacant, slabEnd, queue_order, waiters, pid, res,
                       delivered, inbox>>
     \/ /\ sink /\ (QueueLen < Cap \/ (QueueLen > Cap /\ ~OverflowChecks))
        /\ Allocate(t, k)
        /\ UNCHANGED waiters

\* PublishBuilder::send_at_least_once, SubscribeBuilder::send and
\* UnsubscribeBuilder::send differ only in the AckType they store
SendPublish(t)     == SendWithAck(t, "Publish")
SendSubscribe(t)   == SendWithAck(t, "Subscribe")
SendUnsubscribe(t) == SendWithAck(t, "Unsubscribe")

(* A parked sender whose waiter channel received () is polled again.       *)
Resume(t) ==
  /\ pc[t] = "Woken"
  /\ Allocate(t, kind[t])
  /\ UNCHANGED <<sink, waiters, kind, dispatcher>>

(* PublishBuilder::send_at_most_once: pushed without a packet id.          *)
SendAtMostOnce(t) ==
  /\ pc[t] = "Idle"
  /\ kind' = [kind EXCEPT ![t] = "AtMostOnce"]
  /\ Finish(t, IF sink /\ Running THEN "Ok" ELSE "Disconnected")
  /\ UNCHANGED <<sinkVars, pid, delivered, envVars>>

(* MqttSink::close and MqttSink::ping both take the sender out of `sink`.  *)
TakeSender ==
  /\ sink
  /\ sink' = FALSE
  /\ UNCHANGED <<queue, vacant, slabEnd, queue_order, waiters, taskVars, envVars>>

Close == "close" \in EnvEvents /\ TakeSender
Ping  == "ping" \in EnvEvents /\ TakeSender

(* The future of a parked, woken or ack-awaiting sender is dropped: its    *)
(* receivers go with it, the senders stay in the sink.                     *)
Cancel(t) ==
  /\ "cancel" \in EnvEvents
  /\ pc[t] \in {"Parked", "Woken", "AwaitAck"}
  /\ pc' = [pc EXCEPT ![t] = "Dropped"]
  /\ UNCHANGED <<sinkVars, kind, pid, res, delivered, envVars>>

-----------------------------------------------------------------------------
(* pkt_ack.                                                                *)

\* waiters.pop_front() until a send(()) succeeds: dropped receivers are skipped
LiveWaiters == {i \in 1..Len(waiters) : pc[waiters[i]] = "Parked"}
WakeIdx == IF LiveWaiters = {} THEN Len(waiters)
           ELSE CHOOSE i \in LiveWaiters : \A j \in LiveWaiters : i <= j
\* a mutant pops the waiter but never sends () on its channel
WokenNone == {}
Woken == IF LiveWaiters = {} THEN {} ELSE {waiters[WakeIdx]}

\* Ack::is_match; a mutant accepts an ack of any kind
IsMatchAny(owner, a) == TRUE
IsMatch(owner, a) == kind[owner] = a.kind

(* self.close() runs while `inner` still holds the RefCell's mutable       *)
(* borrow, so borrow_mut() panics and the dispatcher task dies; the        *)
(* pop_front() already done stays done.                                    *)
CloseWhileBorrowed ==
  /\ dispatcher' = "Panicked"
  /\ queue_order' = IF queue_order = <<>> THEN queue_order ELSE Tail(queue_order)
  /\ UNCHANGED <<sink, queue, vacant, slabEnd, waiters, taskVars>>

(* The ack's id is the head of queue_order: remove the slab entry, check   *)
(* its AckType, deliver on the one-shot and wake one parked sender.        *)
AckInOrder(a) ==
  LET key   == a.id - 1
      owner == queue[key]
  IN /\ queue' = [queue EXCEPT ![key] = NoTask]
     /\ vacant' = <<key>> \o vacant
     /\ queue_order' = Tail(queue_order)
     /\ UNCHANGED <<sink, slabEnd, kind, pid>>
     /\ \/ /\ IsMatch(owner, a)
           /\ waiters' = SubSeq(waiters, WakeIdx + 1, Len(waiters))
           /\ pc' = [u \in Tasks |->
                       IF u = owner /\ pc[u] = "AwaitAck" THEN "Done"
                       ELSE IF u \in Woken THEN "Woken" ELSE pc[u]]
           /\ res' = IF pc[owner] = "AwaitAck"
                     THEN [res EXCEPT ![owner] = "Ok"] ELSE res
           /\ delivered' = IF pc[owner] = "AwaitAck"
                           THEN [delivered EXCEPT ![owner] = a] ELSE delivered
           /\ UNCHANGED dispatcher
        \/ /\ ~IsMatch(owner, a)
           \* Unexpected: the ack sender is dropped, the owner sees Disconnected;
           \* the dispatcher ends the connection on the protocol error
           /\ IF pc[owner] = "AwaitAck" THEN Finish(owner, "Disconnected")
                                       ELSE UNCHANGED <<pc, res>>
           /\ dispatcher' = "Stopped"
           /\ UNCHANGED <<waiters, delivered>>

PktAck(a) ==
  \/ /\ queue_order = <<>>
     /\ CloseWhileBorrowed
  \/ /\ queue_order # <<>> /\ Head(queue_order) # a.id
     /\ CloseWhileBorrowed
  \/ /\ queue_order # <<>> /\ Head(queue_order) = a.id
     /\ AckInOrder(a)

-----------------------------------------------------------------------------
(* The environment: the peer and the dispatcher's read loop.               *)

(* The peer acks the oldest packet it owes an ack for.                     *)
PeerAck ==
  /\ Running
  /\ inbox # <<>>
  /\ PktAck(Head(inbox))
  /\ inbox' = Tail(inbox)

(* The peer sends any other ack: out of order, of the wrong kind, a        *)
(* duplicate or one for a packet it never got.                             *)
PeerBadAck(a) ==
  /\ "badAck" \in EnvEvents
  /\ Running
  /\ inbox # <<>> => a # Head(inbox)
  /\ PktAck(a)
  /\ UNCHANGED inbox

(* The connection ends for a reason of its own (EOF, keepalive).           *)
Disconnect ==
  /\ "disconnect" \in EnvEvents
  /\ Running
  /\ dispatcher' = "Stopped"
  /\ UNCHANGED <<sinkVars, taskVars, inbox>>

-----------------------------------------------------------------------------
Init ==
  /\ sink = TRUE
  /\ queue = [k \in Keys |-> NoTask]
  /\ vacant = <<>>
  /\ slabEnd = 0
  /\ queue_order = <<>>
  /\ waiters = <<>>
  /\ pc = [t \in Tasks |-> "Idle"]
  /\ kind = [t \in Tasks |-> "None"]
  /\ pid = [t \in Tasks |-> 0]
  /\ res = [t \in Tasks |-> "None"]
  /\ delivered = [t \in Tasks |-> NoAck]
  /\ dispatcher = "Running"
  /\ inbox = <<>>

Next ==
  \/ \E t \in Tasks : SendPublish(t) \/ SendSubscribe(t) \/ SendUnsubscribe(t)
  \/ \E t \in Tasks : SendAtMostOnce(t) \/ Resume(t) \/ Cancel(t)
  \/ Close \/ Ping \/ Disconnect
  \/ PeerAck
  \/ \E a \in Ack : PeerBadAck(a)

(* The executor polls every woken task, and the peer, while connected,     *)
(* acks what it received; users need not call, cancel or close.            *)
Fairness ==
  /\ \A t \in Tasks : WF_vars(Resume(t))
  /\ WF_vars(PeerAck)

Spec == Init /\ [][Next]_vars /\ Fairness

-----------------------------------------------------------------------------
(* Properties.                                                             *)

(* Every variable holds a value of its type, and a sender parked on the    *)
(* receive maximum or woken from it sends a packet that needs an ack (the  *)
(* AckType Resume stores in the slab).                                     *)
TypeOK ==
  /\ sink \in BOOLEAN
  /\ queue \in [Keys -> Tasks \cup {NoTask}]
  /\ vacant \in Seq(Nat)
  /\ slabEnd \in Nat
  /\ queue_order \in Seq(Ids)
  /\ waiters \in Seq(Tasks)
  /\ pc \in [Tasks -> PcStates]
  /\ kind \in [Tasks -> SendKinds]
  /\ \A t \in Tasks : pc[t] \in {"Parked", "Woken"} => kind[t] \in AckKinds
  /\ pid \in [Tasks -> 0..MaxPacketId]
  /\ res \in [Tasks -> Results]
  /\ delivered \in [Tasks -> Ack \cup {NoAck}]
  /\ dispatcher \in {"Running", "Stopped", "Panicked"}
  /\ inbox \in Seq(Ack)

(* Every id in queue_order names an occupied slab entry whose task was     *)
(* given that id, and no id is queued twice: the unreachable!() in pkt_ack *)
(* is unreachable and the ids awaiting an ack are distinct, however        *)
(* senders, cancellations, closes and bad acks interleave.                 *)
OrderTracksSlab ==
  /\ \A i, j \in 1..Len(queue_order) : queue_order[i] = queue_order[j] => i = j
  /\ \A i \in 1..Len(queue_order) :
        /\ queue[queue_order[i] - 1] # NoTask
        /\ pid[queue[queue_order[i] - 1]] = queue_order[i]

(* The Ack a sender's one-shot receives carries the sender's own packet id *)
(* and kind (so SubscribeBuilder::send's pkt.subscribe() never panics).    *)
AckCorrelation ==
  \A t \in Tasks :
     delivered[t] # NoAck => delivered[t] = [id |-> pid[t], kind |-> kind[t]]

(* While the connection runs, queue_order holds exactly the ids the peer   *)
(* owes acks for, in the order it got them, and each slab entry expects   *)
(* the kind the peer will send: a peer that acks in order is never taken  *)
(* for a protocol violation.                                               *)
InOrderAcksAccepted ==
  Running =>
    /\ Len(queue_order) = Len(inbox)
    /\ \A i \in 1..Len(inbox) :
          /\ queue_order[i] = inbox[i].id
          /\ queue[inbox[i].id - 1] # NoTask
          /\ kind[queue[inbox[i].id - 1]] = inbox[i].kind

(* The refinement mapping to AckQueue: the owners of the slab entries     *)
(* queue_order names, in order; the tasks given a packet id; the tasks     *)
(* whose one-shot received an ack.                                        *)
AckOwners  == [i \in 1..Len(queue_order) |-> queue[queue_order[i] - 1]]
SentTasks  == {t \in Tasks : pid[t] # 0}
AckedTasks == {t \in Tasks : delivered[t] # NoAck}

AQ == INSTANCE AckQueue WITH flight <- AckOwners, sent <- SentTasks,
                             acked <- AckedTasks

(* However senders, wake-ups, cancellations, closes and good or bad acks   *)
(* interleave, the sink behaves as AckQueue: send_at_least_once and the   *)
(* builders' send queue a task once, pkt_ack answers or abandons the      *)
(* oldest request, and only its task's one-shot receives the ack, once.   *)
AckQueueRefinement == AQ!Spec

(* queue_order is a FIFO of distinct ids: a step leaves it alone, pops the *)
(* id pkt_ack matched at its head, or appends the id of a packet just sent *)
(* that is not already awaiting an ack -- the order in which MQTT 3.1.1    *)
(* (4.6) has the peer acknowledge QoS 1 packets, and the order pkt_ack     *)
(* checks them in.                                                         *)
OrderStep ==
  \/ queue_order' = queue_order
  \/ queue_order # <<>> /\ queue_order' = Tail(queue_order)
  \/ \E id \in Ids : /\ \A i \in 1..Len(queue_order) : queue_order[i] # id
                     /\ queue_order' = Append(queue_order, id)

OrderFifo == [][OrderStep]_queue_order

(* The slab never holds more ack channels than the peer's receive maximum *)
(* (spec 3: |in_flight| <= receive_maximum).                               *)
InFlightWithinCap == QueueLen <= Cap

(* No sender future panics, in particular not at the                       *)
(* inner.sink.as_ref().unwrap() reached after a wait.                      *)
NoSenderPanics == \A t \in Tasks : pc[t] # "Panicked"

(* pkt_ack reports an out-of-order or unsolicited ack as PacketIdMismatch *)
(* rather than panicking the dispatcher (spec 4.3, scenario 4).            *)
DispatcherNeverPanics == dispatcher # "Panicked"

Pending == {"Parked", "Woken", "AwaitAck"}

(* Every sender that started waiting, for a slot or for its ack, is       *)
(* eventually resolved (spec 3: parked waiters and pending acks are        *)
(* ultimately released).                                                   *)
SendsResolve == \A t \in Tasks : pc[t] \in Pending ~> pc[t] \notin Pending

=============================================================================
