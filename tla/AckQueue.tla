------------------------------- MODULE AckQueue -------------------------------
(***************************************************************************)
(* What MqttSink promises the tasks that send packets needing an ack       *)
(* (PublishBuilder::send_at_least_once, SubscribeBuilder::send,            *)
(* UnsubscribeBuilder::send): each task's request is queued at most once,  *)
(* requests are answered or abandoned oldest first, and a task's one-shot  *)
(* receives at most one ack, the one answering its own request.            *)
(***************************************************************************)
EXTENDS Naturals, Sequences

CONSTANT Tasks

VARIABLES
  flight,   \* the tasks whose request awaits an ack, oldest first
  sent,     \* the tasks whose request was given a packet id
  acked     \* the tasks whose one-shot received an ack

vars == <<flight, sent, acked>>

Init ==
  /\ flight = <<>>
  /\ sent = {}
  /\ acked = {}

(* A task that never sent before sends its request. *)
Send(t) ==
  /\ t \notin sent
  /\ sent' = sent \cup {t}
  /\ flight' = Append(flight, t)
  /\ UNCHANGED acked

(* The oldest request is answered, and its task gets its only ack. *)
Ack ==
  /\ flight # <<>>
  /\ Head(flight) \notin acked
  /\ acked' = acked \cup {Head(flight)}
  /\ flight' = Tail(flight)
  /\ UNCHANGED sent

(* The oldest request is abandoned: nothing reaches its task. *)
Drop ==
  /\ flight # <<>>
  /\ flight' = Tail(flight)
  /\ UNCHANGED <<sent, acked>>

Next == (\E t \in Tasks : Send(t)) \/ Ack \/ Drop

Spec == Init /\ [][Next]_vars

(* Each waiting task waits once, was sent and has no ack yet, and every   *)
(* task that received an ack had sent: no ack reaches a task twice or     *)
(* before its request.                                                     *)
QueueInv ==
  /\ flight \in Seq(Tasks)
  /\ sent \subseteq Tasks
  /\ \A i, j \in 1..Len(flight) : flight[i] = flight[j] => i = j
  /\ \A i \in 1..Len(flight) : flight[i] \in sent /\ flight[i] \notin acked
  /\ acked \subseteq sent

=============================================================================
