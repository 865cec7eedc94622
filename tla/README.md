# TLA+ models of actix-mqtt

This directory holds TLA+ models of the server-side MQTT engine under `src/`.
It also holds the TLC configurations that model-check the models on small
instances, and TLAPS proofs, for every value of the constants, of type
correctness, of the sink's ack bookkeeping, of the router's alias property, and
of the service's result invariant and its refinement of an abstract
connection specification.

## The system

The repository has four parts under `src/src/`. There is also one part it
relies on that is not in this repository.

| part | source | state | operations |
|---|---|---|---|
| v3 sink | `v3/sink.rs` | `MqttSinkInner`, shared by `Rc<RefCell<..>>` between the dispatcher and every handler that holds an `MqttSink`. It holds the outbound sender `sink`, the receive maximum `cap`, the slab `queue` of ack one-shots, `queue_order` of packet ids in send order, and the FIFO `waiters` of senders parked on `cap`. | `close`, `ping`, `send_at_most_once`, `send_at_least_once`, `SubscribeBuilder::send`, `UnsubscribeBuilder::send`, `pkt_ack` |
| v3 codec | `v3/codec/codec.rs` | `DecodeState` (`FrameHeader` or `Frame(FixedHeader)`) and `max_size` | `decode` (one call per arrival of bytes), `encode` |
| v5 router | `v5/router.rs` | the handler services and the topic-alias table | `poll_ready`, `call`, factory `new_service` |
| service builders | `service.rs` | the handshake future, its delay and the dispatcher configuration | `call` of the two server services |
| dispatcher | not in `src/` | the framed read/write loop, keepalive and shutdown | specified in `spec.md` only |

How the parts interact:

- A handler's future calls the sink's send methods.
- Each send puts a packet on the dispatcher's outbound channel (`sink`).
- The dispatcher writes the packet through the codec.
- For every inbound PUBACK, SUBACK or UNSUBACK the dispatcher calls `pkt_ack`.
- `pkt_ack` resolves the sender's one-shot and wakes one parked sender.

Everything runs on one single-threaded executor. A task runs without
interruption between two await points. The concurrency is therefore the
interleaving of whole steps between awaits, not of individual instructions.

The sink's send paths have two awaits:

- the wait for a waiter slot (`rx.await`, sink.rs:244);
- the wait for the ack (sink.rs:271).

The code holds the RefCell borrow only between awaits.

## Modules

### `MqttSink.tla`: the v3 sink (status: modelled)

Constants:

- `Tasks`: sender tasks, each of which sends one packet.
- `Cap`: `cap`, the receive maximum.
- `MaxPacketId`: `u16::MAX`, scaled down.
- `OverflowChecks`: whether the build panics on usize underflow.
- `EnvEvents`: which environment events may happen: `close`, `ping`, `disconnect`, `cancel`, `badAck`.

Variables and how they correspond to the code:

| variable | code |
|---|---|
| `sink` | `inner.sink.is_some()` |
| `queue` | the slab, mapping key to the task whose ack one-shot it holds (packet id = key + 1) |
| `vacant`, `slabEnd` | the slab's LIFO free list and `entries.len()`, so that key reuse is exactly the crate's |
| `queue_order`, `waiters` | the two `VecDeque`s |
| `pc` | where each task's future is suspended: Idle, Parked, Woken, AwaitAck, Done, Dropped or Panicked |
| `kind`, `pid`, `res`, `delivered` | what each task sends, the id it got, what its future returned, and the `Ack` its one-shot received |
| `dispatcher`, `inbox` | the environment: whether the dispatcher runs, and the acks the peer owes, in the order it got the packets |

Each action is one step of one task between awaits:

- **`SendPublish`, `SendSubscribe`, `SendUnsubscribe`** (all via `SendWithAck`). The call up to its first await. It checks `sink`, then either parks on `cap` or allocates. When `OverflowChecks` is TRUE and the slab is already over `cap`, the `cap - queue.len()` underflow panics.
- **`Resume`**. A woken waiter continues at sink.rs:248. It allocates without re-checking `cap` or `sink`.
- **`Allocate`**. Shared by the two actions above.
  - It inserts into the slab.
  - If the id would exceed `MaxPacketId`, it removes the entry again and returns `PacketIdNotAvailable`.
  - Otherwise it pushes the id onto `queue_order`. Then one of three things happens:
    - the packet goes out;
    - the send fails (`Disconnected`), and the entry stays behind;
    - `unwrap()` finds the sender gone, and the task panics.
- **`SendAtMostOnce`**. QoS 0: no bookkeeping.
- **`Close`, `Ping`** (via `TakeSender`). Take the sender.
- **`Cancel`**. The task's future is dropped while it is parked, woken or awaiting its ack. Its receivers go with it; the senders stay in the sink.
- **`PktAck`**. `pkt_ack`:
  - If `queue_order` is empty, or its head is not the ack's id, the step is `CloseWhileBorrowed`: `self.close()` under the live borrow. This panics the dispatcher, after the `pop_front`.
  - Otherwise the step is `AckInOrder`. It removes the slab entry and pushes its key on the free list.
    - If the kind matches, it delivers the ack. Then it pops waiters until one `send(())` succeeds: the first one still parked (`WakeIdx`, `Woken`), skipping dropped ones.
    - If the kind does not match, it returns `Unexpected`. The dispatcher stops and nobody is woken.
- **`PeerAck`** (the honest peer), **`PeerBadAck`** (any other ack) and **`Disconnect`**. These are the dispatcher, modelled from `spec.md`.

What is abstracted away:

- packet contents, topics, payloads and logging;
- the QoS 0 packet, which needs no bookkeeping;
- the ntex pools, whose channels are modelled by the `pc` of the receiving task.

`MC_MqttSink.tla` instantiates the model with model-value tasks and symmetry. It also adds a `Quiescent` stutter, so that a run where every task has finished is not reported as a deadlock.

### `AckQueue.tla`: what the sink promises its senders

`AckQueue` is the abstract specification of the sink. It has three variables:

- `flight`: the tasks whose request awaits an ack, oldest first;
- `sent`: the tasks given a packet id;
- `acked`: the tasks whose one-shot received an ack.

It has three actions:

- `Send(t)`: a task that never sent joins the back.
- `Ack`: the oldest request is answered, and its task, not yet acked, gets the ack.
- `Drop`: the oldest request is abandoned with nothing delivered.

`MqttSink` maps to it through `AQ == INSTANCE AckQueue WITH ...`:

- `flight` is `AckOwners`, the owners of the slab entries that `queue_order` names, in order;
- `sent` is `SentTasks`, the tasks with `pid # 0`;
- `acked` is `AckedTasks`, the tasks whose `delivered` is not `NoAck`.

The property `AckQueueRefinement == AQ!Spec` is checked by the `sink_safety` run. Here is how the sink's steps map:

- An admitted send is a `Send`.
- `pkt_ack` with a matching ack for a task still awaiting it is an `Ack`.
- `pkt_ack` with the wrong AckType, for a cancelled or finished owner, or panicking on the borrow after its `pop_front` is a `Drop`.
- Every other step is a stutter.

### `MqttCodec.tla`: the v3 frame decoder (status: partly)

Variables:

| variable | meaning |
|---|---|
| `sent` | the frames the peer sends (ghost) |
| `wire` | their bytes not yet read |
| `src` | the `BytesMut` handed to `decode` |
| `state` | `Codec.state`: `Header`, or a `Frames` record with the first byte and remaining length |
| `out` | what successive calls returned |
| `failed` | a decode error ends the connection |

Actions:

- **`Read(n)`** (spec-modelled). The transport appends the next `n` bytes of the stream. Every split of the stream into reads is explored.
- **`DecodeHeader`**. One call of `decode` in state `FrameHeader` that gets past the length field. It either:
  - fails `InvalidLength` (more than four length bytes);
  - fails `MaxSizeExceeded`, consuming nothing;
  - advances past the header and stops in `Frame`, for lack of body bytes;
  - or continues the loop into `FrameDone`.
- **`DecodeBody`**. A call in state `Frame` once the body is all there.
- **`FrameDone`** is the shared body step. It does `split_to(len)`, then `decode_packet`. A rejected first byte gives `Malformed`, and the state is left at `Frame`: on the header path `decode` set it before `decode_packet`, and the `?` returns before the reset. Calls that return `Ok(None)` without consuming anything are stutter steps and are left out.

Abstractions:

- **The length field** (`decode_variable_length`, in `src/utils.rs`, outside `src/`) is modelled from the spec: little-endian digits with a continuation flag, at most four bytes. The digit base 128 is scaled to `Radix = 2`, so lengths 2 and 3 already take two bytes.
- **Padded length fields.** The peer may pad the length field with zero digits, which the decoder accepts, or send a fifth byte.
- **`decode_packet`** is abstracted to its outcome. The reserved packet type 15 (first byte 240) is rejected; PUBLISH (48) decodes.

### `MqttRouter.tla`: the v5 router (status: partly)

Variables:

| variable | meaning |
|---|---|
| `aliases` | `RouterService.aliases`: alias -> `[idx, topic]` |
| `client` | the client's alias table, as MQTT 5 3.3.2.3.4 has it keep one (ghost) |
| `last` | the last publish, the service it reached and the topic that service saw |
| `calls` | publishes so far, bounded by `MaxCalls` |

`Call(req)` models `RouterService::call` (router.rs:185-206) as its four outcomes:

- a non-empty topic that a resource recognizes goes to that resource, and the alias is inserted if present;
- a non-empty topic that no resource recognizes goes to the default service, and the alias table is not touched;
- an empty topic with a known alias goes to the cached handler, with the cached topic;
- an empty topic with an unknown alias goes to the default service.

Abstractions:

- **ntex's path router** is abstracted to the constant `Route`. It maps each topic to the index of the first resource that recognizes it, or to `NoRoute`. The MC instance routes `a` to resource 0 and `c` to resource 1, and leaves `b` unrouted.
- **Not modelled.** `poll_ready` only combines the handlers' readiness and holds no state. The factory future runs once and ends with an empty table, which is `Init`.
- **Table updates.** `HashMap::insert` is `Insert`, a function over the old domain plus the alias. The ghost client table is updated by `ClientSets`, of the same shape but not mapped to code, so that a mutant of `Insert` cannot change the reference it is checked against.

### `MqttService.tla` and `MqttConnection.tla`: the service builders (status: modelled)

`MqttService` models `src/service.rs`. Constants: `Conns` (the io objects handed to `call`), `Timeouts` (the `disconnect_timeout` values a user may set) and `Builder2` (whether `FactoryBuilder2` is used, whose `call` also takes an `Option<Delay>`).

| variable | code |
|---|---|
| `svc` | which of `FactoryBuilder`, `FramedService`, `FramedServiceResponse`, `FramedServiceImpl{,2}` exists: Builder, Factory, Creating, Ready, or InitFailed (the factory's `InitError`) |
| `timeout` | `disconnect_timeout`, 3000 ms from `new`, copied into every stage |
| `stage` | where the async block of `call(c)` is: Idle, Handshake, Init, Dispatch, Done |
| `delay` | the deadline passed with `c`: None, Armed or Fired |
| `hs`, `init`, `disp` | the handshake future, `handler.new_service(..)` and the dispatcher: Pending, Ok or Err |
| `dtimeout` | the disconnect timeout the dispatcher was built with |
| `result` | what `call(c)`'s future returned |

Actions:

- **`SetDisconnectTimeout`, `Build`, `NewService`, `ServiceReady`.** The builder methods and `FramedServiceResponse::poll`.
- **`Call(c)`.** Boxes the async block with the handshake future and, for `FactoryBuilder2`, any deadline.
- **`PollSelect(c)`** (service.rs:492-523). A poll of the `select(delay, fut)` that `FramedServiceImpl2::call` builds when a deadline is given. The delay is polled first, so an elapsed deadline wins, and `call` returns `Ok(())` even if the handshake is also ready. Otherwise the setup future `Setup(c)` runs as far as its ready futures let it.
- **`PollPlain(c)`.** The same future without a deadline.
- **`Setup(c)`.** `handshake.await?`, then `handler.new_service(state).await?`, which may be ready at once, then `StartDispatcher`. Each `?` closes the connection with `Err`.
- **`HandshakeDone`, `InitDone`, `Expire`, `DispatcherEnd`.** The environment: the peer, the handler factory, the timer and the framed dispatcher (not in `src/`, spec-modelled).

`MqttConnection` is the abstract specification of what a connection is promised (spec 4.5):

- `phase` runs Idle, Setup, Serving, Closed;
- a deadline that has elapsed forbids `Serve`, and its connection closes with `Ok`;
- a setup failure closes with `Err`.

`MqttService` implements it under the mapping `Phase` (Handshake and Init are Setup, Dispatch is Serving, Done is Closed), with `delay` as the deadline and `result` as the outcome. A `PollSelect` step may pass through several stages at once, say from Handshake straight to Dispatch. It is still one abstract step, since Handshake and Init map to the same phase.

`MC_MqttService.tla` gives two connections as model values and `Timeouts = {0, 3000}`. It stutters once the factory has failed or every connection is done.

## Runs

| run | cfg | checks | result |
|---|---|---|---|
| sink_safety | `MC_MqttSink_safety.cfg` | `TypeOK`, `OrderTracksSlab`, `AckCorrelation`, the refinement `AckQueueRefinement`; 4 tasks, Cap 1, 2 ids, all environment events | pass, about 326k distinct states |
| sink_align | `MC_MqttSink_align.cfg` | `InOrderAcksAccepted`; overflow checks on | pass |
| sink_live | `MC_MqttSink_live.cfg` | `SendsResolve` with a connected honest peer | pass |
| sink_overrun | `MC_MqttSink_overrun.cfg` | `InFlightWithinCap` | violation (finding 1) |
| sink_resume_closed | `MC_MqttSink_resume_closed.cfg` | `NoSenderPanics` | violation (finding 2) |
| sink_bad_ack | `MC_MqttSink_bad_ack.cfg` | `DispatcherNeverPanics` | violation (finding 3) |
| sink_live_disconnect | `MC_MqttSink_live_disconnect.cfg` | `SendsResolve` | violation (finding 4) |
| sink_live_cancel | `MC_MqttSink_live_cancel.cfg` | `SendsResolve` | violation (finding 5) |
| router_alias | `MC_MqttRouter_alias.cfg` | `AliasFollowsRoutedClient`; 3 topics (one unrouted), 2 aliases, 4 publishes | pass |
| router_unrouted | `MC_MqttRouter_unrouted.cfg` | `AliasFollowsClient` | violation (finding 6) |
| service | `MC_MqttService.cfg` | `Refinement` (`MqttConnection!Spec` under `Phase`) and `SetupBounded` under `Fairness`; 2 connections, `FactoryBuilder2`, timeouts {0, 3000} | pass, about 2.3k distinct states |
| codec_order | `MC_MqttCodec_order.cfg` | `TypeOK`, `FramesInOrder`, `AllFramesDecoded`; 2 frames, bodies of 0-3 bytes, reads of 1-3 bytes, max_size 2 | pass, about 31k distinct states |

For the router, four publishes are enough to set an alias, re-assign it, and then use it alone. Symmetry over the two aliases is sound. The MC module stutters once `MaxCalls` is reached, so deadlock checking stays on.

For the codec:

- **Two frames** are enough for a frame boundary to fall inside a read.
- **Reads of 1-3 bytes** split every header and body in every possible place.
- **The first bytes (48, 240)** cannot be length bytes (0-3). A misaligned header therefore shows up as a type error.
- **Fairness.** `AllFramesDecoded` assumes weak fairness of the two decode steps and of `Read`. The framed transport calls `decode` after every read, and the peer's bytes keep arriving while the connection is open.

For the service, two connections let one be set up while the other is served or timed out, and every outcome of every future is enumerated. The run uses no symmetry, because it checks liveness. `ResultFaithful` is not in the run. The mutants of `PollSelect` that break it (the elapsed deadline reported as an error, the setup polled before the deadline) break `Refinement` as well. It is proved for every instance (see Proofs) and was checked by TLC on this instance while it was being proved. With `Builder2 = TRUE`, `Call` chooses between a deadline and none, so both `PollSelect` and `PollPlain` are exercised.

Why the bounds are enough:

- **Cap = 1 with 3-4 tasks** makes every sender after the first park. The woken-waiter race therefore needs only three tasks.
- **MaxPacketId = 2** (safety, align) makes both outcomes of the id check reachable within a few steps: keys are reused from the free list, and the `PacketIdNotAvailable` path is taken. A slab can exceed two entries only after a cap overrun. That happens with `OverflowChecks = FALSE` (safety), and with `OverflowChecks = TRUE` it panics instead (align).
- **Symmetry** over `Tasks` is sound: no property or action names a particular task.

### Fairness

`Fairness` is weak fairness of `Resume(t)` for each task, and of `PeerAck`.

- The executor polls every task whose waker was called; a woken future is not starved on a single-threaded executor. This justifies fairness of `Resume`.
- `PeerAck` stands for a connected peer that acks what it received. This is an assumption about the peer: the liveness question is whether the sink resolves every sender *if* the peer behaves.

Sends, cancellations and closes are user actions and get no fairness.

For the service, `Fairness` is weak fairness of `PollSelect(c)`, `PollPlain(c)` and `Expire(c)`:

- the executor polls a task whose future is ready;
- the timer wheel fires an elapsed `Delay`.

The peer, the handler factory and the dispatcher get none. `SetupBounded` therefore says that a deadline bounds the setup however long they take. A connection without a deadline may wait forever on the handshake; that is the hazard at service.rs:249, and no property claims otherwise.

### Findings

1. **Cap overrun** (sink.rs:248). A woken waiter does not re-check `cap`.
2. **Panic after close** (sink.rs:265, 328, 400). A woken waiter unwraps a `None` sink after `close()` or `ping()`.
3. **BorrowMutError in pkt_ack** (sink.rs:144). A mismatched or unsolicited ack makes `pkt_ack` call `close()` while it holds the borrow.
4. **Pending sends never fail after the connection ends** (sink.rs:40). The ack and waiter senders live in the shared `MqttSinkInner` and are never cleared. `spec.md` says they are failed with `Disconnected`.
5. **Lost wake-up** (sink.rs:132). A woken waiter dropped before it runs swallows the only wake-up.
6. **Alias not recorded for unrouted topics** (router.rs:189). The alias is inserted only inside the recognized branch. A publish on an unrouted topic with an alias leaves the alias unset, or still pointing at its previous topic. A later alias-only publish then reaches the default service with an empty topic, or the old resource with the old topic. MQTT 5 says the alias is set whatever the receiver does with the topic.

## Proofs

Seven modules hold proofs. Each theorem holds for all constants satisfying the module's `ASSUME`.

**`MqttSink_proofs.tla`** proves `THEOREM TypeCorrect == Spec => []TypeOK`. It assumes `SinkAssumptions`:

- `Cap \in Nat`;
- `MaxPacketId` is a positive natural;
- `OverflowChecks` is a Boolean;
- `NoTask \notin Tasks`.

`TypeOK` is inductive as it stands. Besides the types, it includes the relation "a parked or woken task has an AckType". The proof has one lemma per action, plus these helpers:

- `MoveType`, `FinishType`, `KindOfWaiting` and `TypeOKFromParts`;
- `LeastNat`, the least element of a nonempty set of naturals (from `NatLessThanWellFounded`), which makes the `CHOOSE` in `WakeIdx` well defined;
- `WakeIdxType`: the popped prefix of the waiter FIFO is within bounds, and the woken task was parked.

**`MqttSink_ack_proofs.tla`** proves `OrderTracksSlabHolds`, `AckCorrelationHolds` and the action property `OrderFifoHolds`. Neither invariant is inductive alone, because a sender that takes the key `NextKey` must find it free. The strengthening `IInv` adds:

- `SlabOwned`: an occupied key `k` belongs to a task whose id is `k + 1`;
- `Unsent`: an idle, parked or woken task has no id and has received nothing;
- `FreeList`: the free-list keys are distinct, below `entries.len()` and vacant, and every key at or past `entries.len()` is vacant.

TLC checked `IInv` on the `sink_safety` instance before it was proved. The main lemmas:

- `NextKeyFree`: the key `Slab::insert` hands out is free;
- `AllocateAcceptInv` and `AllocateRejectInv`: the two outcomes of the id check;
- `AckInOrderInv`: the owner of the acked entry has left the unsent states, and the freed key is not yet on the free list;
- `OneTaskStep`, `NoTaskStep` and `CloseWhileBorrowedInv`: the frame lemmas for the other steps.

`OrderFifoHolds` (`Spec => [][OrderStep]_queue_order`) comes from the same `IInv`. Its step lemma `NextOrder` splits into two cases:

- `AllocateOrder`: the id pushed back is fresh. It is `NextKey + 1`, that key is free by `NextKeyFree`, and every id in `queue_order` names an occupied entry by `OrderTracksSlab`.
- `PktAckOrder`: both branches of `pkt_ack` pop the front.

**`MqttSink_align_proofs.tla`** proves `InOrderAcksAcceptedHolds` under the hypothesis `NoTakeSender`, which excludes `close` and `ping`. This is the case the `sink_align` run checks. With `close` or `ping` the property is false (finding 2): a woken sender allocates after the sender was taken and panics. So the hypothesis describes the connections on which the property holds; it does not weaken the property.

The strengthening `AlignInv` is `IInv /\ sink = TRUE /\ InOrderAcksAccepted`. TLC checked it on the `sink_align` instance, with overflow checks on and off, before it was proved. The lemmas, one per action, are:

- `AllocateAlign`: a send appends the same id to `queue_order` and to the peer's inbox.
- `AckMatchAlign`: a matching ack pops both heads.
- `PeerBadAckAlign`: an ack other than the inbox head cannot match while the dispatcher runs, so it stops the dispatcher.
- `KindFrame`, `PktAckRunning` and the per-action `*Align` lemmas: the frame lemmas for the other steps.

**`MqttSink_queue_proofs.tla`** proves `ImplementsAckQueue == Spec => AckQueueRefinement` for all constants. Its strengthening `RInv` is `IInv /\ InQueueUnacked`: the task of an occupied slab entry has received no ack yet, because the `pkt_ack` that sends on its one-shot removes the entry in the same step. TLC checked `RInv` on the `sink_safety` instance, with overflow checks on and off, before it was proved.

The mapping has its own lemmas:

- `OwnersType`: `AckOwners` is a sequence of tasks.
- `MapFrame`: a step that leaves the slab, `queue_order`, the ids and the one-shots alone is a stutter.
- `PopOwners`: popping `queue_order` pops the oldest owner.
- `AppendOwner`: filling a free entry and pushing its id appends its task.

Each kind of step then has a step lemma that re-establishes `InQueueUnacked` and gives the abstract step:

- `QuietStep`: the steps that stutter;
- `AllocateRefines`: `Send`, or a stutter when the id is rejected;
- `CloseWhileBorrowedRefines`: `Drop`;
- `AckInOrderRefines`: `Ack` or `Drop`. The other occupied entries belong to other tasks, by `SlabOwned`, so their one-shots stay empty.

`NextRefinesQueue` combines them. `SinkQueueSafe` follows from `RInv` through `QueueInvOfSink`: in the sink, a task waits at most once, only tasks given an id wait or get an ack, and an acked task never waits again.

**`AckQueue_proofs.tla`** proves `QueueSafe == Spec => []QueueInv` for the abstract specification itself. `QueueInv` is inductive as it stands. The sink's `SinkQueueSafe` is proved directly rather than carried over through the instance, because tlapm does not pass the statement of a theorem cited through an `INSTANCE` to its backends.

No run checks `OrderFifo`, the FIFO discipline of `queue_order`. The refinement that `sink_safety` checks implies it on the mapped owners, and a push at the front, the mutant that breaks `OrderFifo`, breaks `AckQueueRefinement` as well. `OrderFifoHolds` proves `OrderFifo` for every instance.

**`MqttRouter_proofs.tla`** proves `AliasFollowsRoutedClientHolds`. The strengthening `Cached` says that every alias the client set on a routed topic is in the router's table with that topic and its resource.

**`MqttService_proofs.tla`** proves three theorems:

- `ResultFaithfulHolds`;
- `TypeCorrect`;
- `Implements == Spec => Refinement`, that `MqttService` implements `MqttConnection` under `Phase`.

The strengthening `ConnInv` relates, per connection, the stage, the dispatcher's result and the deadline:

- the result is set only when the connection is Done;
- a finished dispatcher's result is the connection's;
- a served connection's deadline has not fired;
- a fired deadline means the dispatcher never ran.

The refinement proof maps every step to an abstract step or a stutter (`NextRefines`). `SetupRefines` shows that a `Setup` step is a `Serve`, a `FailSetup` or no change of phase; `PhaseExcept` computes `Phase` after an `EXCEPT`.

Only model-checked:

- `InOrderAcksAccepted` when `close` or `ping` may be called. There it is violated (finding 2).
- Liveness (`SendsResolve`, `AllFramesDecoded`, `SetupBounded`). Liveness under fairness, and `ENABLED`, are out of the prover's reach and stay with TLC.
- The router's `AliasFollowsClient`, which is violated (finding 6).
- The codec's `TypeOK` and `FramesInOrder`. Both relate the decoded frames to the flattened byte stream (`FlattenSeq` of `SequencesExt`). A proof needs induction over the stream's length, which the provers cannot instantiate. Also, `SequencesExt` reaches the `RECURSIVE` definitions of `Folds`, which removes the SMT backend from any module that uses it.

## Plan

The remaining work, in order:

1. **`MqttCodec`**. Add `Encoder::encode`, with its packet-id check, composed with the sink's outbound packets.
2. **`MqttRouter`**. Compose it with the dispatcher's v5 publish path.
3. **Dispatcher.** A spec-modelled composition of the sink and the service: inbound classification, the outbound channel, and shutdown with its `disconnect_timeout`.
4. **Abstract specification of the router.** An alias map that follows the client, refined by `MqttRouter` on routed topics.
5. **Proofs.** Restate the codec's invariants over a non-recursive byte-stream function. The varint decoding would also need `VarLenValue(EncodeVarLen(l, n)) = l` for every `Radix`: nonlinear arithmetic with powers, which the SMT backend does not find without a lemma per digit.
