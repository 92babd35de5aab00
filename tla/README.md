# Dignus.ActorServer.Rust in TLA+

A TLA+ development kept beside the actor runtime `dignus-actor-core` and the
network crate `dignus-actor-network`. It models the runtime and the network
layer at the level of single atomic operations and critical sections, checks
them with TLC on small instances, and proves the safety of the core runtime
(mailbox queue, dispatcher, runner, scheduling handshake, ask system, registry
and shutdown) with TLAPS for every value of the constants.

## 1. The system

| part | source (`dignus-actor-core/src`) | state | operations |
|---|---|---|---|
| mailbox queue | `queues/mpsc_bounded_queue.rs` | a ring of slots with sequence numbers, two indices | `try_enqueue` (many producers), `try_dequeue`, `try_peek` (one consumer) |
| dispatcher | `dispatcher/actor_dispatcher.rs`, `signal.rs` | queue of scheduled actors, `signal_pending`, signal, `is_stopped`, thread handle | `schedule`, the worker loop, `dispose` |
| actor runner | `internals/actor_runner.rs`, `poll_driver.rs` | `lifecycle_state`, `is_scheduled`, mailbox, the slot of the pending receive with `is_active`, `is_poll_scheduled` | `enqueue_only`, `kill`, `execute`, `finalize_kill`, `wake_by_ref`, `arm`, `poll`, `clear` |
| actor system | `actor_system.rs`, `internals/registry.rs`, `actor_ref.rs` | slots with generations and owners, free list and live count, aliases, `is_disposed` | the spawns, post and kill through handles, lookup by alias, finalization, `dispose`, `shutdown_timeout` |
| ask system | `internals/ask_system.rs`, `ask_awaiter.rs`, `ask_reply_actor_ref.rs` | ring of timeout slots, an awaiter per ask, `is_stopped` | `ask`, reply, the sweeper, `stop`, the awaiter's `poll` |
| await support | `actor_await.rs`, `dispatcher/actor_yield_task.rs`, `object_pool/` | pool of yield tasks | switching dispatchers, continuing |
| dead letters, messages | `dead_letter/`, `messages/` | none of their own | a callback |

| part | source (`dignus-actor-network/src`) | state | operations |
|---|---|---|---|
| reactor, sessions | `reactor.rs`, `session.rs`, `send_buffer.rs`, `tcp_host.rs` | connections, pending writes, closes and streams per worker, outbound buffers | accept, read, flush, close, send, stop |
| session actors | `session_actor_host.rs`, `session_sender.rs`, `network_session_ref.rs` | session table, inbound bytes | accepted, data, disconnected |
| codec | `length_prefixed_decoder.rs`, `codec.rs`, `frame_encoder.rs` | none | encode, decode |
| transports | `tcp_transport.rs`, `tls_transport.rs` | sockets, TLS state | read, write |

How the parts interact: a post goes through an `ActorRef` (index and
generation) to the registry, which clones the runner out of its slot and calls
`enqueue_only`; the poster that finds the runner unscheduled schedules it on its
dispatcher. The dispatcher's thread executes runners: it polls a pending
receive, or finalizes a killed actor, or processes the mailbox. A receive that
returns a future blocks the mailbox until a waker schedules the runner again.
Finalization removes the actor from the registry and its name from the aliases;
shutdown kills what a snapshot of the registry holds, waits until the registry
is empty and stops the dispatchers. An ask registers an awaiter in the ring of
the sweeper and posts a message whose sender completes the awaiter. An actor
that joins a dispatcher leaves a continuation in a pooled yield task there,
which wakes it on that dispatcher's thread. A host runs one reactor thread per
worker: worker 0 accepts and hands streams out in turn, each worker reads,
decodes and posts to the session's actor; other threads append to a session's
outbound buffer, queue its token and wake the reactor, which flushes and closes.

What is hard here: every hand-over is lock-free or spans several critical
sections; a runner can be scheduled by posters, killers, wakers and completions
at once; flags are read before and written after the state they summarise;
slots are reused while handles to them are in use; shutdown runs against
spawns, posts and other shutdowns; panics leave locks poisoned.

## 2. Modules

| module | models | refers to |
|---|---|---|
| `Mailbox` | what a mailbox promises: a FIFO whose entries are claimed, made ready and taken | - |
| `MpscBoundedQueue` | the ring, one step per access to shared memory | implements `Mailbox` |
| `ActorDispatcher` | one worker thread, the threads that schedule and dispose | - |
| `ActorRunner` | one actor with posters, killers, wakers and dispatchers | uses `Mailbox`; a dispatcher is the number of its queue entries for this runner |
| `ScheduleHandshake` | posting and the end of `execute` on hardware with store buffers | - |
| `ActorSystem` | spawning, naming, routing, finalizing, shutting down | a runner is its life cycle, `is_scheduled` and its place in the dispatcher's queue |
| `AskSystem` | awaiters, repliers, the sweeper, stop | - |
| `ActorAwait` | joining a dispatcher, yield tasks and their pool | composes with `ActorDispatcher`, whose actions it uses unchanged |
| `Reactor` | workers, sessions, transports, session actors, the host | a client's data is "unread data" |
| `SessionInbound` | decoding what arrives, `on_data` | operators checked against a reference |
| `MpscBoundedQueueProofs`, `ScheduleHandshakeProofs`, `AskSystemProofs` | inductive invariants and theorems | the module of that name |
| `ActorDispatcherProofs` | the dispatcher's inductive invariant and theorems, and those of join on it | `ActorDispatcher`, `ActorAwait` |
| `ActorRunnerInv`, `ActorRunnerProofs` | inductive invariant and its first half; second half and theorems | `ActorRunner` |
| `ActorSystemInv`, `ActorSystemProofs` | inductive invariants and what needs no counting; the rest and theorems | `ActorSystem` |
| `MC...` | values for TLC | |

Conventions. A thread is a program counter; a label names the next access to
shared state, and an action carries the name of the source's operation or
variable. Locals that matter after the step are variables indexed by thread.
Variables called "history" are read by no guard. Operators whose names end in
`_Something` and whose comments begin with "Mutant" are wrong variants of the
definition that follows them; they are used by no specification and document
which mistake a property catches.

`MpscBoundedQueue`: `producer_index`, `consumer_index`, `sequence` and `data`
are the fields; a moved-out or unwritten cell is `Uninit`. `TryEnqueue` starts a
call, `LoadPosition`, `LoadSequence` and `CompareExchange` are the loop,
`WriteItem` and `Publish` its end; `TryDequeue` to `AdvanceConsumer` are the
consumer. Capacity is any number of at least 2: the code's power of two only
turns `%` into a mask. Indices are unbounded: 64 bits are not used up.

`ActorDispatcher`: the two atomics, the queue under its mutex, the signal under
its own. The worker may call `schedule` and `dispose` while it executes a task.

`ActorRunner`: labels follow `execute`: pending receive (`pending_load`,
`poll_...`, `ready_...`, `failed_...`), mailbox loop (`lifecycle_load`,
`dequeue`, `running_load`, `receive`, `arm_...`), exit (`exit_load`,
`unschedule`, `peek`, `exit_swap`), finalization (`fin_...`, `on_kill`). The
actor's code is its outcomes: done, a future, a panic; a future becomes ready
when every waker has fired, or panics at any poll. `Home` says on which
dispatcher's thread a waker runs, which decides where `wake_by_ref` schedules.

`ScheduleHandshake`: each thread has a FIFO store buffer (x86-TSO). Plain and
Release stores enter it; loads look in it first and then in memory; swap,
compare_exchange and locking a mutex need it empty.

`ActorSystem`: the alloc mutex is a variable because `remove` and
`snapshot_live` take other locks under it; poisoning of the alloc mutex and of
the alias lock is modelled, with the panics it causes later, and so is a
panicking `on_kill`, which ends the dispatcher's thread. Of a runner it keeps what
finalization depends on: `lifecycle_state`, `is_scheduled`, its entries in
`scheduled_actors` and whether a receive is pending (`suspended`). `Kill` is the
source's `kill`: it marks the actor, swaps `is_scheduled` and queues the runner
only if it was clear, so that a kill between the last look of `execute` at
`lifecycle_state` (`Receive`, `Peek`) and its store (`Unschedule`) is lost here as
it is in `ActorRunner`. The compare_exchange and the swap are one step: what
another thread does between them it may as well do before or after both (an
`execute` that sees the mark finalizes the actor either way; one that clears
`is_scheduled` in between leaves the swap to queue it, as a later kill would; a
post it turns away may as well have met a full mailbox). There is no mailbox: where `execute` or a
post finds it empty, full or not empty, either may be the case. `Homes` places the
actors on dispatchers, `CalledOn` says which calls of `dispose` come from an
actor, and `Environment` what users and receives may do. `in_time` records the
actors that existed when shutdown began.

`AskSystem`: the deadline of an ask is the event `Expire`; a slot is chosen
nondeterministically because the code derives it from an address.

`ActorAwait`: the entries of the dispatcher are a continuation ("join"), the
runner it wakes ("poll") and another actor's continuation ("yield"). Of the
dispatcher the actor comes from, only its thread and the polls queued there are
kept.

`Reactor`: `reactor[w].pc` follows `run` (`event`, `accept`, `incoming`, `flush`,
`close`, `on_data`, `flush_read`, `flush_writable`). Readiness is edge triggered.
Bytes are numbered as they are sent. The two transports differ in `Plain`,
`Cipher` and `Plaintext`: TLS moves bytes into the connection first, and the
first data it reads completes the handshake. `Environment` names what clients do
and which calls may fail. `reactor[w].due` is a history: the last byte of each
session whose token was queued when the worker began the present round of taking
streams, writes and closes.

`SessionInbound`: a prefix has `PrefixSize` bytes of `Base` values each, 4 and
256 in the code. The reference `Framed` is defined from the encoder, not from
the decoder.

## 3. Checks

All runs use `-workers 2`; the longest take two to three minutes, on a busy machine more. Deadlock
checking is off throughout: the instances stop when their mails, tasks, spawns,
asks or bytes are used up.

| run | instance | shows |
|---|---|---|
| `queue` | 2 producers, 4 items, 2 slots | `RefusedOnlyWhenFull`. `ClaimedIsDelivered`. `ImplementsMailbox`. `RingInv`: the invariant of the proof, which contains `TypeOK` and `FifoDelivery` and implies `SlotsExclusive` (unsynchronised accesses to a slot never meet) |
| `dispatcher` | `ActorAwait`: 2 callers and the worker, 3 entries | `NoLostSignal`, `ScheduledIsExecuted`, `DisposeReturns`, `ContinuationKept`, `JoinCompletes`. `DispatcherInv`: the invariant of the proof, which contains `TypeOK` and `FifoExecution` and implies `AtMostOneTaskAfterStop` |
| `runner` | 1 poster, 3 mails, capacity 2, 1 killer, 2 wakers, 1 dispatcher | `PendingReceiveStopsActor`, `MailNotStranded`, `WakeNotLost`, `KilledOnce`, `AcceptedIsReceived`, `KillCompletes` |
| `runner_two_dispatchers` | 2 dispatchers, a waker on each | `OneActorCall` is violated |
| `handshake` | 2 posters, 4 mails | `ScheduledOnce`, `NextPostSchedules` |
| `handshake_stranded` | 2 posters, 2 mails | `PostedIsProcessed` is violated |
| `system_safety` | 3 spawns, 2 of one name, 2 slots, 1 user, 2 closers | `SlotsAccounted`, `HandlesUnique`, `HandleReachesOwnActor`, `AliasFindsActor`, `ShutdownFinalizesActors` |
| `system_shutdown` | 2 unnamed spawns, a dispatcher each, 1 user that posts and kills, receives that stay pending or panic, 1 closer outside and 1 that is an actor | `ShutdownCompletes` |
| `ask` | 2 asks, 1 replier, 1 slot | `FirstCompletionStands`, `CompletionWakes`, `TimeoutTracked`, `AskCompletes` |
| `reactor_session` | 1 worker, 1 connection over TCP or TLS, 1 sending thread, 4 bytes; clients send and reset | `BytesInOrder`, `ClosedForCause`, `SentBeforeClose`, `SentIsWritten`, `EndedIsKilled`, `WorkerWaits` |
| `reactor_pool` | 2 workers, 2 TCP connections, nobody sends; half-close, shutdown, failing poll, accept, register and spawn | `HostOkClosedAll`, `ConnectedIsServed`, `ShutdownReturns` |
| `inbound` | streams of up to 7 bytes of 2 values, prefix of 2, frames up to 2 | `PostsEncoded`, `ClosesOnCorrupt`, `BufferBounded` |

`TypeOK` is part of the inductive invariants and proved, for six of the modules;
`ActorAwait`, `Reactor` and `SessionInbound` state no type invariant.

Why the bounds are enough to be interesting. Two slots are lapped twice by four
items, so that a producer can hold a position that is a lap old. Three entries and
two callers give a batch, an arrival during the drain and overlapping
disposals. Three mails against capacity 2 fill the mailbox, and two wakers let
one be refused while the other's poll is under way. Three spawns into two slots
reuse a slot, fill the registry and collide on a name. In `system_shutdown` two
actors without names can both be spawned in time, and a post, a user's kill and
the kill of the shutdown meet one `execute` in every order. Without the exception
for late spawns, for actors that wait for themselves, for pending receives or for
lost kills, TLC finds a counterexample to `ShutdownCompletes` on this instance; the
lost race for a name and the dispatchers that end are met only in
`system_safety`. One slot makes the two
asks collide in `ask`, and the exceptions of its properties are reached; two asks
tracked side by side in different slots are not explored. `runner` has one
poster, so that posters racing each other are met only in `handshake` and
`queue`. A socket with room for one byte cuts every send of two short, a second send is
appended to a partly written buffer or refused, and two sends overflow what the
TLS connection buffers. Seven bytes hold two frames and part of a
third, cut anywhere. `reactor_session` has no half-close: with it the instance
takes more than twice as long, and it is left to `reactor_pool`, where nobody
sends. Generations count to
16 and do not wrap in these runs. Symmetry is used only in runs without
liveness properties, over sets whose members nothing tells apart.

Fairness. A thread that is inside an operation goes on (weak fairness of its
steps): these are operating system threads. Nobody has to begin a post, a kill,
a spawn, a reply or a shutdown. Beyond this, the dispatcher's fairness assumes
that what it executes returns, the runner's that the events a receive waits for
happen (the repository's documentation leaves a receive that never completes to
the actor; in `ActorSystem` a pending receive need not be resumed), the ask system's that time passes, and the reactor's that a client
which stays connected reads. `PollPanics` and the failing
outcomes are not fair: they may happen, and need not.

### What the violated properties show

* `runner_two_dispatchers`. `wake_by_ref` schedules the runner on the waking
  thread's dispatcher. With wakers on two dispatchers both execute one runner,
  and the flags of the poll driver do not exclude them from each other. The
  runner's other properties are therefore checked for one dispatcher, and proved
  for any number of them on the condition that excludes this (`WokenAtHome`).
* `handshake_stranded`. The two sides of the scheduling handshake store, then
  load the other's location, without a sequentially consistent fence. Each can
  miss the other's store, and the mail waits for the next post.
  `NextPostSchedules` shows that the next post recovers it.

### Known windows

Properties that hold only outside a window say so in their formula. These are
the windows; what happens inside one is what the code does.

* `KillCompletes` (`kill_missed`). `execute` reads `lifecycle_state` for the last
  time, then clears `is_scheduled`. A kill in between finds it set and schedules
  nothing; with an empty mailbox nobody does, and `dispose` waits for ever.
* `AskCompletes`, `TimeoutTracked` (`overwritten`, `late`). A slot that is taken
  is overwritten, and the ask that held it has no timeout; an ask that passed
  the look at `is_stopped` before `stop` emptied the ring has none either.
* `ShutdownCompletes` (`Disturbed`, `SelfWait`, `KillLost`, `suspended`). A spawn that loses the race for
  its alias panics after it has reserved a slot, which is counted as live for
  ever. A spawn that has passed `throw_if_disposed` is missed by the snapshot;
  it can even commit its actor after `dispose` returned. A poisoned lock or a
  panicking `on_kill` ends a dispatcher. An actor that calls `dispose` waits for
  itself. A receive that never completes keeps its actor. The kill of the shutdown
  itself can fall into the window of `KillCompletes`: `dispose` then waits until a
  post that was already under way schedules the actor, or for ever.
* `JoinCompletes` (`coalesced`, `is_stopped`). When another wake has put a poll
  on the origin, the continuation's wake is refused and that poll leaves the
  actor pending. A stopped dispatcher drops the continuation.
* `SentBeforeClose`. What was queued when the reactor began its round is handed to
  the transport before the close, or the socket was full. A send queued after
  `flush_pending` took its tokens is overtaken by a close queued before
  `close_pending` takes its own, which is why the property speaks of `due`.
* `SentIsWritten`. A session disposed during `send` may report Success for bytes
  nobody writes.
* `WorkerWaits`. A TLS session with more to send than the connection buffers
  before the handshake keeps the reactor busy. Clients that never stop sending
  are excepted too.
* `ConnectedIsServed`. A host being stopped, or with a failed worker, may leave a
  stream in a queue nobody takes from.
* `PostsEncoded` (`restarted`). A corrupt length met on the fast path is
  forgotten; data read before the close is decoded from its start.

## 4. Proofs

`MpscBoundedQueueProofs` assumes a capacity of at least 2 and that `Uninit` is
not an item; producers and items are arbitrary sets. `RingInv` is inductive.
The safety properties are not by themselves: `FifoDelivery` says nothing of the
slots, so that a step of the consumer could deliver anything. `RingInv` adds
what the slots hold: the positions from the first unreleased one up to a lap
later use every slot once; `producer_index` splits them into free ones, whose
sequence number is the position itself and whose cell is empty, and claimed
ones, whose number is the position or one more and whose cell holds the claimed
item in the latter case; a producer between claim and publication owns its
position alone; a producer's older position is never ahead of the index.
`RingInvariant` proves it step by step; the theorems `TypeCorrect`,
`SlotAccessExclusive`, `DeliveryIsFifo` follow, `RefusalMeansFull` uses it for
an action property, and `QueueImplementsMailbox` shows the refinement, with the
successful compare_exchange as the claim, the publication as the making ready
and the release of the slot as the taking.

`ActorDispatcherProofs` assumes that the worker is not a caller.
`DispatcherInv` is inductive: `signal_pending` is a promise that somebody wakes
the worker or that it is on its way to clear the flag; a filled queue is covered
by that promise, by a thread about to renew it, or by a worker that will look
again; executed, batch and queue together are the accepted tasks; a worker
between two looks at the stop flag may begin one task. `SignalNotLost`,
`ExecutionIsFifo`, `StopIsPrompt` and `DispatcherTypes` follow.

The same module treats the composition with `ActorAwait`, whose constants are
three different entries, a callback value that is none of them and a caller for
the origin. `AwaitImplementsDispatcher`: every behaviour of the composition is
one of the dispatcher, with the same variables, as every step of an awaiter or a
yield task is a step of the dispatcher or leaves it alone. So
`AwaitKeepsDispatcher` has the dispatcher's properties of the composition without
a new proof. `ContinuationIsKept` needs more than where the continuation is while
it waits. `OnceInv`: a task is with nobody, with one pushing thread, or at one
place among the accepted ones, so that a continuation that runs waits nowhere
else, which takes the order `DispatcherInv` gives. `CarryInv`: the pool holds
different yield tasks without a callback, a waiting continuation is in its yield
task, and a running one's yield task is not in the pool until it recycles itself.

`ScheduleHandshakeProofs` assumes that the dispatcher is not a poster.
`ScheduledOnce` is a bound on a sum and says nothing of the flag, so that a swap
could find it clear at any time. `HandshakeInv` makes the sum exact: it is 1
while `is_scheduled` is set in memory and the dispatcher's store buffer is empty,
and 0 otherwise; posters never buffer a store to the flag, and the dispatcher
buffers at most the one that clears it, which has reached memory before its next
swap, push or execution. `RunnerScheduledOnce` and `NextPostCanSchedule` follow.

`AskSystemProofs` assumes that askers, repliers, sweeper and stopper are
different threads. `AskInv` adds to the two properties that a waiting asker
without a result has left its waker, that an awaiter is alive until it is
dropped, and that an ask is tracked from the moment its slot is written and not
only when it waits: `Poll` would otherwise begin a wait nobody tracks. The
hardest step is the sweeper's scan, which takes due asks out of the ring while
slots behind and before it are written. `FirstCompletionIsFinal` is an action
property.

`ActorRunnerInv` and `ActorRunnerProofs` assume that the four kinds of threads
are disjoint, and the theorems are about actors with `WokenAtHome`: no waker of
the actor runs on the thread of a dispatcher that is not the actor's. The
condition is needed; without it TLC violates `OneActorCall`. Under it there may
be any dispatchers, posters, killers, wakers and mails, and any capacity.
`RunnerInv` says where the owner's thread may be while a receive is pending
(`PendingInv`) and after the actor was stopped (`KillInv`), and for each mark
that makes a caller go away without scheduling anything which step it stands
for: `is_poll_scheduled` for a poll that will clear it (`WakeInv`),
`is_scheduled` for a look at the mailbox (`ScheduleInv`). A mail that is not
ready has a poster about to make it ready, and no mail is in two places
(`MailInv`). The properties themselves speak of quiet states only and are far
from inductive.

`ActorSystemInv` and `ActorSystemProofs` assume a registry of at least one slot
and at least one generation value, and that nobody is called `Nobody`.
`SystemInv` is inductive for any, even infinitely many, spawns: held and free
slots partition what was handed out (`SlotInv`), `live` is the number of holders
(`LiveInv`), a slot is emptied only by the actor's own dispatcher after the actor
was stopped (`LifeInv`), a queued or executed runner is a spawned actor of that
dispatcher (`ExecuteInv`), handles in use and under names were made by `reserve`
(`UserInv`), and whoever got past the wait saw no actor that was spawned in time
(`ShutdownInv`). `SlotsAreAccounted` and `ActorsFinalizedFirst` follow, also when
generations wrap around. `NameInv` needs `FewSpawns`, 2 x spawns < generation
values: a slot's generation changes twice for every actor that has it, and when
it comes back to an earlier value a kept handle names another actor. With 2^32
values this is 2^31 spawns of one system. The bound enters the invariant itself
(`BoundInv`): a slot's generation is at most twice the number of actors born so
far, and one less while it is its holder's. `HandlesAreUnique` follows;
`HandleReachesItsActor` because the holder of a slot whose generation is the
handle's is the handle's actor; and `NameFindsItsActor`, which needs it: two
actors of one name whose finalization is not over would have one handle.

Only model-checked:

* all liveness properties (`ClaimedIsDelivered`, `ScheduledIsExecuted`,
  `DisposeReturns`, `JoinCompletes`, `AcceptedIsReceived`, `KillCompletes`,
  `ShutdownCompletes`, `AskCompletes`, `SentIsWritten`, `EndedIsKilled`,
  `WorkerWaits`, `ConnectedIsServed`, `ShutdownReturns`): the prover does not
  treat fairness and ENABLED;
* everything about `SessionInbound`: its decoding loop is a recursive function of
  the data, and what it computes needs an induction the prover cannot do;
* so far the safety of `Reactor` (`BytesInOrder`, `ClosedForCause`,
  `SentBeforeClose`, `HostOkClosedAll`).

The inductive invariants that no run lists (`HandshakeInv`, `AskInv`,
`RunnerInv`, `SystemInv`, `NameInv`, `OnceInv`, `CarryInv`) hold on the instances
of the runs `handshake`, `ask`, `runner`, `system_safety` and `dispatcher` too: a
module that extends the run's MC module and the module of the invariant is enough
to check one with TLC.

## 5. Not modelled

The rounding of capacities and the queue's `Drop`; the overloads of spawn that
choose defaults; `ActorContext`, whose cells are set once; `NetworkSessionRef::kill`,
which nothing in the repository calls; TLS records, certificates and the
handshake's own bytes; a bind that fails before any thread runs. Dead letters and
message types change no state of the runtime; a panic of the dead letter callback
is left out. No property states that the answers to a half-closing client are
lost, or that the written part of a `SendBuffer` grows under constant load; both
are listed as hazards. `ActorRunner` and `ActorSystem` use sequentially
consistent interleavings; the one pair of locations where the weaker memory
matters is `ScheduleHandshake`'s.

## 6. Plan

1. Proofs: `BytesInOrder`, `HostOkClosedAll`.
2. Composition: the reactor's session actors with `ActorSystem`.
3. Capacity rounding as a recursive function.
