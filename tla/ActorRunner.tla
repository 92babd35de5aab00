---------------------------- MODULE ActorRunner -----------------------------
(***************************************************************************)
(* One actor: its runner, the driver of its pending receive and the        *)
(* threads around it (internals/actor_runner.rs, poll_driver.rs).          *)
(*                                                                         *)
(* Posters call enqueue_only and schedule_self, killers call kill,         *)
(* dispatchers execute the runner, and wakers are the threads that make    *)
(* the events happen a pending receive waits for.  A step is one atomic    *)
(* operation or one critical section, in the order of the code.            *)
(*                                                                         *)
(* Three components are used through what they promise:                    *)
(*  - the mailbox through the abstract Mailbox that MpscBoundedQueue       *)
(*    implements;                                                          *)
(*  - a dispatcher through the number of its queue entries that hold this  *)
(*    runner: ActorDispatcher executes every entry, one at a time.         *)
(*    Dispatchers are stopped only when no actor is left, so schedule      *)
(*    never drops the runner here;                                         *)
(*  - the actor's code through its outcomes: on_receive returns Done,      *)
(*    returns a future or panics; the future becomes ready when every      *)
(*    waker has made its event happen, or panics.  Looking at the events   *)
(*    and leaving a waker behind is one step, as AskAwaiter does it.       *)
(***************************************************************************)
EXTENDS Naturals, Sequences

CONSTANTS
  Items,        \* the mails that are posted, numbered; bounds a run
  NoItem,       \* a local that holds no mail yet
  Capacity,     \* the mailbox capacity
  Posters, Killers, Wakers, Dispatchers,
  Owner,        \* the dispatcher the actor was spawned on
  NoDispatcher, \* "not a dispatcher thread", "no waker left behind"
  Home          \* the dispatcher whose thread a waker runs on, or NoDispatcher

ASSUME RunnerAssumption ==
  /\ Items \subseteq Nat
  /\ Owner \in Dispatchers
  /\ NoDispatcher \notin Dispatchers
  /\ Home \in [Wakers -> Dispatchers \cup {NoDispatcher}]
  /\ Posters \cap (Killers \cup Wakers \cup Dispatchers) = {}
  /\ Killers \cap (Wakers \cup Dispatchers) = {} /\ Wakers \cap Dispatchers = {}

VARIABLES
  lifecycle_state, is_scheduled,
  is_active, is_poll_scheduled,  \* the atomics of PollDriver
  slot,         \* whether PollDriver::slot holds a future
  slot_lock,    \* the dispatcher inside the slot's mutex, or NoDispatcher
  mailbox, dequeued,             \* the state of Mailbox
  queue,        \* per dispatcher: its queue entries that hold this runner
  fired,        \* the events that have happened, for the current future
  registered,   \* per event: the dispatcher captured in the waker left behind
  pc,           \* where each thread is
  item,         \* the local actor_mail of enqueue_only and of execute
  target,       \* wake_by_ref's local dispatcher
  caller,       \* who called poll or kill: "pending" receive or mailbox "loop"
  unsent,       \* the mails nobody has posted yet
  received,     \* history: the mails on_receive was called with
  killed,       \* history: the number of on_kill calls
  kill_missed   \* history: kill found is_scheduled set at a runner that had
                \* already read lifecycle_state for the last time

driver == <<is_active, is_poll_scheduled, slot, slot_lock>>
events == <<fired, registered>>
mail == <<mailbox, dequeued>>
history == <<unsent, received, killed, kill_missed>>
locals == <<item, target, caller>>
vars == <<lifecycle_state, is_scheduled, driver, mail, queue, events, pc, locals,
          history>>

Threads == Posters \cup Killers \cup Wakers \cup Dispatchers

Box == INSTANCE Mailbox WITH entries <- mailbox, delivered <- dequeued

Init ==
  /\ lifecycle_state = "running"
  /\ is_scheduled = FALSE
  /\ is_active = FALSE
  /\ is_poll_scheduled = FALSE
  /\ slot = FALSE
  /\ slot_lock = NoDispatcher
  /\ Box!Init
  /\ queue = [d \in Dispatchers |-> 0]
  /\ fired = {}
  /\ registered = [w \in Wakers |-> NoDispatcher]
  /\ pc = [t \in Threads |-> "idle"]
  /\ item = [t \in Posters \cup Dispatchers |-> NoItem]
  /\ target = [w \in Wakers |-> Owner]
  /\ caller = [d \in Dispatchers |-> "loop"]
  /\ unsent = Items
  /\ received = << >>
  /\ killed = 0
  /\ kill_missed = FALSE

\* Thread t takes the step at label from and goes on at label to.
Step(t, from, to) == pc[t] = from /\ pc' = [pc EXCEPT ![t] = to]

\* ActorDispatcher::schedule with this runner
Schedule(d) == queue' = [queue EXCEPT ![d] = @ + 1]

-----------------------------------------------------------------------------
(* enqueue_only, followed by schedule_self when it returns true *)

\* mails are numbered in the order in which posters take them up
PostCheck(p, x) ==
  /\ x \in unsent /\ \A y \in unsent : x <= y
  /\ unsent' = unsent \ {x}
  /\ item' = [item EXCEPT ![p] = x]
  /\ Step(p, "idle", IF lifecycle_state = "running" THEN "post_claim" ELSE "idle")
  /\ UNCHANGED <<lifecycle_state, is_scheduled, driver, mail, queue, events, target,
                 caller, received, killed, kill_missed>>

\* try_enqueue, first half; a mail that finds the mailbox full is dropped
PostClaim(p) ==
  /\ \/ Box!Claim(item[p]) /\ Step(p, "post_claim", "post_ready")
     \/ Len(mailbox) = Capacity /\ Step(p, "post_claim", "idle") /\ UNCHANGED mail
  /\ UNCHANGED <<lifecycle_state, is_scheduled, driver, queue, events, locals, history>>

\* try_enqueue, second half
PostReady(p) ==
  /\ Step(p, "post_ready", "post_load")
  /\ \E k \in DOMAIN mailbox : mailbox[k].item = item[p] /\ Box!MakeReady(k)
  /\ UNCHANGED <<lifecycle_state, is_scheduled, driver, queue, events, locals, history>>

PostLoad(p) ==
  /\ Step(p, "post_load", IF is_scheduled THEN "idle" ELSE "post_swap")
  /\ UNCHANGED <<lifecycle_state, is_scheduled, driver, mail, queue, events, locals,
                 history>>

PostSwap(p) ==
  /\ Step(p, "post_swap", IF is_scheduled THEN "idle" ELSE "post_push")
  /\ is_scheduled' = TRUE
  /\ UNCHANGED <<lifecycle_state, driver, mail, queue, events, locals, history>>

PostPush(p) ==
  /\ Step(p, "post_push", "idle")
  /\ Schedule(Owner)
  /\ UNCHANGED <<lifecycle_state, is_scheduled, driver, mail, events, locals, history>>

-----------------------------------------------------------------------------
(* kill, called by a killer or by a dispatcher after a panic; publishing the
   dead letter that follows a panic changes no state of the runner *)

AfterKill(t) ==
  IF t \in Killers THEN "idle"
  ELSE IF caller[t] = "pending" THEN "reschedule" ELSE "exit_load"

KillCas(t) ==
  /\ Step(t, IF t \in Killers THEN "idle" ELSE "kill_cas",
          IF lifecycle_state = "running" THEN "kill_swap" ELSE AfterKill(t))
  /\ lifecycle_state' = IF lifecycle_state = "running" THEN "killing" ELSE lifecycle_state
  /\ UNCHANGED <<is_scheduled, driver, mail, queue, events, locals, history>>

\* Mutant: kill relies on a later execution to see the new state.
KillSwap_NoSchedule(t) ==
  /\ Step(t, "kill_swap", AfterKill(t))
  /\ UNCHANGED <<lifecycle_state, is_scheduled, driver, mail, queue, events, locals,
                 history>>

KillSwap(t) ==
  /\ Step(t, "kill_swap", IF is_scheduled THEN AfterKill(t) ELSE "kill_push")
  /\ is_scheduled' = TRUE
  /\ kill_missed' = (kill_missed \/ (is_scheduled /\ \E d \in Dispatchers : pc[d] = "unschedule"))
  /\ UNCHANGED <<lifecycle_state, driver, mail, queue, events, locals, unsent, received,
                 killed>>

KillPush(t) ==
  /\ Step(t, "kill_push", AfterKill(t))
  /\ Schedule(Owner)
  /\ UNCHANGED <<lifecycle_state, is_scheduled, driver, mail, events, locals, history>>

-----------------------------------------------------------------------------
(* An event happens and its waker is called: ActorRunnerWake::wake_by_ref *)

\* external: the thread that makes event w happen.  A waker on a dispatcher's
\* thread is part of something else that this dispatcher executes.  A waker
\* left behind by a future that has been dropped may still be called.
Fire(w) ==
  /\ slot \/ registered[w] # NoDispatcher
  /\ w \notin fired
  /\ Home[w] # NoDispatcher => pc[Home[w]] = "idle"
  /\ fired' = fired \cup {w}
  /\ registered' = [registered EXCEPT ![w] = NoDispatcher]
  /\ Step(w, "idle", IF registered[w] = NoDispatcher THEN "idle" ELSE "wake_load")
  /\ target' = IF registered[w] = NoDispatcher THEN target
               ELSE [target EXCEPT ![w] = IF Home[w] # NoDispatcher THEN Home[w]
                                          ELSE registered[w]]
  /\ UNCHANGED <<lifecycle_state, is_scheduled, driver, mail, queue, item, caller,
                 history>>

WakeLoad(w) ==
  /\ Step(w, "wake_load", IF is_active THEN "wake_mark" ELSE "idle")
  /\ UNCHANGED <<lifecycle_state, is_scheduled, driver, mail, queue, events, locals,
                 history>>

WakeMark(w) ==
  /\ Step(w, "wake_mark", IF is_poll_scheduled THEN "idle" ELSE "wake_push")
  /\ is_poll_scheduled' = TRUE
  /\ UNCHANGED <<lifecycle_state, is_scheduled, is_active, slot, slot_lock, mail, queue,
                 events, locals, history>>

WakePush(w) ==
  /\ Step(w, "wake_push", "idle")
  /\ Schedule(target[w])
  /\ UNCHANGED <<lifecycle_state, is_scheduled, driver, mail, events, locals, history>>

-----------------------------------------------------------------------------
(* execute: the pending receive, and PollDriver::poll *)

Execute(d) ==
  /\ queue[d] > 0
  /\ \A w \in Wakers : Home[w] = d => pc[w] = "idle"
  /\ Step(d, "idle", "pending_load")
  /\ queue' = [queue EXCEPT ![d] = @ - 1]
  /\ UNCHANGED <<lifecycle_state, is_scheduled, driver, mail, events, locals, history>>

\* Mutant: a pending receive does not keep the mailbox from being processed.
PendingLoad_Ignored(d) ==
  /\ Step(d, "pending_load", "lifecycle_load")
  /\ caller' = [caller EXCEPT ![d] = "pending"]
  /\ UNCHANGED <<lifecycle_state, is_scheduled, driver, mail, queue, events, item,
                 target, history>>

PendingLoad(d) ==
  /\ Step(d, "pending_load", IF is_active THEN "poll_clear" ELSE "lifecycle_load")
  /\ caller' = [caller EXCEPT ![d] = "pending"]
  /\ UNCHANGED <<lifecycle_state, is_scheduled, driver, mail, queue, events, item,
                 target, history>>

\* Mutant: poll leaves is_poll_scheduled as the last wake has set it.
PollClear_Kept(d) ==
  /\ Step(d, "poll_clear", "poll_lock")
  /\ UNCHANGED <<lifecycle_state, is_scheduled, driver, mail, queue, events, locals,
                 history>>

PollClear(d) ==
  /\ Step(d, "poll_clear", "poll_lock")
  /\ is_poll_scheduled' = FALSE
  /\ UNCHANGED <<lifecycle_state, is_scheduled, is_active, slot, slot_lock, mail, queue,
                 events, locals, history>>

PollLock(d) ==
  /\ slot_lock = NoDispatcher
  /\ \/ /\ slot
        /\ slot_lock' = d
        /\ Step(d, "poll_lock", "poll_check")
        /\ UNCHANGED is_active
     \/ /\ ~ slot
        /\ is_active' = FALSE
        /\ Step(d, "poll_lock", IF caller[d] = "pending" THEN "lifecycle_load" ELSE "dequeue")
        /\ UNCHANGED slot_lock
  /\ UNCHANGED <<lifecycle_state, is_scheduled, is_poll_scheduled, slot, mail, queue,
                 events, locals, history>>

\* Ready or panicked: the future is dropped before the mutex is released.
PollFinished(d, from, to) ==
  /\ Step(d, from, to)
  /\ slot' = FALSE
  /\ slot_lock' = NoDispatcher
  /\ UNCHANGED <<lifecycle_state, is_scheduled, is_active, is_poll_scheduled, mail, queue,
                 events, locals, history>>

PollPending(d) ==
  /\ Step(d, "poll_check", "poll_return")
  /\ fired # Wakers
  /\ registered' = [w \in Wakers |-> IF w \in fired THEN registered[w] ELSE d]
  /\ UNCHANGED <<lifecycle_state, is_scheduled, driver, mail, queue, fired, locals,
                 history>>

PollReady(d) ==
  /\ fired = Wakers
  /\ PollFinished(d, "poll_check", "ready_active")

PollPanics(d) == PollFinished(d, "poll_check", "failed_active")

PollReturn(d) ==
  /\ Step(d, "poll_return", "idle")
  /\ slot_lock' = NoDispatcher
  /\ UNCHANGED <<lifecycle_state, is_scheduled, is_active, is_poll_scheduled, slot, mail,
                 queue, events, locals, history>>

\* is_active.store(b)
StoreActive(d, from, to, b) ==
  /\ Step(d, from, to)
  /\ is_active' = b
  /\ UNCHANGED <<lifecycle_state, is_scheduled, is_poll_scheduled, slot, slot_lock, mail,
                 queue, events, locals, history>>

\* is_poll_scheduled.store(false)
StorePollIdle(d, from, to) ==
  /\ Step(d, from, to)
  /\ is_poll_scheduled' = FALSE
  /\ UNCHANGED <<lifecycle_state, is_scheduled, is_active, slot, slot_lock, mail, queue,
                 events, locals, history>>

\* the completion callback of a ready future, and the last step of a failed one
ScheduleSelf(d, from) ==
  /\ Step(d, from, "idle")
  /\ Schedule(Owner)
  /\ UNCHANGED <<lifecycle_state, is_scheduled, driver, mail, events, locals, history>>

PollEnds(d) ==
  \/ StoreActive(d, "ready_active", "ready_poll", FALSE)
  \/ StorePollIdle(d, "ready_poll", "ready_push")
  \/ ScheduleSelf(d, "ready_push")
  \/ StoreActive(d, "failed_active", "failed_poll", FALSE)
  \/ StorePollIdle(d, "failed_poll", "kill_cas")
  \/ ScheduleSelf(d, "reschedule")

-----------------------------------------------------------------------------
(* execute: the mailbox loop *)

LifecycleLoad(d) ==
  /\ Step(d, "lifecycle_load", CASE lifecycle_state = "killing" -> "fin_swap"
                                 [] lifecycle_state = "running" -> "dequeue"
                                 [] OTHER -> "idle")
  /\ UNCHANGED <<lifecycle_state, is_scheduled, driver, mail, queue, events, locals,
                 history>>

Dequeue(d) ==
  /\ \/ /\ Box!Take
        /\ item' = [item EXCEPT ![d] = mailbox[1].item]
        /\ Step(d, "dequeue", "running_load")
     \/ /\ ~ Box!HeadReady(mailbox)
        /\ Step(d, "dequeue", "exit_load")
        /\ UNCHANGED <<mail, item>>
  /\ UNCHANGED <<lifecycle_state, is_scheduled, driver, queue, events, target, caller,
                 history>>

\* the call of on_receive; a mail taken from the mailbox of a killed actor is dropped
RunningLoad(d) ==
  /\ Step(d, "running_load", IF lifecycle_state = "running" THEN "receive" ELSE "exit_load")
  /\ received' = IF lifecycle_state = "running" THEN Append(received, item[d]) ELSE received
  /\ UNCHANGED <<lifecycle_state, is_scheduled, driver, mail, queue, events, locals,
                 unsent, killed, kill_missed>>

ReceiveReturns(d) ==
  /\ \/ Step(d, "receive", "dequeue")    \* Done
     \/ Step(d, "receive", "arm_slot")   \* Pending
     \/ Step(d, "receive", "kill_cas")   \* panicked
  /\ caller' = [caller EXCEPT ![d] = "loop"]
  /\ UNCHANGED <<lifecycle_state, is_scheduled, driver, mail, queue, events, item,
                 target, history>>

ArmSlot(d) ==
  /\ slot_lock = NoDispatcher
  /\ Step(d, "arm_slot", "arm_active")
  /\ slot' = TRUE
  /\ fired' = {}
  /\ UNCHANGED <<lifecycle_state, is_scheduled, is_active, is_poll_scheduled, slot_lock,
                 mail, queue, registered, locals, history>>

Arm(d) ==
  \/ ArmSlot(d)
  \/ StoreActive(d, "arm_active", "arm_poll", TRUE)
  \/ StorePollIdle(d, "arm_poll", "poll_clear")

ExitLoad(d) ==
  /\ Step(d, "exit_load", IF lifecycle_state = "killing" THEN "fin_swap" ELSE "unschedule")
  /\ UNCHANGED <<lifecycle_state, is_scheduled, driver, mail, queue, events, locals,
                 history>>

Unschedule(d) ==
  /\ Step(d, "unschedule", "peek")
  /\ is_scheduled' = FALSE
  /\ UNCHANGED <<lifecycle_state, driver, mail, queue, events, locals, history>>

\* Mutant: execute does not look at the mailbox again.
PeekAgain_Never(d) ==
  /\ Step(d, "peek", "idle")
  /\ UNCHANGED <<lifecycle_state, is_scheduled, driver, mail, queue, events, locals,
                 history>>

PeekAgain(d) ==
  /\ Step(d, "peek", IF Box!HeadReady(mailbox) THEN "exit_swap" ELSE "idle")
  /\ UNCHANGED <<lifecycle_state, is_scheduled, driver, mail, queue, events, locals,
                 history>>

ExitSwap(d) ==
  /\ Step(d, "exit_swap", IF is_scheduled THEN "idle" ELSE "exit_push")
  /\ is_scheduled' = TRUE
  /\ UNCHANGED <<lifecycle_state, driver, mail, queue, events, locals, history>>

-----------------------------------------------------------------------------
(* ActorRunner::finalize_kill *)

\* Mutant: finalize_kill looks at the state and leaves it at KILLING.
FinSwap_Load(d) ==
  /\ Step(d, "fin_swap", IF lifecycle_state = "stopped" THEN "idle" ELSE "fin_drain")
  /\ UNCHANGED <<lifecycle_state, is_scheduled, driver, mail, queue, events, locals,
                 history>>

FinSwap(d) ==
  /\ Step(d, "fin_swap", IF lifecycle_state = "stopped" THEN "idle" ELSE "fin_drain")
  /\ lifecycle_state' = "stopped"
  /\ UNCHANGED <<is_scheduled, driver, mail, queue, events, locals, history>>

FinDrain(d) ==
  /\ \/ Box!Take /\ Step(d, "fin_drain", "fin_drain")
     \/ ~ Box!HeadReady(mailbox) /\ Step(d, "fin_drain", "fin_slot") /\ UNCHANGED mail
  /\ UNCHANGED <<lifecycle_state, is_scheduled, driver, queue, events, locals, history>>

FinSlot(d) ==
  /\ slot_lock = NoDispatcher
  /\ Step(d, "fin_slot", "fin_active")
  /\ slot' = FALSE
  /\ UNCHANGED <<lifecycle_state, is_scheduled, is_active, is_poll_scheduled, slot_lock,
                 mail, queue, events, locals, history>>

\* on_kill has been called and returns; on_finalize is part of ActorSystem
OnKill(d) ==
  /\ Step(d, "on_kill", "idle")
  /\ killed' = killed + 1
  /\ UNCHANGED <<lifecycle_state, is_scheduled, driver, mail, queue, events, locals,
                 unsent, received, kill_missed>>

FinalizeKill(d) ==
  \/ FinSwap(d)
  \/ FinDrain(d)
  \/ FinSlot(d)
  \/ StoreActive(d, "fin_active", "fin_poll", FALSE)
  \/ StorePollIdle(d, "fin_poll", "on_kill")
  \/ OnKill(d)

-----------------------------------------------------------------------------
Post(p) ==
  \/ PostClaim(p) \/ PostReady(p) \/ PostLoad(p) \/ PostSwap(p) \/ PostPush(p)

KillGoesOn(t) == KillSwap(t) \/ KillPush(t)

Wake(w) == WakeLoad(w) \/ WakeMark(w) \/ WakePush(w)

Running(d) ==
  \/ Execute(d) \/ PendingLoad(d) \/ PollClear(d) \/ PollLock(d) \/ PollPending(d)
  \/ PollReady(d) \/ PollReturn(d) \/ PollEnds(d)
  \/ LifecycleLoad(d) \/ Dequeue(d) \/ RunningLoad(d) \/ ReceiveReturns(d) \/ Arm(d)
  \/ KillCas(d) \/ KillGoesOn(d)
  \/ ExitLoad(d) \/ Unschedule(d) \/ PeekAgain(d) \/ ExitSwap(d) \/ ScheduleSelf(d, "exit_push")
  \/ FinalizeKill(d)

Next ==
  \/ \E p \in Posters : Post(p) \/ \E x \in Items : PostCheck(p, x)
  \/ \E k \in Killers : KillCas(k) \/ KillGoesOn(k)
  \/ \E w \in Wakers : Fire(w) \/ Wake(w)
  \/ \E d \in Dispatchers : Running(d) \/ PollPanics(d)

Spec == Init /\ [][Next]_vars

\* Threads go on with what they started, a dispatcher executes what is in its
\* queue (ActorDispatcher!ScheduledIsExecuted), and the events a pending
\* receive waits for happen.  Nobody has to post or to kill.
Fairness ==
  /\ \A p \in Posters : WF_vars(Post(p))
  /\ \A k \in Killers : WF_vars(KillGoesOn(k))
  /\ \A w \in Wakers : WF_vars(Wake(w) \/ Fire(w))
  /\ \A d \in Dispatchers : WF_vars(Running(d))

FairSpec == Spec /\ Fairness

-----------------------------------------------------------------------------
(* Properties *)

\* The actor is entered by one dispatcher at a time: on_receive, the poll of its
\* future and on_kill never overlap ("Only one receive operation may be active
\* per actor", "Pending receive must not be polled concurrently").
Inside == {d \in Dispatchers : pc[d] \in {"receive", "poll_check", "poll_return", "on_kill"}}
OneActorCall == \A d, e \in Inside : d = e

\* where a dispatcher works on the mailbox or calls the actor without a future
MailboxLabels == {"dequeue", "running_load", "receive", "arm_slot", "exit_load",
                  "unschedule", "peek", "exit_swap", "exit_push"}
FinalizeLabels == {"fin_swap", "fin_drain", "fin_slot", "fin_active", "fin_poll", "on_kill"}

\* While a receive is pending, no dispatcher processes the mailbox and none
\* finalizes the actor, whatever was scheduled meanwhile and however stale the
\* scheduled entry is.
PendingReceiveStopsActor ==
  slot => \A d \in Dispatchers : pc[d] \notin MailboxLabels \cup FinalizeLabels

\* Nothing is under way: nobody is inside an operation and no dispatcher has
\* the runner in its queue.  Only a new post, kill or event can change this.
Quiescent ==
  /\ \A t \in Threads : pc[t] = "idle"
  /\ \A d \in Dispatchers : queue[d] = 0

\* No mail is stranded: when nothing is under way, a running actor without a
\* pending receive has an empty mailbox and the next post schedules it.  The
\* fast path of enqueue_only relies on execute's second look at the mailbox.
MailNotStranded ==
  (Quiescent /\ lifecycle_state = "running" /\ ~ slot) => mailbox = << >> /\ ~ is_scheduled

\* No wake is lost: when nothing is under way and a receive is pending, the
\* event it waits for has not happened.  try_mark_poll_scheduled refuses wakes,
\* and each refusal must leave a poll that is still to come.
WakeNotLost == (Quiescent /\ slot) => fired # Wakers

\* finalize_kill calls on_kill at most once and the actor is never entered
\* again, though stale queue entries may still execute the runner.
KilledOnce == killed <= 1 /\ (killed = 1 => Inside = {})

\* What got into the mailbox is received, in order, unless the actor is killed
\* first.
AcceptedIsReceived ==
  mailbox # << >> ~> \/ lifecycle_state # "running"
                     \/ mailbox = << >> /\ received = dequeued

\* A kill finalizes the actor, but for one window: kill finds is_scheduled set
\* at a runner that has read lifecycle_state for the last time.
KillCompletes == lifecycle_state = "killing" ~> (lifecycle_state = "stopped" \/ kill_missed)

=============================================================================
