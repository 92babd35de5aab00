----------------------------- MODULE ActorAwait ------------------------------
(***************************************************************************)
(* ActorAwait::join on a dispatcher: the awaiter, the yield tasks that     *)
(* carry its continuation and the pool they come from (actor_await.rs,     *)
(* dispatcher/actor_yield_task.rs, object_pool/actor_yield_task_pool.rs),  *)
(* composed with the dispatcher that is joined.                            *)
(*                                                                         *)
(* An actor was woken on another dispatcher, whose thread is Origin, and   *)
(* reaches join there.  The entry "join" is its continuation, "poll" its   *)
(* runner, which the continuation's wake schedules on the dispatcher       *)
(* joined, and "yield" the continuation of another actor.  Of the origin   *)
(* dispatcher only the polls queued there are kept.                        *)
(***************************************************************************)
EXTENDS ActorDispatcher

CONSTANTS
  Origin,     \* the thread of the dispatcher the actor runs on
  NoCallback

ASSUME AwaitAssumption ==
  Origin \in Callers /\ Tasks = {"join", "yield", "poll"} /\ NoCallback \notin Tasks

VARIABLES
  pool,               \* the idle yield tasks, which are numbered
  callback,           \* what each yield task carries
  carrier,            \* the yield task each continuation was put in
  is_scheduled,       \* ActorAwaiter::is_scheduled
  is_poll_scheduled,  \* of the actor's PollDriver
  origin_polls,       \* the polls of the actor queued on its origin
  joined,             \* join has returned to the actor
  rival_woke,         \* another future of the actor has woken it
  coalesced           \* history: join's wake met a poll queued on the origin

yield_vars == <<pool, callback, carrier>>
await_vars == <<is_scheduled, is_poll_scheduled, origin_polls, joined, rival_woke, coalesced>>
all_vars == <<vars, yield_vars, await_vars>>

Continuations == {"join", "yield"}

AwaitInit ==
  /\ Init
  /\ task = [t \in Threads |-> "poll"]
  /\ pool = << >>
  /\ callback = << >>
  /\ carrier = [x \in Continuations |-> 0]
  /\ is_scheduled = FALSE
  /\ is_poll_scheduled = TRUE
  /\ origin_polls = 1
  /\ joined = FALSE /\ rival_woke = FALSE /\ coalesced = FALSE

\* Mutant: the yield task that is handed out stays in the pool.
PopSet_Kept(x) ==
  /\ carrier' = [carrier EXCEPT ![x] = IF pool = << >> THEN Len(callback) + 1 ELSE pool[Len(pool)]]
  /\ callback' = [y \in 1 .. Len(callback) + (IF pool = << >> THEN 1 ELSE 0) |->
                    IF y = carrier'[x] THEN x ELSE callback[y]]
  /\ UNCHANGED pool

\* pop, which makes a yield task when there is none, and set
PopSet(x) ==
  \/ /\ pool = << >>
     /\ callback' = Append(callback, x)
     /\ carrier' = [carrier EXCEPT ![x] = Len(callback')]
     /\ UNCHANGED pool
  \/ /\ pool # << >>
     /\ callback' = [callback EXCEPT ![pool[Len(pool)]] = x]
     /\ carrier' = [carrier EXCEPT ![x] = pool[Len(pool)]]
     /\ pool' = SubSeq(pool, 1, Len(pool) - 1)

Executing(x) == MayCall(Worker) /\ executed[Len(executed)] = x

EnqueueContinuation(t, x) == PopSet(x) /\ ScheduleCheck(t, x)

-----------------------------------------------------------------------------
(* ActorAwaiter::poll, as PollDriver::poll runs it *)

\* Mutant: the poll begins without clearing is_poll_scheduled.
BeginPoll_KeepsMark == UNCHANGED is_poll_scheduled

BeginPoll == is_poll_scheduled' = FALSE

\* on the origin: enqueue a continuation, the first time, and stay pending
PollOnOrigin ==
  /\ origin_polls > 0
  /\ MayCall(Origin)
  /\ origin_polls' = origin_polls - 1
  /\ BeginPoll
  /\ is_scheduled' = TRUE
  /\ \/ ~ is_scheduled /\ EnqueueContinuation(Origin, "join")
     \/ is_scheduled /\ UNCHANGED <<vars, yield_vars>>
  /\ UNCHANGED <<joined, rival_woke, coalesced>>

\* on the dispatcher joined: ready.  The slot's mutex is free once the poll on
\* the origin has returned from schedule.
PollOnTarget ==
  /\ Executing("poll") /\ ~ joined
  /\ spc[Origin] = "idle"
  /\ BeginPoll
  /\ joined' = TRUE
  /\ UNCHANGED <<vars, yield_vars, is_scheduled, origin_polls, rival_woke, coalesced>>

\* ActorRunnerWake::wake for something else the actor awaits, on its origin
RivalWakes ==
  /\ ~ rival_woke /\ ~ joined
  /\ rival_woke' = TRUE
  /\ is_poll_scheduled' = TRUE
  /\ origin_polls' = IF is_poll_scheduled THEN origin_polls ELSE origin_polls + 1
  /\ UNCHANGED <<vars, yield_vars, is_scheduled, joined, coalesced>>

-----------------------------------------------------------------------------
(* ActorYieldTask::execute *)

Callback(x) == callback[carrier[x]]

\* take the callback and call it: the wake schedules the actor here unless a
\* poll of it is scheduled already
WakeJoined ==
  /\ Executing("join") /\ Callback("join") # NoCallback
  /\ callback' = [callback EXCEPT ![carrier["join"]] = NoCallback]
  /\ \/ /\ ~ is_poll_scheduled
        /\ is_poll_scheduled' = TRUE
        /\ ScheduleCheck(Worker, "poll")
        /\ UNCHANGED coalesced
     \/ /\ is_poll_scheduled
        /\ coalesced' = (origin_polls > 0)
        /\ UNCHANGED <<vars, is_poll_scheduled>>
  /\ UNCHANGED <<pool, carrier, is_scheduled, origin_polls, joined, rival_woke>>

\* the other actor is polled on dispatchers of its own
WakeOther ==
  /\ Executing("yield") /\ Callback("yield") # NoCallback
  /\ callback' = [callback EXCEPT ![carrier["yield"]] = NoCallback]
  /\ UNCHANGED <<vars, pool, carrier, await_vars>>

\* execute returns: a yield task recycles itself, the runner has polled
Recycle ==
  /\ ExecuteReturns
  /\ \/ /\ \E x \in Continuations : /\ Executing(x) /\ Callback(x) = NoCallback
                                    /\ pool' = Append(pool, carrier[x])
        /\ UNCHANGED <<callback, carrier>>
     \/ Executing("poll") /\ joined /\ UNCHANGED yield_vars
  /\ UNCHANGED await_vars

-----------------------------------------------------------------------------
\* Another actor joins from its own thread, or from the dispatcher's, where the
\* actor that has joined may itself have polled it.
YieldOther(t) ==
  /\ t # Origin
  /\ t = Worker => Executing("poll") /\ joined
  /\ EnqueueContinuation(t, "yield")
  /\ UNCHANGED await_vars

Dispatch ==
  /\ \/ Wait \/ CheckAfterWait \/ ClearPending \/ TakeBatch \/ NextTask
     \/ CheckAfterTask \/ CheckAfterDrain
  /\ UNCHANGED <<yield_vars, await_vars>>

Execute == PollOnTarget \/ WakeJoined \/ WakeOther \/ Recycle

Schedule(t) == Scheduling(t) /\ UNCHANGED <<yield_vars, await_vars>>

Dispose(t) == Disposing(t) /\ UNCHANGED <<yield_vars, await_vars>>

AwaitNext ==
  \/ PollOnOrigin \/ RivalWakes \/ Dispatch \/ Execute
  \/ \E t \in Threads : \/ YieldOther(t) \/ Schedule(t) \/ Dispose(t)
                        \/ DisposeStop(t) /\ UNCHANGED <<yield_vars, await_vars>>

\* The fairness of ActorDispatcher, and the origin's thread polls.
AwaitSpec ==
  /\ AwaitInit /\ [][AwaitNext]_all_vars
  /\ WF_all_vars(PollOnOrigin) /\ WF_all_vars(Dispatch \/ Execute)
  /\ \A t \in Threads : WF_all_vars(Schedule(t)) /\ WF_all_vars(Dispose(t))

-----------------------------------------------------------------------------
(* Properties *)

\* Entries a thread is pushing, or that are queued or in the worker's batch.
Waiting ==
  {task[t] : t \in {u \in Threads : spc[u] = "push"}}
    \cup {scheduled_actors[k] : k \in 1 .. Len(scheduled_actors)}
    \cup {batch[k] : k \in 1 .. Len(batch)}

\* A continuation that waits is still in the yield task that was put in the
\* queue for it, and that yield task is not in the pool: a task recycled too
\* early would run the continuation of another actor, or none.
ContinuationKept ==
  \A x \in Continuations \cap Waiting :
    /\ Callback(x) = x
    /\ \A k \in 1 .. Len(pool) : pool[k] # carrier[x]

\* An actor that has enqueued its continuation resumes on the dispatcher it
\* joined, unless that dispatcher is stopped, or the wake was dropped because
\* another one had put a poll on the origin: that poll finds is_scheduled set
\* and leaves the actor pending, with nobody to wake it.
JoinCompletes == is_scheduled ~> joined \/ is_stopped \/ coalesced

=============================================================================
