-------------------------- MODULE ActorDispatcher ---------------------------
(***************************************************************************)
(* One dispatcher: a worker thread that executes what other threads        *)
(* schedule on it (dispatcher/actor_dispatcher.rs, dispatcher/signal.rs).  *)
(*                                                                         *)
(* A step is one access to shared state: an atomic operation or a critical *)
(* section of a mutex.  Signal is a Boolean under a mutex with a condition *)
(* variable, so wait and release are one step each; that wait blocks is    *)
(* its guard.                                                              *)
(*                                                                         *)
(* What is scheduled is opaque here (an actor's runner or a yield task):   *)
(* a task is scheduled at most once, which gives every entry of the queue  *)
(* a name.  While a task executes, the worker thread may itself call       *)
(* schedule and dispose, like any other thread.  The specification starts  *)
(* where ActorDispatcher::start returns.                                   *)
(***************************************************************************)
EXTENDS Naturals, Sequences, FiniteSets

CONSTANTS
  Callers,  \* threads that call schedule or dispose
  Worker,   \* the dispatcher's own thread
  Tasks     \* what is scheduled; bounds a run

ASSUME WorkerAssumption == Worker \notin Callers

VARIABLES
  scheduled_actors, is_stopped, signal_pending,
  is_signaled,    \* Signal::is_signaled
  worker_thread,  \* whether the JoinHandle is still there
  wpc,            \* where the worker is in process_scheduled_actors
  batch,          \* its local batch
  spc, task,      \* where each thread is in schedule, and with which task
  dpc,            \* where each thread is in dispose
  unscheduled,    \* the tasks nobody has scheduled yet
  accepted,       \* history: the tasks pushed, in order
  executed,       \* history: the tasks whose execution began, in order
  stopped_at      \* history: Len(executed) when is_stopped was set

schedule_vars == <<spc, task, unscheduled, accepted>>
worker_vars == <<wpc, batch, executed>>
dispose_vars == <<dpc, worker_thread, stopped_at>>
vars == <<scheduled_actors, is_stopped, signal_pending, is_signaled,
          schedule_vars, worker_vars, dispose_vars>>

Threads == Callers \cup {Worker}

\* A thread can start a call of its own: the worker only from within execute.
MayCall(t) ==
  /\ spc[t] = "idle"
  /\ dpc[t] \in {"idle", "done"}
  /\ t = Worker => wpc = "executing"

Init ==
  /\ scheduled_actors = << >>
  /\ is_stopped = FALSE
  /\ signal_pending = 0
  /\ is_signaled = FALSE
  /\ worker_thread = TRUE
  /\ wpc = "wait"
  /\ batch = << >>
  /\ spc = [t \in Threads |-> "idle"]
  /\ task \in [Threads -> Tasks]
  /\ dpc = [t \in Threads |-> "idle"]
  /\ unscheduled = Tasks
  /\ accepted = << >>
  /\ executed = << >>
  /\ stopped_at = 0

-----------------------------------------------------------------------------
(* schedule *)

ScheduleCheck(t, x) ==
  /\ MayCall(t)
  /\ x \in unscheduled
  /\ unscheduled' = unscheduled \ {x}
  /\ task' = [task EXCEPT ![t] = x]
  /\ spc' = [spc EXCEPT ![t] = IF is_stopped THEN "idle" ELSE "push"]
  /\ UNCHANGED <<scheduled_actors, is_stopped, signal_pending, is_signaled,
                 accepted, worker_vars, dispose_vars>>

SchedulePush(t) ==
  /\ spc[t] = "push"
  /\ scheduled_actors' = Append(scheduled_actors, task[t])
  /\ accepted' = Append(accepted, task[t])
  /\ spc' = [spc EXCEPT ![t] = "signal"]
  /\ UNCHANGED <<is_stopped, signal_pending, is_signaled, task, unscheduled,
                 worker_vars, dispose_vars>>

\* compare_exchange(0, 1): only the first one after the worker cleared
\* signal_pending releases the signal
ScheduleSignal(t) ==
  /\ spc[t] = "signal"
  /\ signal_pending' = 1
  /\ spc' = [spc EXCEPT ![t] = IF signal_pending = 0 THEN "release" ELSE "idle"]
  /\ UNCHANGED <<scheduled_actors, is_stopped, is_signaled, task, unscheduled,
                 accepted, worker_vars, dispose_vars>>

\* Signal::release
Release == is_signaled' = TRUE

ScheduleRelease(t) ==
  /\ spc[t] = "release"
  /\ Release
  /\ spc' = [spc EXCEPT ![t] = "idle"]
  /\ UNCHANGED <<scheduled_actors, is_stopped, signal_pending, task, unscheduled,
                 accepted, worker_vars, dispose_vars>>

-----------------------------------------------------------------------------
(* process_scheduled_actors *)

\* Signal::wait
Wait ==
  /\ wpc = "wait"
  /\ is_signaled
  /\ is_signaled' = FALSE
  /\ wpc' = "check_after_wait"
  /\ UNCHANGED <<scheduled_actors, is_stopped, signal_pending, batch, executed,
                 schedule_vars, dispose_vars>>

CheckAfterWait ==
  /\ wpc = "check_after_wait"
  /\ wpc' = IF is_stopped THEN "exited" ELSE "clear_pending"
  /\ UNCHANGED <<scheduled_actors, is_stopped, signal_pending, is_signaled, batch,
                 executed, schedule_vars, dispose_vars>>

\* Mutant: the worker clears the flag only after it has drained the queue.
ClearPending_Late ==
  /\ wpc = "clear_pending"
  /\ wpc' = "take_batch"
  /\ UNCHANGED <<scheduled_actors, is_stopped, signal_pending, is_signaled, batch,
                 executed, schedule_vars, dispose_vars>>

ClearPending ==
  /\ wpc = "clear_pending"
  /\ signal_pending' = 0
  /\ wpc' = "take_batch"
  /\ UNCHANGED <<scheduled_actors, is_stopped, is_signaled, batch, executed,
                 schedule_vars, dispose_vars>>

TakeBatch ==
  /\ wpc = "take_batch"
  /\ batch' = scheduled_actors
  /\ scheduled_actors' = << >>
  /\ wpc' = IF scheduled_actors = << >> THEN "check_after_drain" ELSE "next_task"
  /\ UNCHANGED <<is_stopped, signal_pending, is_signaled, executed, schedule_vars,
                 dispose_vars>>

NextTask ==
  /\ wpc = "next_task"
  /\ \/ /\ batch = << >>
        /\ wpc' = "take_batch"
        /\ UNCHANGED <<batch, executed>>
     \/ /\ batch # << >>
        /\ executed' = Append(executed, Head(batch))
        /\ batch' = Tail(batch)
        /\ wpc' = "executing"
  /\ UNCHANGED <<scheduled_actors, is_stopped, signal_pending, is_signaled,
                 schedule_vars, dispose_vars>>

\* execute returns, once the calls it made have returned
ExecuteReturns ==
  /\ MayCall(Worker)
  /\ wpc' = "check_after_task"
  /\ UNCHANGED <<scheduled_actors, is_stopped, signal_pending, is_signaled, batch,
                 executed, schedule_vars, dispose_vars>>

\* the rest of the batch is dropped when the dispatcher has been stopped
CheckAfterTask ==
  /\ wpc = "check_after_task"
  /\ wpc' = IF is_stopped THEN "check_after_drain" ELSE "next_task"
  /\ batch' = IF is_stopped THEN << >> ELSE batch
  /\ UNCHANGED <<scheduled_actors, is_stopped, signal_pending, is_signaled,
                 executed, schedule_vars, dispose_vars>>

CheckAfterDrain ==
  /\ wpc = "check_after_drain"
  /\ wpc' = IF is_stopped THEN "exited" ELSE "wait"
  /\ UNCHANGED <<scheduled_actors, is_stopped, signal_pending, is_signaled, batch,
                 executed, schedule_vars, dispose_vars>>

-----------------------------------------------------------------------------
(* dispose *)

\* each thread calls dispose once
DisposeStop(t) ==
  /\ MayCall(t)
  /\ dpc[t] = "idle"
  /\ is_stopped' = TRUE
  /\ stopped_at' = IF is_stopped THEN stopped_at ELSE Len(executed)
  /\ dpc' = [dpc EXCEPT ![t] = "release"]
  /\ UNCHANGED <<scheduled_actors, signal_pending, is_signaled, worker_thread,
                 schedule_vars, worker_vars>>

\* Mutant: dispose does not wake a worker that is waiting.
DisposeRelease_NoSignal(t) ==
  /\ dpc[t] = "release"
  /\ dpc' = [dpc EXCEPT ![t] = "take"]
  /\ UNCHANGED <<scheduled_actors, is_stopped, signal_pending, is_signaled,
                 worker_thread, stopped_at, schedule_vars, worker_vars>>

DisposeRelease(t) ==
  /\ dpc[t] = "release"
  /\ Release
  /\ dpc' = [dpc EXCEPT ![t] = "take"]
  /\ UNCHANGED <<scheduled_actors, is_stopped, signal_pending, worker_thread,
                 stopped_at, schedule_vars, worker_vars>>

\* only the first disposer finds the handle, and the worker does not join itself
DisposeTake(t) ==
  /\ dpc[t] = "take"
  /\ worker_thread' = FALSE
  /\ dpc' = [dpc EXCEPT ![t] = IF worker_thread /\ t # Worker THEN "join" ELSE "done"]
  /\ UNCHANGED <<scheduled_actors, is_stopped, signal_pending, is_signaled,
                 stopped_at, schedule_vars, worker_vars>>

DisposeJoin(t) ==
  /\ dpc[t] = "join"
  /\ wpc = "exited"
  /\ dpc' = [dpc EXCEPT ![t] = "done"]
  /\ UNCHANGED <<scheduled_actors, is_stopped, signal_pending, is_signaled,
                 worker_thread, stopped_at, schedule_vars, worker_vars>>

-----------------------------------------------------------------------------

Scheduling(t) == SchedulePush(t) \/ ScheduleSignal(t) \/ ScheduleRelease(t)

Disposing(t) == DisposeRelease(t) \/ DisposeTake(t) \/ DisposeJoin(t)

Working ==
  \/ Wait \/ CheckAfterWait \/ ClearPending \/ TakeBatch \/ NextTask
  \/ ExecuteReturns \/ CheckAfterTask \/ CheckAfterDrain

Next ==
  \/ \E t \in Threads : \/ \E x \in Tasks : ScheduleCheck(t, x)
                        \/ Scheduling(t)
                        \/ DisposeStop(t)
                        \/ Disposing(t)
  \/ Working

Spec == Init /\ [][Next]_vars

\* A thread inside schedule or dispose runs on, and so does the worker: what it
\* executes returns.  Nobody is obliged to call schedule or dispose.
Fairness ==
  /\ WF_vars(Working)
  /\ \A t \in Threads : WF_vars(Scheduling(t)) /\ WF_vars(Disposing(t))

FairSpec == Spec /\ Fairness

-----------------------------------------------------------------------------
(* Properties *)

\* Every variable keeps its type: signal_pending is 0 or 1, and the queue, the
\* worker's batch and the threads inside schedule hold tasks.
TypeOK ==
  /\ scheduled_actors \in Seq(Tasks)
  /\ is_stopped \in BOOLEAN
  /\ signal_pending \in {0, 1}
  /\ is_signaled \in BOOLEAN
  /\ worker_thread \in BOOLEAN
  /\ wpc \in {"wait", "check_after_wait", "clear_pending", "take_batch", "next_task",
              "executing", "check_after_task", "check_after_drain", "exited"}
  /\ batch \in Seq(Tasks)
  /\ spc \in [Threads -> {"idle", "push", "signal", "release"}]
  /\ task \in [Threads -> Tasks]
  /\ dpc \in [Threads -> {"idle", "release", "take", "join", "done"}]
  /\ unscheduled \subseteq Tasks
  /\ accepted \in Seq(Tasks)
  /\ executed \in Seq(Tasks)
  /\ stopped_at \in Nat

\* A worker that sleeps on a non-empty queue is about to be woken: the signal is
\* set, or a thread inside schedule is still going to set it.  signal_pending,
\* which lets schedule skip the release, never hides the last wake-up.
NoLostSignal ==
  wpc = "wait" /\ scheduled_actors # << >>
    => is_signaled \/ \E t \in Threads : spc[t] \in {"signal", "release"}

\* Tasks begin in the order in which schedule pushed them, each one once.
FifoExecution ==
  /\ Len(executed) <= Len(accepted)
  /\ \A k \in 1 .. Len(executed) : executed[k] = accepted[k]

\* Once dispose has set is_stopped, at most one more task begins, although the
\* worker may have a whole batch in hand.
AtMostOneTaskAfterStop == is_stopped => Len(executed) <= stopped_at + 1

\* A pushed task is executed unless the dispatcher is stopped.
ScheduledIsExecuted ==
  \A k \in 1 .. Cardinality(Tasks) :
    Len(accepted) >= k ~> Len(executed) >= k \/ is_stopped

\* dispose returns: the worker notices is_stopped wherever it is, even asleep.
DisposeReturns ==
  \A t \in Threads : dpc[t] # "idle" ~> dpc[t] = "done"

-----------------------------------------------------------------------------
(* The inductive invariant behind the safety properties above. *)

\* Nobody will look at the queue again: the worker has seen is_stopped.
GivenUp == wpc = "exited" \/ (wpc = "check_after_drain" /\ is_stopped)

\* signal_pending is a promise that the worker is on its way, and a non-empty
\* queue is covered by the promise, by a thread about to renew it, or by a
\* worker that will still look at the queue.
SignalInv ==
  /\ signal_pending = 1 =>
       \/ is_signaled
       \/ \E t \in Threads : spc[t] = "release"
       \/ wpc \in {"check_after_wait", "clear_pending", "exited"}
  /\ scheduled_actors # << >> =>
       \/ signal_pending = 1
       \/ \E t \in Threads : spc[t] = "signal"
       \/ wpc \in {"take_batch", "next_task", "executing", "check_after_task"}
       \/ GivenUp

\* Executed, in hand, queued: together they are the accepted tasks in order.
OrderInv ==
  /\ wpc \notin {"next_task", "executing", "check_after_task"} => batch = << >>
  /\ ~ GivenUp =>
       /\ Len(accepted) = Len(executed) + Len(batch) + Len(scheduled_actors)
       /\ \A k \in 1 .. Len(batch) : batch[k] = accepted[Len(executed) + k]
       /\ \A k \in 1 .. Len(scheduled_actors) :
            scheduled_actors[k] = accepted[Len(executed) + Len(batch) + k]

StopInv ==
  is_stopped =>
    /\ Len(executed) <= stopped_at + 1
    /\ wpc \in {"clear_pending", "take_batch", "next_task"} => Len(executed) <= stopped_at

\* Signal, queue, batch and stop flag agree with each other and with the history.
DispatcherInv == TypeOK /\ SignalInv /\ OrderInv /\ FifoExecution /\ StopInv

=============================================================================
