----------------------- MODULE ActorDispatcherProofs ------------------------
(***************************************************************************)
(* The dispatcher's safety properties for any set of threads and tasks.    *)
(* DispatcherInv is inductive; each property follows from it in one step.  *)
(*                                                                         *)
(* The composition of join and its yield tasks with the dispatcher behaves *)
(* like the dispatcher alone, so that these properties hold of it too, and *)
(* no continuation that waits there is lost or exchanged: that takes what  *)
(* DispatcherInv says of the queue's order, and CarryInv.                  *)
(***************************************************************************)
EXTENDS ActorAwait, TLAPS

\* Every action keeps the types of the variables.
LEMMA TypeStep ==
  ASSUME TypeOK, [Next]_vars
  PROVE  TypeOK'
<1> USE DEF TypeOK, schedule_vars, worker_vars, dispose_vars
<1>1. ASSUME NEW t \in Threads, NEW x \in Tasks, ScheduleCheck(t, x)
      PROVE  TypeOK'
  BY <1>1 DEF ScheduleCheck
<1>2. ASSUME NEW t \in Threads, SchedulePush(t)
      PROVE  TypeOK'
  <2>1. scheduled_actors' \in Seq(Tasks) /\ accepted' \in Seq(Tasks)
    BY <1>2 DEF SchedulePush
  <2> QED
    BY <1>2, <2>1 DEF SchedulePush
<1>3. ASSUME NEW t \in Threads, ScheduleSignal(t) \/ ScheduleRelease(t)
      PROVE  TypeOK'
  BY ZenonT(60), <1>3 DEF ScheduleSignal, ScheduleRelease, Release
<1>4. ASSUME NEW t \in Threads, DisposeStop(t)
      PROVE  TypeOK'
  <2>1. Len(executed) \in Nat
    OBVIOUS
  <2> QED
    BY <1>4, <2>1 DEF DisposeStop
<1>5. ASSUME NEW t \in Threads, Disposing(t)
      PROVE  TypeOK'
  <2>1. CASE DisposeRelease(t) \/ DisposeJoin(t)
    BY ZenonT(60), <2>1 DEF DisposeRelease, DisposeJoin, Release
  <2>2. CASE DisposeTake(t)
    BY ZenonT(60), <2>2 DEF DisposeTake
  <2> QED
    BY <1>5, <2>1, <2>2 DEF Disposing
<1>6. CASE Wait \/ CheckAfterWait \/ ClearPending
  BY ZenonT(60), <1>6 DEF Wait, CheckAfterWait, ClearPending
<1>7. CASE TakeBatch
  <2>1. batch' \in Seq(Tasks) /\ scheduled_actors' \in Seq(Tasks)
    BY <1>7 DEF TakeBatch
  <2> QED
    BY <1>7, <2>1 DEF TakeBatch
<1>8. CASE NextTask
  <2>1. CASE batch = << >>
    BY <1>8, <2>1 DEF NextTask
  <2>2. CASE batch # << >>
    <3>1. Head(batch) \in Tasks /\ Tail(batch) \in Seq(Tasks)
      BY <2>2
    <3>2. executed' = Append(executed, Head(batch)) /\ batch' = Tail(batch)
      BY <1>8, <2>2 DEF NextTask
    <3>3. executed' \in Seq(Tasks) /\ batch' \in Seq(Tasks)
      BY <3>1, <3>2
    <3> QED
      BY <1>8, <2>2, <3>3 DEF NextTask
  <2> QED
    BY <2>1, <2>2
<1>9. CASE ExecuteReturns \/ CheckAfterTask \/ CheckAfterDrain
  <2>1. << >> \in Seq(Tasks)
    OBVIOUS
  <2>2. batch' \in Seq(Tasks)
    BY ZenonT(60), <1>9, <2>1 DEF ExecuteReturns, CheckAfterTask, CheckAfterDrain
  <2> QED
    BY <1>9, <2>2 DEF ExecuteReturns, CheckAfterTask, CheckAfterDrain
<1>10. CASE UNCHANGED vars
  BY <1>10 DEF vars
<1> QED
  BY <1>1, <1>2, <1>3, <1>4, <1>5, <1>6, <1>7, <1>8, <1>9, <1>10
  DEF Next, Scheduling, Working

\* Every action keeps the signal promise.
LEMMA SignalStep ==
  ASSUME TypeOK, SignalInv, [Next]_vars
  PROVE  SignalInv'
<1> USE DEF TypeOK, SignalInv, GivenUp, schedule_vars, worker_vars, dispose_vars
<1>1. ASSUME NEW t \in Threads, NEW x \in Tasks, ScheduleCheck(t, x)
      PROVE  SignalInv'
  BY <1>1 DEF ScheduleCheck, MayCall
<1>2. ASSUME NEW t \in Threads, SchedulePush(t)
      PROVE  SignalInv'
  BY <1>2 DEF SchedulePush
<1>3. ASSUME NEW t \in Threads, ScheduleSignal(t)
      PROVE  SignalInv'
  BY <1>3 DEF ScheduleSignal
<1>4. ASSUME NEW t \in Threads, ScheduleRelease(t)
      PROVE  SignalInv'
  BY <1>4 DEF ScheduleRelease, Release
<1>5. ASSUME NEW t \in Threads, DisposeStop(t) \/ Disposing(t)
      PROVE  SignalInv'
  BY <1>5 DEF DisposeStop, Disposing, DisposeRelease, DisposeTake, DisposeJoin, Release
<1>6. CASE Working
  BY <1>6 DEF Working, Wait, CheckAfterWait, ClearPending, TakeBatch, NextTask,
              ExecuteReturns, CheckAfterTask, CheckAfterDrain, MayCall
<1>7. CASE UNCHANGED vars
  BY <1>7 DEF vars
<1> QED
  BY <1>1, <1>2, <1>3, <1>4, <1>5, <1>6, <1>7 DEF Next, Scheduling

\* Every action keeps the bound on the tasks begun after the stop.
LEMMA StopStep ==
  ASSUME TypeOK, StopInv, [Next]_vars
  PROVE  StopInv'
<1> USE DEF TypeOK, StopInv, schedule_vars, worker_vars, dispose_vars
<1>1. ASSUME NEW t \in Threads, Scheduling(t) \/ \E x \in Tasks : ScheduleCheck(t, x)
      PROVE  StopInv'
  BY ZenonT(60), <1>1 DEF Scheduling, ScheduleCheck, SchedulePush, ScheduleSignal,
                          ScheduleRelease
<1>2. ASSUME NEW t \in Threads, DisposeStop(t)
      PROVE  StopInv'
  <2>1. /\ executed' = executed /\ wpc' = wpc
        /\ stopped_at' = IF is_stopped THEN stopped_at ELSE Len(executed)
    BY <1>2 DEF DisposeStop
  <2>2. Len(executed) \in Nat
    OBVIOUS
  <2>3. CASE is_stopped
    BY <2>1, <2>3
  <2>4. CASE ~ is_stopped
    BY <2>1, <2>2, <2>4
  <2> QED
    BY <2>3, <2>4
<1>3. ASSUME NEW t \in Threads, Disposing(t)
      PROVE  StopInv'
  BY ZenonT(60), <1>3 DEF Disposing, DisposeRelease, DisposeTake, DisposeJoin
<1>4. CASE NextTask
  <2>1. Len(executed) \in Nat /\ Len(executed)' <= Len(executed) + 1
    BY <1>4 DEF NextTask
  <2>2. wpc' # "executing" => Len(executed)' = Len(executed)
    BY <1>4 DEF NextTask
  <2>3. /\ wpc = "next_task" /\ wpc' \in {"take_batch", "executing"}
        /\ is_stopped' = is_stopped /\ stopped_at' = stopped_at
    BY <1>4 DEF NextTask
  <2> QED
    BY <2>1, <2>2, <2>3
<1>5. CASE Wait \/ CheckAfterWait \/ ClearPending \/ TakeBatch
  BY ZenonT(60), <1>5 DEF Wait, CheckAfterWait, ClearPending, TakeBatch
<1>6. CASE ExecuteReturns \/ CheckAfterTask \/ CheckAfterDrain
  BY ZenonT(60), <1>6 DEF ExecuteReturns, CheckAfterTask, CheckAfterDrain
<1>7. CASE UNCHANGED vars
  BY <1>7 DEF vars
<1> QED
  BY <1>1, <1>2, <1>3, <1>4, <1>5, <1>6, <1>7 DEF Next, Working

\* Steps that move no task keep the order, provided that a worker that has given
\* up does not come back.
LEMMA OrderKept ==
  ASSUME OrderInv, FifoExecution,
         UNCHANGED <<scheduled_actors, batch, executed, accepted>>,
         GivenUp => GivenUp',
         wpc \in {"next_task", "executing", "check_after_task"} =>
           wpc' \in {"next_task", "executing", "check_after_task"} \/ batch = << >>
  PROVE  OrderInv' /\ FifoExecution'
BY DEF OrderInv, FifoExecution

\* Every action keeps executed, batch and queue in the order of acceptance.
LEMMA OrderStep ==
  ASSUME TypeOK, OrderInv, FifoExecution, [Next]_vars
  PROVE  OrderInv' /\ FifoExecution'
<1> USE DEF schedule_vars, worker_vars, dispose_vars
<1>1. ASSUME NEW t \in Threads,
             \/ \E x \in Tasks : ScheduleCheck(t, x)
             \/ ScheduleSignal(t) \/ ScheduleRelease(t)
      PROVE  OrderInv' /\ FifoExecution'
  BY <1>1, OrderKept DEF ScheduleCheck, ScheduleSignal, ScheduleRelease, GivenUp
<1>2. ASSUME NEW t \in Threads, DisposeStop(t) \/ Disposing(t)
      PROVE  OrderInv' /\ FifoExecution'
  BY <1>2, OrderKept DEF DisposeStop, Disposing, DisposeRelease, DisposeTake,
                         DisposeJoin, GivenUp
<1>3. ASSUME NEW t \in Threads, SchedulePush(t)
      PROVE  OrderInv' /\ FifoExecution'
  <2> DEFINE x == task[t]
             n == Len(scheduled_actors)
             m == Len(accepted)
  <2>1. /\ scheduled_actors' = Append(scheduled_actors, x)
        /\ accepted' = Append(accepted, x)
        /\ UNCHANGED <<batch, executed, wpc, is_stopped>>
        /\ x \in Tasks
    BY <1>3 DEF SchedulePush, TypeOK
  <2>2. /\ n \in Nat /\ m \in Nat /\ Len(batch) \in Nat /\ Len(executed) \in Nat
        /\ Len(scheduled_actors') = n + 1 /\ Len(accepted') = m + 1
        /\ scheduled_actors'[n + 1] = x /\ accepted'[m + 1] = x
        /\ \A k \in 1 .. n : scheduled_actors'[k] = scheduled_actors[k]
        /\ \A k \in 1 .. m : accepted'[k] = accepted[k]
    BY <2>1 DEF TypeOK
  <2> HIDE DEF x
  <2>3. FifoExecution'
    BY <2>1, <2>2 DEF FifoExecution
  <2>4. OrderInv'
    <3>a. wpc' \notin {"next_task", "executing", "check_after_task"} => batch' = << >>
      BY <2>1 DEF OrderInv
    <3>b. CASE GivenUp
      <4>1. GivenUp'
        BY <2>1, <3>b DEF GivenUp
      <4> QED
        BY ZenonT(30), <3>a, <4>1 DEF OrderInv
    <3> SUFFICES ASSUME ~ GivenUp
                 PROVE  OrderInv'
      BY <3>b
    <3>1. /\ m = Len(executed) + Len(batch) + n
          /\ \A k \in 1 .. Len(batch) : batch[k] = accepted[Len(executed) + k]
          /\ \A k \in 1 .. n : scheduled_actors[k] = accepted[Len(executed) + Len(batch) + k]
      BY DEF OrderInv
    <3>2. \A k \in 1 .. Len(batch) : batch[k] = accepted'[Len(executed) + k]
      BY SMTT(30), <2>2, <3>1
    <3>3. \A k \in 1 .. n + 1 :
            scheduled_actors'[k] = accepted'[Len(executed) + Len(batch) + k]
      <4> SUFFICES ASSUME NEW k \in 1 .. n + 1
                   PROVE  scheduled_actors'[k] = accepted'[Len(executed) + Len(batch) + k]
        OBVIOUS
      <4>1. CASE k = n + 1
        <5>1. Len(executed) + Len(batch) + k = m + 1
          BY SMTT(30), <2>2, <3>1, <4>1
        <5> QED
          BY SMTT(30), <2>2, <4>1, <5>1
      <4>2. CASE k \in 1 .. n
        <5>1. Len(executed) + Len(batch) + k \in 1 .. m
          BY SMTT(30), <2>2, <3>1, <4>2
        <5> QED
          BY SMTT(30), <2>2, <3>1, <4>2, <5>1
      <4> QED
        BY SMTT(30), <2>2, <4>1, <4>2
    <3>4. Len(accepted') = Len(executed') + Len(batch') + Len(scheduled_actors')
      BY SMTT(30), <2>1, <2>2, <3>1
    <3>5. /\ \A k \in 1 .. Len(batch') : batch'[k] = accepted'[Len(executed') + k]
          /\ \A k \in 1 .. Len(scheduled_actors') :
               scheduled_actors'[k] = accepted'[Len(executed') + Len(batch') + k]
      <4>1. batch' = batch /\ executed' = executed /\ Len(scheduled_actors') = n + 1
        BY <2>1, <2>2
      <4> QED
        BY ZenonT(30), <3>2, <3>3, <4>1
    <3> QED
      BY ZenonT(30), <3>a, <3>4, <3>5 DEF OrderInv
  <2> QED
    BY <2>3, <2>4
<1>4. CASE Wait \/ CheckAfterWait \/ ClearPending \/ ExecuteReturns \/ CheckAfterDrain
  BY <1>4, OrderKept DEF Wait, CheckAfterWait, ClearPending, ExecuteReturns,
                         CheckAfterDrain, GivenUp, MayCall
<1>5. CASE CheckAfterTask
  <2>1. CASE is_stopped
    BY ZenonT(30), <1>5, <2>1 DEF CheckAfterTask, OrderInv, FifoExecution, GivenUp
  <2>2. CASE ~ is_stopped
    BY <1>5, <2>2, OrderKept DEF CheckAfterTask, GivenUp
  <2> QED
    BY <2>1, <2>2
<1>6. CASE TakeBatch
  <2>1. /\ wpc = "take_batch" /\ wpc' \in {"check_after_drain", "next_task"}
        /\ batch' = scheduled_actors /\ scheduled_actors' = << >>
        /\ executed' = executed /\ accepted' = accepted
        /\ wpc' = "check_after_drain" => scheduled_actors = << >>
    BY <1>6 DEF TakeBatch
  <2>2. /\ batch = << >>
        /\ Len(accepted) = Len(executed) + Len(scheduled_actors)
        /\ \A k \in 1 .. Len(scheduled_actors) :
             scheduled_actors[k] = accepted[Len(executed) + k]
    BY <2>1 DEF OrderInv, GivenUp, TypeOK
  <2>3. Len(executed) \in Nat /\ Len(scheduled_actors) \in Nat
    BY DEF TypeOK
  <2> QED
    BY SMTT(30), <2>1, <2>2, <2>3 DEF OrderInv, FifoExecution
<1>7. CASE NextTask
  <2>1. CASE batch = << >>
    BY <1>7, <2>1, OrderKept DEF NextTask, GivenUp
  <2>2. CASE batch # << >>
    <3> DEFINE e == Len(executed)
               n == Len(batch)
    <3>1. /\ wpc = "next_task" /\ wpc' = "executing"
          /\ executed' = Append(executed, Head(batch)) /\ batch' = Tail(batch)
          /\ scheduled_actors' = scheduled_actors /\ accepted' = accepted
      BY SMTT(30), <1>7, <2>2 DEF NextTask
    <3>2. /\ e \in Nat /\ n \in Nat /\ n >= 1
          /\ Len(scheduled_actors) \in Nat
          /\ Len(executed') = e + 1 /\ Len(batch') = n - 1
          /\ executed'[e + 1] = batch[1]
          /\ \A k \in 1 .. e : executed'[k] = executed[k]
          /\ \A k \in 1 .. n - 1 : batch'[k] = batch[k + 1]
      BY SMTT(30), <2>2, <3>1 DEF TypeOK
    <3>3. /\ Len(accepted) = e + n + Len(scheduled_actors)
          /\ \A k \in 1 .. n : batch[k] = accepted[e + k]
          /\ \A k \in 1 .. Len(scheduled_actors) :
               scheduled_actors[k] = accepted[e + n + k]
      BY SMTT(30), <3>1 DEF OrderInv, GivenUp
    <3>4. FifoExecution'
      BY SMTT(30), <3>1, <3>2, <3>3 DEF FifoExecution
    <3>5. \A k \in 1 .. n - 1 : batch'[k] = accepted[e + 1 + k]
      <4> SUFFICES ASSUME NEW k \in 1 .. n - 1
                   PROVE  batch[k + 1] = accepted[e + 1 + k]
        BY SMTT(30), <3>2
      <4>1. k + 1 \in 1 .. n /\ e + (k + 1) = e + 1 + k
        BY SMTT(30), <3>2
      <4> QED
        BY SMTT(30), <3>3, <4>1
    <3>6. /\ e + 1 + (n - 1) = e + n
          /\ Len(accepted) = Len(executed') + Len(batch') + Len(scheduled_actors)
      BY SMTT(30), <3>2, <3>3
    <3>7. \A k \in 1 .. Len(scheduled_actors') :
            scheduled_actors'[k] = accepted'[Len(executed') + Len(batch') + k]
      <4>1. Len(executed') + Len(batch') = e + n
        BY SMTT(30), <3>2, <3>6
      <4>2. \A k \in 1 .. Len(scheduled_actors) :
              scheduled_actors[k] = accepted[e + n + k]
        BY SMTT(30), <3>3
      <4> HIDE DEF e, n
      <4> QED
        BY ZenonT(60), <3>1, <4>1, <4>2
    <3>8. \A k \in 1 .. Len(batch') : batch'[k] = accepted'[Len(executed') + k]
      BY ZenonT(60), <3>1, <3>2, <3>5
    <3>9. OrderInv'
      BY ZenonT(60), <3>1, <3>6, <3>7, <3>8 DEF OrderInv
    <3> QED
      BY ZenonT(60), <3>4, <3>9
  <2> QED
    BY <2>1, <2>2
<1>8. CASE UNCHANGED vars
  BY <1>8, OrderKept DEF vars, GivenUp
<1> QED
  BY <1>1, <1>2, <1>3, <1>4, <1>5, <1>6, <1>7, <1>8 DEF Next, Scheduling, Working

-----------------------------------------------------------------------------
(* Theorems *)

\* DispatcherInv holds in every reachable state.
THEOREM DispatcherInvariant == Spec => []DispatcherInv
<1>1. Init => DispatcherInv
  <2> SUFFICES ASSUME Init PROVE DispatcherInv
    OBVIOUS
  <2> USE DEF Init
  <2>0. << >> \in Seq(Tasks) /\ unscheduled \subseteq Tasks
    OBVIOUS
  <2>1. TypeOK
    BY ZenonT(60), <2>0 DEF TypeOK
  <2>2. SignalInv /\ OrderInv /\ FifoExecution /\ StopInv
    BY DEF SignalInv, OrderInv, FifoExecution, StopInv
  <2> QED
    BY <2>1, <2>2 DEF DispatcherInv
<1>2. DispatcherInv /\ [Next]_vars => DispatcherInv'
  BY TypeStep, SignalStep, OrderStep, StopStep DEF DispatcherInv
<1> QED
  BY <1>1, <1>2, PTL DEF Spec

\* Every variable of the dispatcher keeps its type (TypeOK).
THEOREM DispatcherTypes == Spec => []TypeOK
<1>1. DispatcherInv => TypeOK
  BY DEF DispatcherInv
<1> QED
  BY <1>1, DispatcherInvariant, PTL

\* No wake-up of the worker is lost (NoLostSignal).
THEOREM SignalNotLost == Spec => []NoLostSignal
<1>1. DispatcherInv => NoLostSignal
  BY DEF DispatcherInv, TypeOK, SignalInv, GivenUp, NoLostSignal
<1> QED
  BY <1>1, DispatcherInvariant, PTL

\* Tasks begin in the order in which they were scheduled (FifoExecution).
THEOREM ExecutionIsFifo == Spec => []FifoExecution
<1>1. DispatcherInv => FifoExecution
  BY DEF DispatcherInv
<1> QED
  BY <1>1, DispatcherInvariant, PTL

\* At most one task begins after is_stopped is set (AtMostOneTaskAfterStop).
THEOREM StopIsPrompt == Spec => []AtMostOneTaskAfterStop
<1>1. DispatcherInv => AtMostOneTaskAfterStop
  BY DEF DispatcherInv, StopInv, AtMostOneTaskAfterStop
<1> QED
  BY <1>1, DispatcherInvariant, PTL

-----------------------------------------------------------------------------
(* join on the dispatcher *)

\* The worker executes entry x.
Running(x) == wpc = "executing" /\ executed[Len(executed)] = x

\* A task is scheduled once: it is with nobody, with one thread that is about
\* to push it, or among the accepted tasks, at one place.
OnceInv ==
  /\ \A t \in Threads : spc[t] = "push" =>
       task[t] \notin unscheduled /\ \A k \in 1 .. Len(accepted) : accepted[k] # task[t]
  /\ \A t, u \in Threads : (spc[t] = "push" /\ spc[u] = "push" /\ task[t] = task[u]) => t = u
  /\ \A k \in 1 .. Len(accepted) : accepted[k] \notin unscheduled
  /\ \A k, l \in 1 .. Len(accepted) : accepted[k] = accepted[l] => k = l
  /\ \A k \in 1 .. Len(scheduled_actors) :
       \E l \in 1 .. Len(accepted) : scheduled_actors[k] = accepted[l]
  /\ wpc = "executing" => Len(executed) > 0

\* The pool holds different yield tasks that carry nothing; a continuation that
\* waits is in its yield task, and the yield task that is executed is not in
\* the pool.
CarryInv ==
  /\ callback \in Seq(Continuations \cup {NoCallback})
  /\ carrier \in [Continuations -> Nat]
  /\ pool \in Seq(Nat)
  /\ \A k \in 1 .. Len(pool) :
       pool[k] \in 1 .. Len(callback) /\ callback[pool[k]] = NoCallback
  /\ \A k, l \in 1 .. Len(pool) : pool[k] = pool[l] => k = l
  /\ \A x \in Continuations : x \in Waiting =>
       carrier[x] \in 1 .. Len(callback) /\ callback[carrier[x]] = x
  /\ \A x \in Continuations : Running(x) =>
       /\ carrier[x] \in 1 .. Len(callback) /\ callback[carrier[x]] \in {x, NoCallback}
       /\ \A k \in 1 .. Len(pool) : pool[k] # carrier[x]

-----------------------------------------------------------------------------
(* The dispatcher within the composition *)

\* The entries of the queue
LEMMA Entries ==
  /\ Continuations \subseteq Tasks /\ "poll" \in Tasks /\ "poll" \notin Continuations
  /\ NoCallback \notin Continuations
  /\ Origin \in Threads /\ Worker \in Threads
BY ZenonT(30), AwaitAssumption DEF Continuations, Threads

\* Every step of the composition is a step of the dispatcher, or none of its
\* variables changes.
LEMMA StepsAreDispatcherSteps ==
  ASSUME [AwaitNext]_all_vars
  PROVE  [Next]_vars
<1> USE Entries
<1>1. CASE PollOnOrigin
  BY ZenonT(30), <1>1 DEF PollOnOrigin, EnqueueContinuation, Next, Continuations
<1>2. CASE RivalWakes
  BY <1>2 DEF RivalWakes
<1>3. CASE Dispatch
  BY ZenonT(30), <1>3 DEF Dispatch, Next, Working
<1>4. CASE PollOnTarget \/ WakeOther
  BY ZenonT(30), <1>4 DEF PollOnTarget, WakeOther
<1>5. CASE WakeJoined
  BY ZenonT(30), <1>5 DEF WakeJoined, Next
<1>6. CASE Recycle
  BY ZenonT(30), <1>6 DEF Recycle, Next, Working
<1>7. ASSUME NEW t \in Threads, YieldOther(t) PROVE Next
  BY ZenonT(30), <1>7 DEF YieldOther, EnqueueContinuation, Next, Continuations
<1>8. ASSUME NEW t \in Threads, Schedule(t) \/ Dispose(t) \/ DisposeStop(t) PROVE Next
  BY ZenonT(30), <1>8 DEF Schedule, Dispose, Next
<1>9. CASE UNCHANGED all_vars
  BY <1>9 DEF all_vars
<1> QED
  BY ZenonT(30), <1>1, <1>2, <1>3, <1>4, <1>5, <1>6, <1>7, <1>8, <1>9 DEF AwaitNext, Execute

\* The composition implements the dispatcher: join and the yield tasks use it
\* only through schedule and execute.
THEOREM AwaitImplementsDispatcher == AwaitSpec => Spec
<1>1. AwaitInit => Init
  BY DEF AwaitInit
<1>2. [AwaitNext]_all_vars => [Next]_vars
  BY StepsAreDispatcherSteps
<1> QED
  BY <1>1, <1>2, PTL DEF AwaitSpec, Spec

-----------------------------------------------------------------------------
(* Every task is scheduled once *)

\* The steps that neither take up a task nor move one in the queue
LEMMA QuietSteps ==
  ASSUME TypeOK, [Next]_vars
  PROVE  \/ \E t \in Threads, x \in Tasks : ScheduleCheck(t, x)
         \/ \E t \in Threads : SchedulePush(t)
         \/ TakeBatch \/ NextTask
         \/ /\ UNCHANGED <<scheduled_actors, task, unscheduled, accepted, executed>>
            /\ batch' = batch \/ batch' = << >>
            /\ wpc' = "executing" => wpc = "executing"
            /\ \A t \in Threads : spc'[t] = "push" => spc[t] = "push"
<1> USE DEF schedule_vars, worker_vars, dispose_vars
<1>1. ASSUME NEW t \in Threads, ScheduleSignal(t) \/ ScheduleRelease(t)
      PROVE  /\ UNCHANGED <<scheduled_actors, task, unscheduled, accepted, worker_vars>>
             /\ \A u \in Threads : spc'[u] = "push" => spc[u] = "push"
  BY ZenonT(30), <1>1 DEF ScheduleSignal, ScheduleRelease, TypeOK
<1>2. ASSUME NEW t \in Threads, DisposeStop(t) \/ Disposing(t)
      PROVE  UNCHANGED <<scheduled_actors, schedule_vars, worker_vars>>
  BY ZenonT(30), <1>2 DEF DisposeStop, Disposing, DisposeRelease, DisposeTake, DisposeJoin
<1>3. CASE \/ Wait \/ CheckAfterWait \/ ClearPending \/ ExecuteReturns \/ CheckAfterTask
           \/ CheckAfterDrain
  <2>1. /\ UNCHANGED <<scheduled_actors, schedule_vars, executed>>
        /\ batch' = batch \/ batch' = << >>
    BY ZenonT(30), <1>3 DEF Wait, CheckAfterWait, ClearPending, ExecuteReturns, CheckAfterTask,
                CheckAfterDrain
  <2>2. wpc' # "executing"
    BY ZenonT(30), <1>3 DEF Wait, CheckAfterWait, ClearPending, ExecuteReturns, CheckAfterTask,
                CheckAfterDrain
  <2> QED
    BY <2>1, <2>2
<1>4. CASE UNCHANGED vars
  BY <1>4 DEF vars
<1> QED
  BY ZenonT(30), <1>1, <1>2, <1>3, <1>4 DEF Next, Scheduling, Working

\* A thread takes a task up, which nobody else then can, ...
LEMMA CheckOnce ==
  ASSUME TypeOK, OnceInv, NEW t \in Threads, NEW x \in Tasks, ScheduleCheck(t, x)
  PROVE  OnceInv'
<1>1. /\ UNCHANGED <<scheduled_actors, accepted, worker_vars>>
      /\ x \in unscheduled /\ unscheduled' = unscheduled \ {x}
      /\ task'[t] = x
      /\ \A u \in Threads : u # t => task'[u] = task[u] /\ spc'[u] = spc[u]
  BY ZenonT(30) DEF ScheduleCheck, TypeOK
<1>2. \A k \in 1 .. Len(accepted) : accepted[k] # x
  BY <1>1 DEF OnceInv
<1>3. \A u \in Threads : spc[u] = "push" => task[u] # x
  BY <1>1 DEF OnceInv
<1>4. \A u \in Threads : spc'[u] = "push" =>
        task'[u] \notin unscheduled' /\ \A k \in 1 .. Len(accepted') : accepted'[k] # task'[u]
  BY SMTT(30), <1>1, <1>2 DEF OnceInv
<1>5. \A u, v \in Threads :
        (spc'[u] = "push" /\ spc'[v] = "push" /\ task'[u] = task'[v]) => u = v
  BY SMTT(30), <1>1, <1>3 DEF OnceInv
<1> QED
  BY ZenonT(30), <1>1, <1>4, <1>5 DEF OnceInv, worker_vars

\* ... and pushes it.
LEMMA PushOnce ==
  ASSUME TypeOK, OnceInv, NEW t \in Threads, SchedulePush(t)
  PROVE  OnceInv'
<1>1. /\ UNCHANGED <<task, unscheduled, worker_vars>>
      /\ spc[t] = "push" /\ spc'[t] = "signal"
      /\ \A u \in Threads : u # t => spc'[u] = spc[u]
  BY ZenonT(30) DEF SchedulePush, TypeOK
<1>2. /\ Len(accepted) \in Nat /\ Len(scheduled_actors) \in Nat
      /\ Len(accepted') = Len(accepted) + 1
      /\ Len(scheduled_actors') = Len(scheduled_actors) + 1
      /\ \A k \in 1 .. Len(accepted) : accepted'[k] = accepted[k]
      /\ accepted'[Len(accepted) + 1] = task[t]
      /\ \A k \in 1 .. Len(scheduled_actors) : scheduled_actors'[k] = scheduled_actors[k]
      /\ scheduled_actors'[Len(scheduled_actors) + 1] = task[t]
  BY SMTT(30) DEF SchedulePush, TypeOK
<1>3. \A u \in Threads : spc'[u] = "push" =>
        task'[u] \notin unscheduled' /\ \A k \in 1 .. Len(accepted') : accepted'[k] # task'[u]
  <2> TAKE u \in Threads
  <2> HAVE spc'[u] = "push"
  <2>1. /\ u # t /\ spc[u] = "push" /\ task'[u] = task[u] /\ unscheduled' = unscheduled
        /\ accepted'[Len(accepted) + 1] = task[t]
    BY <1>1, <1>2
  <2>2. /\ task[u] \notin unscheduled /\ task[u] # task[t]
        /\ \A k \in 1 .. Len(accepted) : accepted[k] # task[u]
    BY ZenonT(30), <1>1, <2>1 DEF OnceInv
  <2>3. \A k \in 1 .. Len(accepted') : k \in 1 .. Len(accepted) \/ k = Len(accepted) + 1
    BY <1>2
  <2>4. \A k \in 1 .. Len(accepted) : accepted'[k] = accepted[k]
    BY <1>2
  <2> QED
    BY ZenonT(30), <2>1, <2>2, <2>3, <2>4
<1>4. \A u, v \in Threads :
        (spc'[u] = "push" /\ spc'[v] = "push" /\ task'[u] = task'[v]) => u = v
  BY <1>1 DEF OnceInv
<1>5. /\ \A k \in 1 .. Len(accepted') : accepted'[k] \notin unscheduled'
      /\ \A k, l \in 1 .. Len(accepted') : accepted'[k] = accepted'[l] => k = l
  <2>1. /\ task[t] \notin unscheduled
        /\ \A k \in 1 .. Len(accepted) : accepted[k] # task[t]
    BY <1>1 DEF OnceInv
  <2>2. \A k \in 1 .. Len(accepted') : k \in 1 .. Len(accepted) \/ k = Len(accepted) + 1
    BY <1>2
  <2>3. \A k \in 1 .. Len(accepted') : accepted'[k] \notin unscheduled'
    BY ZenonT(30), <1>1, <1>2, <2>1, <2>2 DEF OnceInv
  <2>4. ASSUME NEW k \in 1 .. Len(accepted'), NEW l \in 1 .. Len(accepted'),
               accepted'[k] = accepted'[l]
        PROVE  k = l
    <3>1. CASE k \in 1 .. Len(accepted) /\ l \in 1 .. Len(accepted)
      BY <1>2, <2>4, <3>1 DEF OnceInv
    <3>2. CASE ~ (k \in 1 .. Len(accepted) /\ l \in 1 .. Len(accepted))
      BY <1>2, <2>1, <2>2, <2>4, <3>2
    <3> QED
      BY <3>1, <3>2
  <2> QED
    BY <2>3, <2>4
<1>6. \A k \in 1 .. Len(scheduled_actors') :
        \E l \in 1 .. Len(accepted') : scheduled_actors'[k] = accepted'[l]
  <2> TAKE k \in 1 .. Len(scheduled_actors')
  <2>1. CASE k = Len(scheduled_actors) + 1
    BY <1>2, <2>1
  <2>2. CASE k \in 1 .. Len(scheduled_actors)
    <3>1. PICK l \in 1 .. Len(accepted) : scheduled_actors[k] = accepted[l]
      BY <2>2 DEF OnceInv
    <3> QED
      BY <1>2, <2>2, <3>1
  <2> QED
    BY SMTT(30), <1>2, <2>1, <2>2
<1> QED
  BY ZenonT(30), <1>1, <1>3, <1>4, <1>5, <1>6 DEF OnceInv, worker_vars

\* OnceInv is kept by every step of the dispatcher.
LEMMA OnceStep ==
  ASSUME TypeOK, OnceInv, [Next]_vars
  PROVE  OnceInv'
<1>1. CASE TakeBatch
  <2>1. /\ UNCHANGED schedule_vars /\ Len(scheduled_actors') = 0 /\ wpc' # "executing"
    BY <1>1 DEF TakeBatch
  <2> QED
    BY SMTT(30), <2>1 DEF OnceInv, schedule_vars
<1>2. CASE NextTask
  <2>1. UNCHANGED <<schedule_vars, scheduled_actors>>
    BY <1>2 DEF NextTask
  <2>2. wpc' = "executing" => Len(executed') > 0
    BY SMTT(30), <1>2 DEF NextTask, TypeOK
  <2> QED
    BY ZenonT(30), <2>1, <2>2 DEF OnceInv, schedule_vars
<1>3. CASE /\ UNCHANGED <<scheduled_actors, task, unscheduled, accepted, executed>>
           /\ wpc' = "executing" => wpc = "executing"
           /\ \A t \in Threads : spc'[t] = "push" => spc[t] = "push"
  BY <1>3 DEF OnceInv
<1> QED
  BY <1>1, <1>2, <1>3, QuietSteps, CheckOnce, PushOnce

\* The task being executed is the last of the executed ones, at its place among
\* the accepted ones.
LEMMA LastExecuted ==
  ASSUME DispatcherInv, OnceInv, wpc = "executing"
  PROVE  /\ Len(executed) \in 1 .. Len(accepted)
         /\ executed[Len(executed)] = accepted[Len(executed)]
<1>1. Len(executed) \in Nat /\ Len(accepted) \in Nat
  BY DEF DispatcherInv, TypeOK
<1>2. /\ Len(executed) > 0 /\ Len(executed) <= Len(accepted)
      /\ \A k \in 1 .. Len(executed) : executed[k] = accepted[k]
  BY DEF DispatcherInv, OnceInv, FifoExecution
<1> QED
  BY <1>1, <1>2

\* A task nobody has scheduled neither waits nor runs, ...
LEMMA UnscheduledIsNowhere ==
  ASSUME DispatcherInv, OnceInv, NEW x \in unscheduled
  PROVE  x \notin Waiting /\ ~ Running(x)
<1>1. \A t \in Threads : spc[t] = "push" => task[t] # x
  BY DEF OnceInv
<1>2. \A k \in 1 .. Len(scheduled_actors) : scheduled_actors[k] # x
  BY SMTT(30) DEF OnceInv
<1>3. ASSUME NEW k \in 1 .. Len(batch)
      PROVE  batch[k] # x
  <2>1. ~ GivenUp
    BY SMTT(30), <1>3 DEF DispatcherInv, OrderInv, GivenUp
  <2>2. /\ Len(executed) \in Nat /\ Len(batch) \in Nat /\ Len(scheduled_actors) \in Nat
        /\ Len(accepted) = Len(executed) + Len(batch) + Len(scheduled_actors)
        /\ batch[k] = accepted[Len(executed) + k]
    BY SMTT(30), <1>3, <2>1 DEF DispatcherInv, OrderInv, TypeOK
  <2>3. Len(executed) + k \in 1 .. Len(accepted)
    BY <2>2
  <2> QED
    BY SMTT(30), <2>2, <2>3 DEF OnceInv
<1>4. ~ Running(x)
  <2> SUFFICES ASSUME Running(x) PROVE FALSE
    OBVIOUS
  <2>1. /\ Len(executed) \in 1 .. Len(accepted)
        /\ executed[Len(executed)] = accepted[Len(executed)]
    BY LastExecuted DEF Running
  <2> QED
    BY ZenonT(30), <2>1 DEF Running, OnceInv
<1> QED
  BY <1>1, <1>2, <1>3, <1>4 DEF Waiting

\* ... and one that runs does not wait.
LEMMA RunningWaitsNot ==
  ASSUME DispatcherInv, OnceInv, NEW x, Running(x)
  PROVE  x \notin Waiting
<1>1. /\ Len(executed) \in 1 .. Len(accepted)
      /\ accepted[Len(executed)] = x
  BY LastExecuted DEF Running
<1>2. \A t \in Threads : spc[t] = "push" => task[t] # x
  BY <1>1 DEF OnceInv
<1>3. /\ Len(executed) \in Nat /\ Len(batch) \in Nat /\ Len(scheduled_actors) \in Nat
      /\ Len(accepted) = Len(executed) + Len(batch) + Len(scheduled_actors)
      /\ \A k \in 1 .. Len(batch) : batch[k] = accepted[Len(executed) + k]
      /\ \A k \in 1 .. Len(scheduled_actors) :
            scheduled_actors[k] = accepted[Len(executed) + Len(batch) + k]
  BY SMTT(30) DEF Running, DispatcherInv, OrderInv, GivenUp, TypeOK
<1>4. \A k \in 1 .. Len(accepted) : k # Len(executed) => accepted[k] # x
  BY <1>1 DEF OnceInv
<1>5. ASSUME NEW k \in 1 .. Len(batch)
      PROVE  batch[k] # x
  BY <1>3, <1>4
<1>6. ASSUME NEW k \in 1 .. Len(scheduled_actors)
      PROVE  scheduled_actors[k] # x
  BY <1>3, <1>4
<1> QED
  BY <1>2, <1>5, <1>6 DEF Waiting

\* A call of schedule adds the task it takes up to those that wait.
LEMMA CheckWaits ==
  ASSUME TypeOK, NEW t \in Threads, NEW x \in Tasks, ScheduleCheck(t, x)
  PROVE  /\ Waiting' \subseteq Waiting \cup {x}
         /\ \A y : Running(y)' <=> Running(y)
<1>1. /\ UNCHANGED <<scheduled_actors, batch, wpc, executed>>
      /\ task'[t] = x
      /\ \A u \in Threads : u # t => task'[u] = task[u] /\ spc'[u] = spc[u]
  BY ZenonT(30) DEF ScheduleCheck, TypeOK, worker_vars
<1> QED
  BY ZenonT(30), <1>1 DEF Waiting, Running

\* A push moves a task from a thread to the queue.
LEMMA PushWaits ==
  ASSUME TypeOK, NEW t \in Threads, SchedulePush(t)
  PROVE  /\ Waiting' \subseteq Waiting
         /\ \A y : Running(y)' <=> Running(y)
<1>1. /\ UNCHANGED <<task, batch, wpc, executed>>
      /\ spc[t] = "push" /\ spc'[t] = "signal"
      /\ \A u \in Threads : u # t => spc'[u] = spc[u]
  BY ZenonT(30) DEF SchedulePush, TypeOK, worker_vars
<1>2. /\ Len(scheduled_actors) \in Nat
      /\ Len(scheduled_actors') = Len(scheduled_actors) + 1
      /\ \A k \in 1 .. Len(scheduled_actors) : scheduled_actors'[k] = scheduled_actors[k]
      /\ scheduled_actors'[Len(scheduled_actors) + 1] = task[t]
  BY SMTT(30) DEF SchedulePush, TypeOK
<1>3. ASSUME NEW k \in 1 .. Len(scheduled_actors')
      PROVE  scheduled_actors'[k] \in Waiting
  <2>1. CASE k = Len(scheduled_actors) + 1
    BY <1>1, <1>2, <2>1 DEF Waiting
  <2>2. CASE k \in 1 .. Len(scheduled_actors)
    BY <1>2, <2>2 DEF Waiting
  <2> QED
    BY <1>2, <2>1, <2>2
<1>4. \A u \in Threads : spc'[u] = "push" => task'[u] \in Waiting
  BY <1>1 DEF Waiting
<1>5. \A k \in 1 .. Len(batch') : batch'[k] \in Waiting
  BY <1>1 DEF Waiting
<1>6. Waiting' \subseteq Waiting
  BY <1>3, <1>4, <1>5 DEF Waiting
<1> QED
  BY <1>1, <1>6 DEF Running

\* Of the other steps, only the start of a task changes what runs, and it takes
\* the task from those that wait.
LEMMA OtherWaits ==
  ASSUME TypeOK, [Next]_vars,
         ~ \E t \in Threads, x \in Tasks : ScheduleCheck(t, x)
  PROVE  /\ Waiting' \subseteq Waiting
         /\ \A y : Running(y)' => Running(y) \/ y \in Waiting
<1>1. CASE TakeBatch
  <2>1. /\ UNCHANGED schedule_vars /\ Len(scheduled_actors') = 0
        /\ batch' = scheduled_actors /\ wpc' # "executing"
    BY <1>1 DEF TakeBatch
  <2> QED
    BY SMTT(30), <2>1 DEF Waiting, Running, schedule_vars
<1>2. CASE NextTask
  <2>1. UNCHANGED <<schedule_vars, scheduled_actors>>
    BY <1>2 DEF NextTask
  <2>2. CASE batch = << >>
    BY ZenonT(30), <1>2, <2>1, <2>2 DEF NextTask, Waiting, Running, schedule_vars
  <2>3. CASE batch # << >>
    <3>1. /\ executed' = Append(executed, Head(batch)) /\ batch' = Tail(batch)
      BY <1>2, <2>3 DEF NextTask
    <3>2. /\ Len(batch) \in Nat \ {0} /\ Len(batch') = Len(batch) - 1
          /\ \A k \in 1 .. Len(batch') : k + 1 \in 1 .. Len(batch) /\ batch'[k] = batch[k + 1]
      BY SMTT(30), <2>3, <3>1 DEF TypeOK
    <3>3. executed'[Len(executed')] = batch[1]
      BY SMTT(30), <2>3, <3>1 DEF TypeOK
    <3>4. batch[1] \in Waiting
      BY SMTT(30), <3>2 DEF Waiting
    <3>5. \A k \in 1 .. Len(batch') : batch'[k] \in Waiting
      BY ZenonT(30), <3>2 DEF Waiting
    <3>6. Waiting' \subseteq Waiting
      BY ZenonT(30), <2>1, <3>5 DEF Waiting, schedule_vars
    <3> QED
      BY <3>3, <3>4, <3>6 DEF Running
  <2> QED
    BY <2>2, <2>3
<1>3. CASE /\ UNCHANGED <<scheduled_actors, task, unscheduled, accepted, executed>>
           /\ batch' = batch \/ batch' = << >>
           /\ wpc' = "executing" => wpc = "executing"
           /\ \A t \in Threads : spc'[t] = "push" => spc[t] = "push"
  BY SMTT(30), <1>3 DEF Waiting, Running
<1> QED
  BY <1>1, <1>2, <1>3, QuietSteps, PushWaits

-----------------------------------------------------------------------------
(* What the yield tasks carry *)

\* While the yield tasks stay as they are, only tasks that waited wait or run.
LEMMA CarryFrame ==
  ASSUME CarryInv, DispatcherInv, OnceInv, UNCHANGED yield_vars,
         Waiting' \subseteq Waiting, \A y : Running(y)' => Running(y) \/ y \in Waiting
  PROVE  CarryInv'
<1>1. UNCHANGED <<pool, callback, carrier>>
  BY DEF yield_vars
<1>2. \A x \in Continuations : x \in Waiting =>
        \A k \in 1 .. Len(pool) : pool[k] # carrier[x]
  BY SMTT(30), Entries DEF CarryInv
<1> QED
  BY <1>1, <1>2 DEF CarryInv

\* A pool without its last yield task
LEMMA PopLast ==
  ASSUME NEW s \in Seq(Nat), s # << >>
  PROVE  LET rest == SubSeq(s, 1, Len(s) - 1)
         IN  /\ rest \in Seq(Nat) /\ Len(rest) = Len(s) - 1
             /\ \A k \in 1 .. Len(rest) : rest[k] = s[k]
<1>1. Len(SubSeq(s, 1, Len(s) - 1)) = Len(s) - 1
  <2>1. \A n \in Nat : n <= Len(s) => Len(SubSeq(s, 1, n)) = n
    OBVIOUS
  <2>2. Len(s) - 1 \in Nat /\ Len(s) - 1 <= Len(s)
    OBVIOUS
  <2> QED
    BY ZenonT(30), <2>1, <2>2
<1>2. SubSeq(s, 1, Len(s) - 1) \in Seq(Nat)
  OBVIOUS
<1>3. \A k \in 1 .. Len(s) - 1 : SubSeq(s, 1, Len(s) - 1)[k] = s[k]
  OBVIOUS
<1> QED
  BY <1>1, <1>2, <1>3

\* A yield task is taken for continuation y, which nobody has scheduled.
LEMMA CarryEnqueue ==
  ASSUME CarryInv, DispatcherInv, OnceInv, NEW t \in Threads, NEW y \in Continuations,
         EnqueueContinuation(t, y)
  PROVE  CarryInv'
<1>1. ScheduleCheck(t, y) /\ PopSet(y) /\ y \in Tasks
  BY Entries DEF EnqueueContinuation
<1>2. y \notin Waiting /\ ~ Running(y)
  BY <1>1, UnscheduledIsNowhere DEF ScheduleCheck
<1>3. /\ \A x \in Continuations : x \in Waiting' => x \in Waiting \/ x = y
      /\ \A x \in Continuations : Running(x)' => Running(x) /\ x # y
  BY <1>1, <1>2, CheckWaits DEF DispatcherInv
<1> DEFINE n == carrier'[y]
<1>4. /\ carrier' = [carrier EXCEPT ![y] = n]
      /\ n \in Nat /\ n \in 1 .. Len(callback') /\ callback'[n] = y
      /\ callback' \in Seq(Continuations \cup {NoCallback})
      /\ \A m \in 1 .. Len(callback) : m \in 1 .. Len(callback')
      /\ \A m \in 1 .. Len(callback) : m # n => callback'[m] = callback[m]
      /\ \A x \in Continuations : x \in Waiting \/ Running(x) => carrier[x] # n
      /\ pool' \in Seq(Nat)
      /\ \A k \in 1 .. Len(pool') :
            k \in 1 .. Len(pool) /\ pool'[k] = pool[k] /\ pool'[k] # n
  <2>1. CASE pool = << >>
    <3>1. /\ callback' = Append(callback, y)
          /\ carrier' = [carrier EXCEPT ![y] = Len(callback')]
          /\ pool' = pool /\ Len(pool) = 0
      BY <1>1, <2>1 DEF PopSet
    <3>2. /\ callback' \in Seq(Continuations \cup {NoCallback})
          /\ Len(callback) \in Nat /\ Len(callback') = Len(callback) + 1
          /\ callback'[Len(callback')] = y
          /\ \A m \in 1 .. Len(callback) : callback'[m] = callback[m]
      BY SMTT(30), <3>1 DEF CarryInv
    <3>3. \A x \in Continuations : x \in Waiting \/ Running(x) => carrier[x] # Len(callback')
      BY SMTT(30), <3>2 DEF CarryInv
    <3>4. pool \in Seq(Nat) /\ n = Len(callback')
      BY <3>1 DEF CarryInv
    <3> HIDE DEF n
    <3> QED
      BY SMTT(30), <3>1, <3>2, <3>3, <3>4
  <2>2. CASE pool # << >>
    <3>1. /\ callback' = [callback EXCEPT ![pool[Len(pool)]] = y]
          /\ carrier' = [carrier EXCEPT ![y] = pool[Len(pool)]]
          /\ pool' = SubSeq(pool, 1, Len(pool) - 1)
      BY <1>1, <2>2 DEF PopSet
    <3>2. pool \in Seq(Nat) /\ n = pool[Len(pool)]
      BY <3>1 DEF CarryInv
    <3> HIDE DEF n
    <3>3. Len(pool) \in Nat \ {0}
      BY <2>2, <3>2
    <3>4. /\ pool' \in Seq(Nat) /\ Len(pool') = Len(pool) - 1
          /\ \A k \in 1 .. Len(pool') : pool'[k] = pool[k]
      BY <2>2, <3>1, <3>2, PopLast
    <3>5. Len(pool) \in 1 .. Len(pool)
      BY <3>3
    <3>6. n \in 1 .. Len(callback) /\ callback[n] = NoCallback
      BY <3>2, <3>5 DEF CarryInv
    <3>7. /\ callback' \in Seq(Continuations \cup {NoCallback})
          /\ Len(callback') = Len(callback) /\ Len(callback) \in Nat
          /\ callback'[n] = y
          /\ \A m \in 1 .. Len(callback) : m # n => callback'[m] = callback[m]
      BY SMTT(30), <3>1, <3>2, <3>6 DEF CarryInv
    <3>8. \A x \in Continuations : x \in Waiting => carrier[x] # n
      BY SMTT(30), <3>6, Entries DEF CarryInv
    <3>9. \A x \in Continuations : Running(x) => carrier[x] # n
      BY <3>2, <3>5 DEF CarryInv
    <3>10. ASSUME NEW k \in 1 .. Len(pool')
           PROVE  k \in 1 .. Len(pool) /\ pool'[k] = pool[k] /\ pool'[k] # n
      <4>1. k \in 1 .. Len(pool) /\ k # Len(pool) /\ pool'[k] = pool[k]
        BY <3>3, <3>4
      <4> QED
        BY SMTT(30), <3>2, <3>5, <4>1 DEF CarryInv
    <3>11. carrier' = [carrier EXCEPT ![y] = n] /\ n \in Nat
      BY <3>1, <3>2, <3>6
    <3> QED
      BY <3>4, <3>6, <3>7, <3>8, <3>9, <3>10, <3>11
  <2> QED
    BY <2>1, <2>2
<1> HIDE DEF n
<1>5. /\ carrier' \in [Continuations -> Nat] /\ carrier'[y] = n
      /\ \A x \in Continuations : x # y => carrier'[x] = carrier[x]
  BY ZenonT(30), <1>4 DEF CarryInv
<1>6. ASSUME NEW k \in 1 .. Len(pool')
      PROVE  pool'[k] \in 1 .. Len(callback') /\ callback'[pool'[k]] = NoCallback
  <2>1. pool[k] \in 1 .. Len(callback) /\ callback[pool[k]] = NoCallback
    BY <1>4 DEF CarryInv
  <2> QED
    BY ZenonT(30), <1>4, <2>1
<1>7. ASSUME NEW k \in 1 .. Len(pool'), NEW l \in 1 .. Len(pool'), pool'[k] = pool'[l]
      PROVE  k = l
  <2>1. k \in 1 .. Len(pool) /\ l \in 1 .. Len(pool) /\ pool[k] = pool[l]
    BY <1>4, <1>7
  <2> QED
    BY <2>1 DEF CarryInv
<1>8. ASSUME NEW x \in Continuations, x \in Waiting'
      PROVE  carrier'[x] \in 1 .. Len(callback') /\ callback'[carrier'[x]] = x
  <2>1. CASE x = y
    BY <1>4, <1>5, <2>1
  <2>2. CASE x # y
    <3>1. carrier[x] \in 1 .. Len(callback) /\ callback[carrier[x]] = x /\ carrier[x] # n
      BY ZenonT(30), <1>3, <1>4, <1>8, <2>2 DEF CarryInv
    <3> QED
      BY <1>4, <1>5, <2>2, <3>1
  <2> QED
    BY <2>1, <2>2
<1>9. ASSUME NEW x \in Continuations, Running(x)'
      PROVE  /\ carrier'[x] \in 1 .. Len(callback')
             /\ callback'[carrier'[x]] \in {x, NoCallback}
             /\ \A k \in 1 .. Len(pool') : pool'[k] # carrier'[x]
  <2>1. Running(x) /\ x # y /\ carrier'[x] = carrier[x] /\ carrier[x] # n
    BY <1>3, <1>4, <1>5, <1>9
  <2>2. /\ carrier[x] \in 1 .. Len(callback) /\ callback[carrier[x]] \in {x, NoCallback}
        /\ \A k \in 1 .. Len(pool) : pool[k] # carrier[x]
    BY ZenonT(30), <2>1 DEF CarryInv
  <2>3. carrier[x] \in 1 .. Len(callback') /\ callback'[carrier[x]] = callback[carrier[x]]
    BY ZenonT(30), <1>4, <2>1, <2>2
  <2>4. \A k \in 1 .. Len(pool') : pool'[k] # carrier[x]
    BY ZenonT(30), <1>4, <2>2
  <2> QED
    BY ZenonT(30), <2>1, <2>2, <2>3, <2>4
<1> QED
  BY ZenonT(30), <1>4, <1>5, <1>6, <1>7, <1>8, <1>9 DEF CarryInv

\* The callback of continuation y, which runs, is taken.
LEMMA CarryWake ==
  ASSUME CarryInv, DispatcherInv, OnceInv, NEW y \in Continuations,
         Running(y), Callback(y) # NoCallback,
         callback' = [callback EXCEPT ![carrier[y]] = NoCallback],
         UNCHANGED <<pool, carrier>>,
         \A x \in Continuations : x \in Waiting' => x \in Waiting,
         \A x : Running(x)' <=> Running(x)
  PROVE  CarryInv'
<1>1. y \notin Waiting
  BY RunningWaitsNot
<1>2. carrier[y] \in 1 .. Len(callback) /\ callback[carrier[y]] = y
  BY ZenonT(30) DEF CarryInv, Callback
<1>3. /\ callback' \in Seq(Continuations \cup {NoCallback})
      /\ Len(callback') = Len(callback)
      /\ callback'[carrier[y]] = NoCallback
      /\ \A m \in 1 .. Len(callback) : m # carrier[y] => callback'[m] = callback[m]
  BY SMTT(30), <1>2 DEF CarryInv
<1>4. \A k \in 1 .. Len(pool) :
        pool[k] \in 1 .. Len(callback') /\ callback'[pool[k]] = NoCallback
  BY <1>3 DEF CarryInv
<1>5. ASSUME NEW x \in Continuations, x \in Waiting'
      PROVE  carrier[x] \in 1 .. Len(callback') /\ callback'[carrier[x]] = x
  <2>1. carrier[x] \in 1 .. Len(callback) /\ callback[carrier[x]] = x /\ x # y
    BY <1>1, <1>5 DEF CarryInv
  <2> QED
    BY <1>2, <1>3, <2>1
<1>6. ASSUME NEW x \in Continuations, Running(x)'
      PROVE  /\ carrier[x] \in 1 .. Len(callback')
             /\ callback'[carrier[x]] \in {x, NoCallback}
             /\ \A k \in 1 .. Len(pool) : pool[k] # carrier[x]
  <2>1. x = y
    BY <1>6 DEF Running
  <2> QED
    BY <1>2, <1>3, <2>1 DEF CarryInv
<1> QED
  BY SMTT(30), <1>3, <1>4, <1>5, <1>6 DEF CarryInv

\* The yield task of continuation y goes back to the pool.
LEMMA CarryRecycle ==
  ASSUME CarryInv, DispatcherInv, OnceInv, NEW y \in Continuations,
         Running(y), Callback(y) = NoCallback,
         pool' = Append(pool, carrier[y]),
         UNCHANGED <<callback, carrier>>,
         Waiting' \subseteq Waiting, wpc' # "executing"
  PROVE  CarryInv'
<1>1. /\ carrier[y] \in 1 .. Len(callback) /\ callback[carrier[y]] = NoCallback
      /\ \A k \in 1 .. Len(pool) : pool[k] # carrier[y]
  BY ZenonT(30) DEF CarryInv, Callback
<1>2. /\ pool' \in Seq(Nat) /\ Len(pool) \in Nat /\ Len(pool') = Len(pool) + 1
      /\ pool'[Len(pool) + 1] = carrier[y]
      /\ \A k \in 1 .. Len(pool) : pool'[k] = pool[k]
  BY SMTT(30) DEF CarryInv
<1>3. \A k \in 1 .. Len(pool') : k \in 1 .. Len(pool) \/ k = Len(pool) + 1
  BY <1>2
<1>4. \A k \in 1 .. Len(pool') :
        pool'[k] \in 1 .. Len(callback) /\ callback[pool'[k]] = NoCallback
  BY <1>1, <1>2, <1>3 DEF CarryInv
<1>5. ASSUME NEW k \in 1 .. Len(pool'), NEW l \in 1 .. Len(pool'), pool'[k] = pool'[l]
      PROVE  k = l
  <2>1. CASE k \in 1 .. Len(pool) /\ l \in 1 .. Len(pool)
    BY SMTT(30), <1>2, <1>5, <2>1 DEF CarryInv
  <2>2. CASE ~ (k \in 1 .. Len(pool) /\ l \in 1 .. Len(pool))
    BY <1>1, <1>2, <1>3, <1>5, <2>2
  <2> QED
    BY <2>1, <2>2
<1>6. \A x : ~ Running(x)'
  BY DEF Running
<1> QED
  BY <1>2, <1>4, <1>5, <1>6 DEF CarryInv

\* CarryInv is kept by every step of the composition.
LEMMA CarryStep ==
  ASSUME CarryInv, DispatcherInv, OnceInv, [AwaitNext]_all_vars
  PROVE  CarryInv'
<1> USE Entries
<1>0. TypeOK /\ [Next]_vars
  BY StepsAreDispatcherSteps DEF DispatcherInv
<1>1. ASSUME NEW t \in Threads, NEW y \in Continuations, EnqueueContinuation(t, y)
      PROVE  CarryInv'
  BY <1>1, CarryEnqueue
<1>2. CASE UNCHANGED vars /\ UNCHANGED yield_vars
  <2>1. Waiting' = Waiting /\ \A y : Running(y)' <=> Running(y)
    BY ZenonT(30), <1>2 DEF Waiting, Running, vars, schedule_vars, worker_vars
  <2> QED
    BY <1>2, <2>1, CarryFrame
<1>3. CASE PollOnOrigin
  BY ZenonT(30), <1>1, <1>2, <1>3 DEF PollOnOrigin, Continuations
<1>4. CASE PollOnTarget \/ RivalWakes
  BY ZenonT(30), <1>2, <1>4 DEF PollOnTarget, RivalWakes
<1>5. ASSUME NEW t \in Threads, YieldOther(t)
      PROVE  CarryInv'
  BY ZenonT(30), <1>1, <1>5 DEF YieldOther, Continuations
<1>6. CASE WakeJoined
  <2>1. /\ Running("join") /\ Callback("join") # NoCallback /\ "join" \in Continuations
        /\ callback' = [callback EXCEPT ![carrier["join"]] = NoCallback]
        /\ UNCHANGED <<pool, carrier>>
    BY ZenonT(30), <1>6 DEF WakeJoined, Executing, MayCall, Running, Continuations
  <2>2. /\ \A x \in Continuations : x \in Waiting' => x \in Waiting
        /\ \A x : Running(x)' <=> Running(x)
    <3>1. CASE ScheduleCheck(Worker, "poll")
      BY <1>0, <3>1, CheckWaits
    <3>2. CASE UNCHANGED vars
      BY ZenonT(30), <3>2 DEF Waiting, Running, vars, schedule_vars, worker_vars
    <3> QED
      BY <1>6, <3>1, <3>2 DEF WakeJoined
  <2> QED
    BY ZenonT(30), <2>1, <2>2, CarryWake
<1>7. CASE WakeOther
  <2>1. /\ Running("yield") /\ Callback("yield") # NoCallback /\ "yield" \in Continuations
        /\ callback' = [callback EXCEPT ![carrier["yield"]] = NoCallback]
        /\ UNCHANGED <<pool, carrier>>
    BY ZenonT(30), <1>7 DEF WakeOther, Executing, MayCall, Running, Continuations
  <2>2. /\ \A x \in Continuations : x \in Waiting' => x \in Waiting
        /\ \A x : Running(x)' <=> Running(x)
    BY ZenonT(30), <1>7 DEF WakeOther, Waiting, Running, vars, schedule_vars, worker_vars
  <2> QED
    BY ZenonT(30), <2>1, <2>2, CarryWake
<1>8. CASE ~ \E t \in Threads, x \in Tasks : ScheduleCheck(t, x)
  <2>1. /\ Waiting' \subseteq Waiting
        /\ \A y : Running(y)' => Running(y) \/ y \in Waiting
    BY <1>0, <1>8, OtherWaits
  <2>2. CASE UNCHANGED yield_vars
    BY <2>1, <2>2, CarryFrame
  <2>3. CASE Recycle
    <3>1. wpc' # "executing"
      BY ZenonT(30), <2>3 DEF Recycle, ExecuteReturns
    <3>2. ASSUME NEW y \in Continuations, Executing(y), Callback(y) = NoCallback,
                 pool' = Append(pool, carrier[y]), UNCHANGED <<callback, carrier>>
          PROVE  CarryInv'
      <4>1. Running(y)
        BY ZenonT(30), <3>2 DEF Executing, MayCall, Running
      <4> QED
        BY <2>1, <3>1, <3>2, <4>1, CarryRecycle
    <3> QED
      BY <2>2, <2>3, <3>2 DEF Recycle
  <2> QED
    BY ZenonT(30), <1>1, <1>3, <1>4, <1>5, <1>6, <1>7, <2>2, <2>3
       DEF AwaitNext, Execute, Dispatch, Schedule, Dispose, all_vars
<1>9. ASSUME NEW t \in Threads, NEW x \in Tasks, ScheduleCheck(t, x)
      PROVE  ~ (Dispatch \/ Recycle \/ (\E u \in Threads : Schedule(u) \/ Dispose(u)
                  \/ (DisposeStop(u) /\ UNCHANGED <<yield_vars, await_vars>>)))
  <2>1. unscheduled' # unscheduled
    BY <1>9 DEF ScheduleCheck
  <2> QED
    BY ZenonT(30), <2>1 DEF Dispatch, Recycle, Schedule, Dispose, Scheduling, Disposing,
                            DisposeStop, Wait, CheckAfterWait, ClearPending, TakeBatch,
                            NextTask, CheckAfterTask, CheckAfterDrain, ExecuteReturns,
                            SchedulePush, ScheduleSignal, ScheduleRelease, DisposeRelease,
                            DisposeTake, DisposeJoin, schedule_vars
<1>10. CASE UNCHANGED all_vars
  BY <1>2, <1>10 DEF all_vars
<1> QED
  BY ZenonT(30), <1>1, <1>2, <1>3, <1>4, <1>5, <1>6, <1>7, <1>8, <1>9, <1>10 DEF AwaitNext,
                                                                                 Execute

-----------------------------------------------------------------------------
(* The theorems *)

\* The initial states carry nothing, and nothing has been scheduled.
LEMMA AwaitInitially ==
  ASSUME AwaitInit
  PROVE  OnceInv /\ CarryInv
<1>1. OnceInv
  BY SMTT(30) DEF AwaitInit, Init, OnceInv
<1>2. \A x : x \notin Waiting /\ ~ Running(x)
  BY SMTT(30) DEF AwaitInit, Init, Waiting, Running
<1> QED
  BY SMTT(30), <1>1, <1>2 DEF AwaitInit, CarryInv

\* What the dispatcher guarantees of its signal, queue, batch and stop flag holds
\* while ActorAwait and its yield tasks use it, in particular NoLostSignal,
\* FifoExecution and AtMostOneTaskAfterStop.
THEOREM AwaitKeepsDispatcher ==
  AwaitSpec => [](NoLostSignal /\ FifoExecution /\ AtMostOneTaskAfterStop)
<1>1. Spec => [](NoLostSignal /\ FifoExecution /\ AtMostOneTaskAfterStop)
  BY SignalNotLost, ExecutionIsFifo, StopIsPrompt, PTL
<1> QED
  BY <1>1, AwaitImplementsDispatcher, PTL

\* The pool and the yield tasks agree, in every reachable state, with what waits
\* in the dispatcher and what it executes.
THEOREM AwaitInvariant == AwaitSpec => [](OnceInv /\ CarryInv)
<1>1. AwaitSpec => []DispatcherInv
  BY DispatcherInvariant, AwaitImplementsDispatcher, PTL
<1>2. AwaitInit => OnceInv /\ CarryInv
  BY AwaitInitially
<1>3. DispatcherInv /\ OnceInv /\ CarryInv /\ [AwaitNext]_all_vars => OnceInv' /\ CarryInv'
  BY CarryStep, OnceStep, StepsAreDispatcherSteps DEF DispatcherInv
<1> QED
  BY <1>1, <1>2, <1>3, PTL DEF AwaitSpec

\* A continuation that waits in the dispatcher is in the yield task that was put
\* there for it, and ActorYieldTaskPool does not hold that yield task.
THEOREM ContinuationIsKept == AwaitSpec => []ContinuationKept
<1>1. CarryInv => ContinuationKept
  BY SMTT(30), Entries DEF CarryInv, ContinuationKept, Callback
<1> QED
  BY <1>1, AwaitInvariant, PTL

=============================================================================
