----------------------------- MODULE AskSystem ------------------------------
(***************************************************************************)
(* ask: the awaiter a reply or a timeout completes, and the ring of slots  *)
(* in which one sweeper thread tracks the timeouts                         *)
(* (internals/ask_system.rs, ask_awaiter.rs, ask_reply_actor_ref.rs).      *)
(*                                                                         *)
(* Askers register and poll, repliers answer through the AskReplyActorRef, *)
(* the sweeper times out what has expired and the stopper is the one call  *)
(* of stop that finds is_stopped unset.  Time is the set of asks whose     *)
(* deadline has passed; the slot an ask gets comes from its awaiter's      *)
(* address: any slot.  A step is one atomic operation or critical section. *)
(***************************************************************************)
EXTENDS Naturals, FiniteSets

CONSTANTS
  Asks,      \* the calls of ask, each with its awaiter; bounds a run
  Repliers, Sweeper, Stopper,
  SlotCount,
  NoAsk

ASSUME AskAssumption ==
  /\ SlotCount \in Nat \ {0}
  /\ NoAsk \notin Asks
  /\ Sweeper # Stopper /\ {Sweeper, Stopper} \cap (Repliers \cup Asks) = {}
  /\ Repliers \cap Asks = {}

VARIABLES
  slots,      \* the ask whose awaiter and deadline a slot holds
  is_stopped,
  expired,    \* the asks whose deadline is in the past
  result,     \* AskAwaiterState: completed, timed_out and response
  waker,      \* AskAwaiterState::waker is set
  woken,      \* the asker's task has been scheduled by its waker
  alive,      \* the awaiter has not been dropped
  pc,
  hand,       \* the awaiter a thread completes next
  position,   \* the slot the sweeper or the stopper comes to next
  now,        \* the sweeper's clock: the asks that had expired
  due,        \* expired_awaiters
  overwritten, late   \* history: asks whose slot another ask took; asks that
                      \* reached their slot after stop had emptied it

awaiter == <<result, waker, woken, alive>>
sweep == <<position, now, due>>
history == <<overwritten, late>>
vars == <<slots, is_stopped, expired, awaiter, pc, hand, sweep, history>>

Completers == Repliers \cup {Sweeper, Stopper}
Slots == 0 .. SlotCount - 1

Init ==
  /\ slots = [i \in Slots |-> NoAsk]
  /\ is_stopped = FALSE
  /\ expired = {}
  /\ result = [a \in Asks |-> "none"]
  /\ waker = [a \in Asks |-> FALSE]
  /\ woken = [a \in Asks |-> FALSE]
  /\ alive = [a \in Asks |-> TRUE]
  /\ pc = [t \in Asks \cup Completers |-> IF t = Sweeper THEN "check" ELSE "idle"]
  /\ hand = [t \in Completers |-> NoAsk]
  /\ position = [t \in {Sweeper, Stopper} |-> 0]
  /\ now = {}
  /\ due = {}
  /\ overwritten = {}
  /\ late = {}

Step(t, from, to) == pc[t] = from /\ pc' = [pc EXCEPT ![t] = to]

-----------------------------------------------------------------------------
(* register, then the awaiter polled by the asking task *)

Register(a) ==
  /\ Step(a, "idle", IF is_stopped THEN "panicked" ELSE "reserve")
  /\ UNCHANGED <<slots, is_stopped, expired, awaiter, hand, sweep, history>>

\* reserve_slot overwrites what the slot holds; ask then posts the message
ReserveSlot(a, i) ==
  /\ Step(a, "reserve", "poll")
  /\ slots' = [slots EXCEPT ![i] = a]
  /\ overwritten' = overwritten \cup ({slots[i]} \ {NoAsk})
  /\ late' = IF position[Stopper] > i THEN late \cup {a} ELSE late
  /\ UNCHANGED <<is_stopped, expired, awaiter, hand, sweep>>

Poll(a) ==
  /\ Step(a, "poll", IF result[a] # "none" THEN "ready" ELSE "waiting")
  /\ waker' = [waker EXCEPT ![a] = @ \/ result[a] = "none"]
  /\ UNCHANGED <<slots, is_stopped, expired, result, woken, alive, hand, sweep, history>>

\* external: the task runs again, because of its waker or of another one
PollAgain(a) ==
  /\ Step(a, "waiting", "poll")
  /\ woken' = [woken EXCEPT ![a] = FALSE]
  /\ UNCHANGED <<slots, is_stopped, expired, result, waker, alive, hand, sweep, history>>

\* external: the awaiter is dropped, polled or not, before or after its result
Drop(a) ==
  /\ pc[a] \in {"poll", "waiting", "ready"}
  /\ pc' = [pc EXCEPT ![a] = "dropped"]
  /\ alive' = [alive EXCEPT ![a] = FALSE]
  /\ UNCHANGED <<slots, is_stopped, expired, result, waker, woken, hand, sweep, history>>

\* external: time passes
Expire(a) ==
  /\ a \notin expired /\ pc[a] \notin {"idle", "panicked"}
  /\ expired' = expired \cup {a}
  /\ UNCHANGED <<slots, is_stopped, awaiter, pc, hand, sweep, history>>

-----------------------------------------------------------------------------
(* AskAwaiterStateHolder::complete: the first completion wins *)

After(t) == CASE t = Sweeper -> "fire" [] t = Stopper -> "drain" [] OTHER -> "idle"

\* AskReplyActorRef::post; nothing happens when the awaiter has been dropped
Reply(r, a) ==
  /\ pc[a] \in {"poll", "waiting", "ready"}
  /\ alive[a]
  /\ Step(r, "idle", "complete")
  /\ hand' = [hand EXCEPT ![r] = a]
  /\ UNCHANGED <<slots, is_stopped, expired, awaiter, sweep, history>>

\* The awaiter has been completed: wake what waited for it, or go on.
Completed(t, has_waker) ==
  /\ Step(t, "complete", IF has_waker THEN "wake" ELSE After(t))
  /\ hand' = IF has_waker THEN hand ELSE [hand EXCEPT ![t] = NoAsk]

Outcome(t) == IF t \in Repliers THEN "response" ELSE "timeout"

\* Mutant: complete does not look whether the awaiter is completed.
Complete_Overwrites(t) ==
  LET a == hand[t] IN
  /\ pc[t] = "complete"
  /\ Completed(t, waker[a])
  /\ result' = [result EXCEPT ![a] = Outcome(t)]
  /\ waker' = [waker EXCEPT ![a] = FALSE]
  /\ UNCHANGED <<slots, is_stopped, expired, woken, alive, sweep, history>>

\* Mutant: complete stores the result and leaves the waker alone.
Complete_NoWake(t) ==
  LET a == hand[t] IN
  /\ pc[t] = "complete"
  /\ Completed(t, FALSE)
  /\ result' = [result EXCEPT ![a] = IF @ # "none" THEN @ ELSE Outcome(t)]
  /\ UNCHANGED <<slots, is_stopped, expired, waker, woken, alive, sweep, history>>

Complete(t) ==
  LET a == hand[t]
      first == result[a] = "none" IN
  /\ pc[t] = "complete"
  /\ Completed(t, first /\ waker[a])
  /\ result' = [result EXCEPT ![a] = IF first THEN Outcome(t) ELSE @]
  /\ waker' = [waker EXCEPT ![a] = ~ first /\ @]
  /\ UNCHANGED <<slots, is_stopped, expired, woken, alive, sweep, history>>

Wake(t) ==
  /\ Step(t, "wake", After(t))
  /\ woken' = [woken EXCEPT ![hand[t]] = TRUE]
  /\ hand' = [hand EXCEPT ![t] = NoAsk]
  /\ UNCHANGED <<slots, is_stopped, expired, result, waker, alive, sweep, history>>

-----------------------------------------------------------------------------
(* run_sweeper *)

SweepCheck ==
  /\ Step(Sweeper, "check", IF is_stopped THEN "gone" ELSE "scan")
  /\ now' = IF is_stopped THEN {} ELSE expired
  /\ position' = [position EXCEPT ![Sweeper] = 0]
  /\ UNCHANGED <<slots, is_stopped, expired, awaiter, hand, due, history>>

\* a slot is emptied when its deadline has passed or its awaiter is gone
ShouldRemove(a) == a # NoAsk /\ (a \in now \/ ~ alive[a])

SweepSlot ==
  LET i == position[Sweeper]
      a == slots[i] IN
  /\ pc[Sweeper] = "scan" /\ i < SlotCount
  /\ position' = [position EXCEPT ![Sweeper] = i + 1]
  /\ \/ /\ ShouldRemove(a)
        /\ slots' = [slots EXCEPT ![i] = NoAsk]
        /\ due' = IF alive[a] THEN due \cup {a} ELSE due
     \/ ~ ShouldRemove(a) /\ UNCHANGED <<slots, due>>
  /\ UNCHANGED <<is_stopped, expired, awaiter, pc, hand, now, history>>

SweepScanned ==
  /\ position[Sweeper] = SlotCount
  /\ Step(Sweeper, "scan", "fire")
  /\ UNCHANGED <<slots, is_stopped, expired, awaiter, hand, sweep, history>>

\* set_timeout for each of expired_awaiters; then, under sweeper_lock, the
\* second look at is_stopped and the wait, which ends after at most SWEEP_CAP
SweepFire ==
  /\ \/ \E a \in due :
          /\ Step(Sweeper, "fire", "complete")
          /\ hand' = [hand EXCEPT ![Sweeper] = a]
          /\ due' = due \ {a}
          /\ UNCHANGED now
     \/ /\ due = {}
        /\ Step(Sweeper, "fire", IF is_stopped THEN "gone" ELSE "check")
        /\ now' = {}
        /\ UNCHANGED <<hand, due>>
  /\ UNCHANGED <<slots, is_stopped, expired, awaiter, position, history>>

-----------------------------------------------------------------------------
(* stop, called by begin_shutdown *)

StopSwap ==
  /\ Step(Stopper, "idle", "join")
  /\ is_stopped' = TRUE
  /\ UNCHANGED <<slots, expired, awaiter, hand, sweep, history>>

StopJoin ==
  /\ pc[Sweeper] = "gone"
  /\ Step(Stopper, "join", "drain")
  /\ UNCHANGED <<slots, is_stopped, expired, awaiter, hand, sweep, history>>

\* Mutant: stop empties the slots without timing out what they hold.
StopDrain_Drops ==
  LET i == position[Stopper] IN
  /\ pc[Stopper] = "drain" /\ i < SlotCount
  /\ slots' = [slots EXCEPT ![i] = NoAsk]
  /\ position' = [position EXCEPT ![Stopper] = i + 1]
  /\ UNCHANGED <<is_stopped, expired, awaiter, pc, hand, now, due, history>>

StopDrain ==
  LET i == position[Stopper]
      a == slots[i] IN
  /\ pc[Stopper] = "drain" /\ i < SlotCount
  /\ slots' = [slots EXCEPT ![i] = NoAsk]
  /\ position' = [position EXCEPT ![Stopper] = i + 1]
  /\ IF a # NoAsk /\ alive[a]
     THEN Step(Stopper, "drain", "complete") /\ hand' = [hand EXCEPT ![Stopper] = a]
     ELSE UNCHANGED <<pc, hand>>
  /\ UNCHANGED <<is_stopped, expired, awaiter, now, due, history>>

StopDone ==
  /\ position[Stopper] = SlotCount
  /\ Step(Stopper, "drain", "done")
  /\ UNCHANGED <<slots, is_stopped, expired, awaiter, hand, sweep, history>>

-----------------------------------------------------------------------------
Ask(a) == Poll(a) \/ \E i \in Slots : ReserveSlot(a, i)
Completing(t) == Complete(t) \/ Wake(t)
Sweeping == SweepCheck \/ SweepSlot \/ SweepScanned \/ SweepFire
Stopping == StopJoin \/ StopDrain \/ StopDone

Next ==
  \/ \E a \in Asks : Register(a) \/ Ask(a) \/ PollAgain(a) \/ Drop(a) \/ Expire(a)
  \/ \E r \in Repliers, a \in Asks : Reply(r, a)
  \/ \E t \in Completers : Completing(t)
  \/ Sweeping
  \/ StopSwap \/ Stopping

Spec == Init /\ [][Next]_vars

\* Threads go on with what they started, a woken task runs, the sweeper keeps
\* sweeping and time passes.  Nobody has to ask, to reply or to stop.
Fairness ==
  /\ \A a \in Asks : WF_vars(Ask(a)) /\ WF_vars(Expire(a)) /\ WF_vars(woken[a] /\ PollAgain(a))
  /\ \A t \in Completers : WF_vars(Completing(t))
  /\ WF_vars(Sweeping)
  /\ WF_vars(Stopping)

FairSpec == Spec /\ Fairness

-----------------------------------------------------------------------------
(* Properties *)

\* A reply that races a timeout, or a second reply, does not change what the
\* asker is told: the first completion stands.
FirstCompletionStands ==
  [][\A a \in Asks : result[a] # "none" => result'[a] = result[a]]_vars

\* An asker that waits on a completed awaiter is woken or is about to be, by
\* the thread that took its waker out of the awaiter.
CompletionWakes ==
  \A a \in Asks : (pc[a] = "waiting" /\ result[a] # "none") =>
    woken[a] \/ \E t \in Completers : pc[t] = "wake" /\ hand[t] = a

\* The sweeper or the stopper will come to ask a and time it out.
Tracked(a) ==
  \/ a \in due \/ \E t \in {Sweeper, Stopper} : pc[t] = "complete" /\ hand[t] = a
  \/ \E i \in Slots : slots[i] = a /\ position[Stopper] <= i

\* An ask that waits for its answer has a timeout to come, but for two races:
\* another ask took its slot, or stop emptied the ring between register's look
\* at is_stopped and reserve_slot.
TimeoutTracked ==
  \A a \in Asks : (pc[a] = "waiting" /\ result[a] = "none") =>
    Tracked(a) \/ a \in overwritten \/ a \in late

\* An ask whose timeout is tracked ends: with the answer or with the timeout.
AskCompletes ==
  \A a \in Asks : pc[a] = "waiting" ~> (pc[a] \in {"ready", "dropped"}
                                        \/ a \in overwritten \/ a \in late)

=============================================================================
