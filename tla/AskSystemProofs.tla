--------------------------- MODULE AskSystemProofs --------------------------
(***************************************************************************)
(* CompletionWakes, TimeoutTracked and FirstCompletionStands for any number *)
(* of asks, repliers and slots.  AskInv is inductive: what an ask that is   *)
(* not answered yet relies on is where the code left it, its waker in the   *)
(* awaiter and its deadline with the sweeper or the stopper.                *)
(***************************************************************************)
EXTENDS AskSystem, TLAPS

Labels == {"idle", "panicked", "reserve", "poll", "waiting", "ready", "dropped",
           "complete", "wake", "check", "scan", "fire", "gone", "join", "drain", "done"}

\* Every variable has its type, and a thread that completes has an awaiter.
TypeOK ==
  /\ slots \in [Slots -> Asks \cup {NoAsk}]
  /\ expired \subseteq Asks /\ now \subseteq Asks /\ due \subseteq Asks
  /\ result \in [Asks -> {"none", "response", "timeout"}]
  /\ waker \in [Asks -> BOOLEAN]
  /\ woken \in [Asks -> BOOLEAN]
  /\ alive \in [Asks -> BOOLEAN]
  /\ pc \in [Asks \cup Completers -> Labels]
  /\ hand \in [Completers -> Asks \cup {NoAsk}]
  /\ position \in [{Sweeper, Stopper} -> 0 .. SlotCount]
  /\ \A t \in Completers : pc[t] \in {"complete", "wake"} => hand[t] \in Asks

\* An asker that waits without a result has left its waker behind.
WakerLeft == \A a \in Asks : (pc[a] = "waiting" /\ result[a] = "none") => waker[a]

\* Only a dropped awaiter is gone.
AliveUntilDropped == \A a \in Asks : alive[a] \/ pc[a] = "dropped"

\* An ask without a result is tracked from the moment its slot is written,
\* before the asker has polled it as much as while it waits.
TrackedFromReserve ==
  \A a \in Asks : (pc[a] \in {"poll", "waiting"} /\ result[a] = "none") =>
    Tracked(a) \/ a \in overwritten \/ a \in late

WakeInv == TypeOK /\ WakerLeft /\ CompletionWakes
AskInv == WakeInv /\ AliveUntilDropped /\ TrackedFromReserve

\* Ask a is tracked, or is one of the two exceptions.
Accounted(a) == Tracked(a) \/ a \in overwritten \/ a \in late

-----------------------------------------------------------------------------
\* Askers and completers are different threads.
LEMMA Threads ==
  /\ Sweeper \in Completers /\ Stopper \in Completers /\ Repliers \subseteq Completers
  /\ \A a \in Asks, t \in Completers : a # t
  /\ \A a \in Asks : a # NoAsk
  /\ Sweeper # Stopper /\ \A r \in Repliers : r # Sweeper /\ r # Stopper
BY AskAssumption DEF Completers

\* A thread goes on where After says.
LEMMA AfterType == \A t \in Completers : After(t) \in {"fire", "drain", "idle"}
BY DEF After

\* No ask waits at first.
LEMMA InitHolds == Init => AskInv
<1> SUFFICES ASSUME Init PROVE AskInv
  OBVIOUS
<1> USE AskAssumption, Threads DEF Init
<1>1. TypeOK
  BY DEF TypeOK, Labels, Slots
<1>2. WakerLeft /\ CompletionWakes /\ AliveUntilDropped /\ TrackedFromReserve
  BY DEF WakerLeft, CompletionWakes, AliveUntilDropped, TrackedFromReserve
<1> QED
  BY <1>1, <1>2 DEF AskInv, WakeInv

-----------------------------------------------------------------------------
(* Every action keeps the types *)

\* Askers keep the types,
LEMMA AskerTypes ==
  ASSUME TypeOK, NEW a \in Asks,
         Register(a) \/ Ask(a) \/ PollAgain(a) \/ Drop(a) \/ Expire(a)
  PROVE  TypeOK'
<1> USE Threads
<1>1. CASE Register(a)
  BY <1>1 DEF TypeOK, Register, Step, Labels, awaiter, sweep, history
<1>2. CASE Poll(a)
  BY <1>2 DEF TypeOK, Poll, Step, Labels, sweep, history
<1>3. ASSUME NEW i \in Slots, ReserveSlot(a, i) PROVE TypeOK'
  BY <1>3 DEF TypeOK, ReserveSlot, Step, Labels, awaiter, sweep
<1>4. CASE PollAgain(a)
  BY <1>4 DEF TypeOK, PollAgain, Step, Labels, sweep, history
<1>5. CASE Drop(a)
  BY <1>5 DEF TypeOK, Drop, Labels, sweep, history
<1>6. CASE Expire(a)
  BY <1>6 DEF TypeOK, Expire, awaiter, sweep, history
<1> QED
  BY <1>1, <1>2, <1>3, <1>4, <1>5, <1>6 DEF Ask

\* as do the threads that complete an awaiter,
LEMMA CompleterTypes ==
  ASSUME TypeOK, NEW t \in Completers, Completing(t)
  PROVE  TypeOK'
<1> USE Threads, AfterType
<1>1. CASE Complete(t)
  <2>1. hand[t] \in Asks
    BY <1>1 DEF TypeOK, Complete
  <2>2. pc' \in [Asks \cup Completers -> Labels]
    BY <1>1 DEF TypeOK, Complete, Completed, Step, Labels
  <2>3. hand' \in [Completers -> Asks \cup {NoAsk}]
    BY <1>1 DEF TypeOK, Complete, Completed
  <2>4. \A u \in Completers : pc'[u] \in {"complete", "wake"} => hand'[u] \in Asks
    BY <1>1, <2>1 DEF TypeOK, Complete, Completed, Step
  <2>5. result' \in [Asks -> {"none", "response", "timeout"}] /\ waker' \in [Asks -> BOOLEAN]
    BY <1>1, <2>1 DEF TypeOK, Complete, Outcome
  <2> QED
    BY <1>1, <2>2, <2>3, <2>4, <2>5 DEF TypeOK, Complete, sweep, history
<1>2. CASE Wake(t)
  <2>1. hand[t] \in Asks
    BY <1>2 DEF TypeOK, Wake, Step
  <2>2. pc' \in [Asks \cup Completers -> Labels]
    BY <1>2 DEF TypeOK, Wake, Step, Labels
  <2>3. hand' \in [Completers -> Asks \cup {NoAsk}]
    BY <1>2 DEF TypeOK, Wake
  <2>4. \A u \in Completers : pc'[u] \in {"complete", "wake"} => hand'[u] \in Asks
    BY <1>2, <2>1 DEF TypeOK, Wake, Step
  <2> QED
    BY ZenonT(60), <1>2, <2>1, <2>2, <2>3, <2>4 DEF TypeOK, Wake, sweep, history
<1> QED
  BY <1>1, <1>2 DEF Completing

\* the repliers,
LEMMA ReplyTypes ==
  ASSUME TypeOK, NEW r \in Repliers, NEW a \in Asks, Reply(r, a)
  PROVE  TypeOK'
BY Threads DEF TypeOK, Reply, Step, Labels, awaiter, sweep, history

\* the sweeper
LEMMA SweeperTypes == TypeOK /\ Sweeping => TypeOK'
<1> SUFFICES ASSUME TypeOK, Sweeping PROVE TypeOK'
  OBVIOUS
<1> USE Threads, AskAssumption
<1>1. CASE SweepCheck
  BY <1>1 DEF TypeOK, SweepCheck, Step, Labels, awaiter, history
<1>2. CASE SweepSlot
  <2>1. position[Sweeper] \in Slots
    BY <1>2 DEF TypeOK, SweepSlot, Slots
  <2>2. slots[position[Sweeper]] \in Asks \cup {NoAsk}
    BY <2>1 DEF TypeOK
  <2>3. slots' \in [Slots -> Asks \cup {NoAsk}] /\ due' \subseteq Asks
    BY <1>2, <2>1, <2>2 DEF TypeOK, SweepSlot, ShouldRemove
  <2>4. position' \in [{Sweeper, Stopper} -> 0 .. SlotCount]
    BY <1>2 DEF TypeOK, SweepSlot
  <2> QED
    BY <1>2, <2>3, <2>4 DEF TypeOK, SweepSlot, awaiter, history
<1>3. CASE SweepScanned
  BY <1>3 DEF TypeOK, SweepScanned, Step, Labels, awaiter, sweep, history
<1>4. CASE SweepFire
  <2>1. CASE due = {} /\ UNCHANGED <<hand, due>> /\ now' = {}
    BY <1>4, <2>1 DEF TypeOK, SweepFire, Step, Labels, awaiter, history
  <2>2. ASSUME NEW a \in due,
               Step(Sweeper, "fire", "complete"), hand' = [hand EXCEPT ![Sweeper] = a],
               due' = due \ {a}, UNCHANGED now
        PROVE  TypeOK'
    BY <1>4, <2>2 DEF TypeOK, SweepFire, Step, Labels, awaiter, history
  <2> QED
    BY <1>4, <2>1, <2>2 DEF SweepFire
<1> QED
  BY <1>1, <1>2, <1>3, <1>4 DEF Sweeping

\* and the stopper.
LEMMA StopperTypes == TypeOK /\ (StopSwap \/ Stopping) => TypeOK'
<1> SUFFICES ASSUME TypeOK, StopSwap \/ Stopping PROVE TypeOK'
  OBVIOUS
<1> USE Threads, AskAssumption
<1>1. CASE StopSwap
  BY <1>1 DEF TypeOK, StopSwap, Step, Labels, awaiter, sweep, history
<1>2. CASE StopJoin
  BY <1>2 DEF TypeOK, StopJoin, Step, Labels, awaiter, sweep, history
<1>3. CASE StopDrain
  <2>1. position[Stopper] \in Slots
    BY <1>3 DEF TypeOK, StopDrain, Slots
  <2>2. slots[position[Stopper]] \in Asks \cup {NoAsk}
    BY <2>1 DEF TypeOK
  <2>3. slots' \in [Slots -> Asks \cup {NoAsk}]
    BY <1>3, <2>1 DEF TypeOK, StopDrain
  <2>4. position' \in [{Sweeper, Stopper} -> 0 .. SlotCount]
    BY <1>3 DEF TypeOK, StopDrain
  <2>5. /\ pc' \in [Asks \cup Completers -> Labels]
        /\ hand' \in [Completers -> Asks \cup {NoAsk}]
        /\ \A t \in Completers : pc'[t] \in {"complete", "wake"} => hand'[t] \in Asks
    BY <1>3, <2>2 DEF TypeOK, StopDrain, Step, Labels
  <2> QED
    BY <1>3, <2>3, <2>4, <2>5 DEF TypeOK, StopDrain, awaiter, history
<1>4. CASE StopDone
  BY <1>4 DEF TypeOK, StopDone, Step, Labels, awaiter, sweep, history
<1> QED
  BY <1>1, <1>2, <1>3, <1>4 DEF Stopping

\* TypeOK is inductive.
LEMMA TypeStep == TypeOK /\ [Next]_vars => TypeOK'
<1> SUFFICES ASSUME TypeOK, [Next]_vars PROVE TypeOK'
  OBVIOUS
<1>1. CASE UNCHANGED vars
  BY <1>1 DEF TypeOK, vars, awaiter, sweep, history
<1> QED
  BY <1>1, AskerTypes, ReplyTypes, CompleterTypes, SweeperTypes, StopperTypes DEF Next

-----------------------------------------------------------------------------
(* The sweeper and the stopper change nothing an asker looks at *)

\* Of the threads' steps these leave the awaiters and the askers alone.
LEMMA AwaitersLeft ==
  ASSUME TypeOK, \/ Sweeping \/ StopSwap \/ Stopping
                 \/ \E r \in Repliers, a \in Asks : Reply(r, a)
  PROVE  /\ UNCHANGED awaiter
         /\ \A a \in Asks : pc'[a] = pc[a]
         /\ \A t \in Completers : pc[t] = "wake" => pc'[t] = "wake" /\ hand'[t] = hand[t]
<1> USE Threads
<1>1. CASE Sweeping
  BY <1>1 DEF TypeOK, Sweeping, SweepCheck, SweepSlot, SweepScanned, SweepFire, Step
<1>2. CASE StopSwap \/ Stopping
  BY <1>2 DEF TypeOK, StopSwap, Stopping, StopJoin, StopDrain, StopDone, Step
<1>3. CASE \E r \in Repliers, a \in Asks : Reply(r, a)
  BY <1>3 DEF TypeOK, Reply, Step
<1> QED
  BY <1>1, <1>2, <1>3

-----------------------------------------------------------------------------
(* No wake-up is lost *)

\* The waker is in the awaiter until the completion that takes it out, and that
\* thread wakes the asker.
LEMMA WakeStep == WakeInv /\ [Next]_vars => WakeInv'
<1> SUFFICES ASSUME WakeInv, [Next]_vars PROVE (WakerLeft /\ CompletionWakes)'
  BY TypeStep DEF WakeInv
<1> USE Threads
<1>0. TypeOK
  BY DEF WakeInv
<1>1. ASSUME NEW a \in Asks, Register(a) \/ PollAgain(a) \/ Drop(a)
      PROVE  (WakerLeft /\ CompletionWakes)'
  <2>1. /\ \A b \in Asks : pc'[b] = "waiting" => pc[b] = "waiting" /\ woken'[b] = woken[b]
        /\ \A t \in Completers : pc'[t] = pc[t]
        /\ UNCHANGED <<result, waker, hand>>
    BY <1>0, <1>1 DEF TypeOK, Register, PollAgain, Drop, Step, awaiter
  <2> QED
    BY <2>1 DEF WakeInv, WakerLeft, CompletionWakes
<1>2. ASSUME NEW a \in Asks, Poll(a) PROVE (WakerLeft /\ CompletionWakes)'
  <2>1. /\ \A b \in Asks : pc'[b] = "waiting" =>
             \/ b = a /\ result[a] = "none" /\ waker'[b]
             \/ pc[b] = "waiting" /\ (waker[b] => waker'[b])
        /\ \A t \in Completers : pc'[t] = pc[t]
        /\ UNCHANGED <<result, woken, hand>>
    BY ZenonT(60), <1>0, <1>2 DEF TypeOK, Poll, Step
  <2> QED
    BY <2>1 DEF WakeInv, WakerLeft, CompletionWakes
<1>3. ASSUME NEW a \in Asks, NEW i \in Slots, ReserveSlot(a, i)
      PROVE  (WakerLeft /\ CompletionWakes)'
  <2>1. /\ \A b \in Asks : pc'[b] = "waiting" => pc[b] = "waiting"
        /\ \A t \in Completers : pc'[t] = pc[t]
        /\ UNCHANGED <<awaiter, hand>>
    BY <1>0, <1>3 DEF TypeOK, ReserveSlot, Step
  <2> QED
    BY <2>1 DEF WakeInv, WakerLeft, CompletionWakes, awaiter
<1>4. ASSUME NEW a \in Asks, Expire(a) PROVE (WakerLeft /\ CompletionWakes)'
  BY <1>4 DEF WakeInv, WakerLeft, CompletionWakes, Expire, awaiter
<1>5. CASE Sweeping \/ StopSwap \/ Stopping \/ \E r \in Repliers, a \in Asks : Reply(r, a)
  <2>1. /\ UNCHANGED awaiter
        /\ \A a \in Asks : pc'[a] = pc[a]
        /\ \A t \in Completers : pc[t] = "wake" => pc'[t] = "wake" /\ hand'[t] = hand[t]
    BY <1>0, <1>5, AwaitersLeft
  <2> QED
    BY <2>1 DEF WakeInv, WakerLeft, CompletionWakes, awaiter
<1>6. ASSUME NEW t \in Completers, Complete(t) PROVE (WakerLeft /\ CompletionWakes)'
  <2>1. hand[t] \in Asks /\ pc[t] = "complete"
    BY <1>0, <1>6 DEF TypeOK, Complete
  <2>2. /\ \A a \in Asks : pc'[a] = pc[a]
        /\ \A u \in Completers : u # t => pc'[u] = pc[u] /\ hand'[u] = hand[u]
        /\ UNCHANGED woken
    BY <1>0, <1>6 DEF TypeOK, Complete, Completed, Step
  <2>3. \A a \in Asks : a # hand[t] \/ result[a] # "none" =>
          result'[a] = result[a] /\ waker'[a] = waker[a]
    BY <1>0, <1>6, <2>1 DEF TypeOK, Complete
  <2>4. result'[hand[t]] # "none"
    BY <1>0, <1>6, <2>1 DEF TypeOK, Complete, Outcome
  <2>5. result[hand[t]] = "none" /\ waker[hand[t]] => pc'[t] = "wake" /\ hand'[t] = hand[t]
    BY <1>0, <1>6, <2>1 DEF TypeOK, Complete, Completed, Step
  <2>6. WakerLeft'
    BY <2>2, <2>3, <2>4 DEF WakeInv, WakerLeft
  <2>7. CompletionWakes'
    <3> SUFFICES ASSUME NEW a \in Asks, pc'[a] = "waiting", result'[a] # "none"
                 PROVE  woken'[a] \/ \E u \in Completers : pc'[u] = "wake" /\ hand'[u] = a
      BY DEF CompletionWakes
    <3>1. CASE result[a] # "none"
      <4>1. woken[a] \/ \E u \in Completers : pc[u] = "wake" /\ hand[u] = a
        BY <2>2, <3>1 DEF WakeInv, CompletionWakes
      <4> QED
        BY <2>1, <2>2, <4>1
    <3>2. CASE result[a] = "none"
      <4>1. a = hand[t]
        BY <2>3, <3>2
      <4>2. waker[a]
        BY <2>2, <3>2 DEF WakeInv, WakerLeft
      <4> QED
        BY <2>5, <3>2, <4>1, <4>2
    <3> QED
      BY <3>1, <3>2
  <2> QED
    BY <2>6, <2>7
<1>7. ASSUME NEW t \in Completers, Wake(t) PROVE (WakerLeft /\ CompletionWakes)'
  <2>1. hand[t] \in Asks
    BY <1>0, <1>7 DEF TypeOK, Wake, Step
  <2>2. /\ \A a \in Asks : pc'[a] = pc[a]
        /\ \A u \in Completers : u # t => pc'[u] = pc[u] /\ hand'[u] = hand[u]
        /\ \A a \in Asks : woken[a] => woken'[a]
        /\ woken'[hand[t]]
        /\ UNCHANGED <<result, waker>>
    BY <1>0, <1>7, <2>1 DEF TypeOK, Wake, Step
  <2> QED
    BY <2>2 DEF WakeInv, WakerLeft, CompletionWakes
<1>8. CASE UNCHANGED vars
  BY <1>8 DEF WakeInv, WakerLeft, CompletionWakes, vars, awaiter
<1> QED
  BY <1>1, <1>2, <1>3, <1>4, <1>5, <1>6, <1>7, <1>8 DEF Next, Ask, Completing

-----------------------------------------------------------------------------
(* No timeout is lost *)

\* The first completion of an awaiter stands, whatever completes it again.
LEMMA ResultKept ==
  ASSUME TypeOK, [Next]_vars, NEW a \in Asks, result[a] # "none"
  PROVE  result'[a] = result[a]
<1> USE Threads
<1>1. ASSUME NEW t \in Completers, Complete(t) PROVE result'[a] = result[a]
  <2>1. hand[t] \in Asks
    BY <1>1 DEF TypeOK, Complete
  <2> QED
    BY <1>1, <2>1 DEF TypeOK, Complete
<1>2. ASSUME NEW t \in Completers, Wake(t) PROVE result'[a] = result[a]
  BY <1>2 DEF Wake
<1>3. ASSUME NEW b \in Asks, Register(b) \/ Ask(b) \/ PollAgain(b) \/ Drop(b) \/ Expire(b)
      PROVE  result'[a] = result[a]
  BY ZenonT(30), <1>3 DEF Register, Ask, Poll, ReserveSlot, PollAgain, Drop, Expire, awaiter
<1>4. CASE Sweeping \/ StopSwap \/ Stopping \/ \E r \in Repliers, b \in Asks : Reply(r, b)
  BY <1>4, AwaitersLeft DEF awaiter
<1>5. CASE UNCHANGED vars
  BY <1>5 DEF vars, awaiter
<1> QED
  BY <1>1, <1>2, <1>3, <1>4, <1>5 DEF Next, Completing

\* A step that leaves the slots, due, the exceptions and the stopper's position
\* alone keeps an ask accounted for, unless it is the completion of the ask.
LEMMA AccountedKept ==
  ASSUME NEW a \in Asks, Accounted(a),
         UNCHANGED <<slots, due, overwritten, late>>,
         position'[Stopper] = position[Stopper],
         \A t \in {Sweeper, Stopper} :
           pc[t] = "complete" /\ hand[t] = a => pc'[t] = "complete" /\ hand'[t] = a
  PROVE  Accounted(a)'
BY DEF Accounted, Tracked

\* An asker's step keeps every ask accounted for.
LEMMA AskerTracks ==
  ASSUME TypeOK, NEW b \in Asks,
         Register(b) \/ Ask(b) \/ PollAgain(b) \/ Drop(b) \/ Expire(b),
         NEW a \in Asks, Accounted(a)
  PROVE  Accounted(a)'
<1> USE Threads
<1>1. \A t \in Completers : pc'[t] = pc[t] /\ hand'[t] = hand[t]
  BY DEF TypeOK, Register, Ask, Poll, ReserveSlot, PollAgain, Drop, Expire, Step
<1>2. CASE Register(b) \/ Poll(b) \/ PollAgain(b) \/ Drop(b) \/ Expire(b)
  <2>1. UNCHANGED <<slots, due, overwritten, late>> /\ position' = position
    BY <1>2 DEF Register, Poll, PollAgain, Drop, Expire, sweep, history
  <2> QED
    BY ZenonT(30), <1>1, <2>1, AccountedKept
<1>3. ASSUME NEW i \in Slots, ReserveSlot(b, i) PROVE Accounted(a)'
  <2>1. /\ UNCHANGED <<due, position>>
        /\ overwritten \subseteq overwritten' /\ late \subseteq late'
        /\ slots[i] # NoAsk => slots[i] \in overwritten'
        /\ \A j \in Slots : j # i => slots'[j] = slots[j]
    BY <1>3 DEF TypeOK, ReserveSlot, sweep
  <2> QED
    BY ZenonT(30), <1>1, <2>1 DEF Accounted, Tracked
<1> QED
  BY <1>2, <1>3 DEF Ask

\* A completion, or a reply, leaves the other asks accounted for.
LEMMA CompleterTracks ==
  ASSUME TypeOK, NEW t \in Completers,
         Completing(t) \/ \E b \in Asks : t \in Repliers /\ Reply(t, b),
         NEW a \in Asks, Accounted(a), result'[a] = "none"
  PROVE  Accounted(a)'
<1> USE Threads
<1>1. UNCHANGED <<slots, due, position, overwritten, late>>
  BY DEF Completing, Complete, Wake, Reply, sweep, history
<1>2. CASE Complete(t)
  <2>1. hand[t] \in Asks /\ result'[hand[t]] # "none"
    BY <1>2 DEF TypeOK, Complete, Outcome
  <2>2. \A u \in Completers : u # t => pc'[u] = pc[u] /\ hand'[u] = hand[u]
    BY <1>2 DEF TypeOK, Complete, Completed, Step
  <2> QED
    BY <1>1, <2>1, <2>2, AccountedKept
<1>3. CASE Wake(t)
  <2>1. \A u \in Completers : u # t => pc'[u] = pc[u] /\ hand'[u] = hand[u]
    BY <1>3 DEF TypeOK, Wake, Step
  <2>2. pc[t] # "complete"
    BY <1>3 DEF Wake, Step
  <2> QED
    BY ZenonT(30), <1>1, <2>1, <2>2, AccountedKept
<1>4. ASSUME NEW b \in Asks, t \in Repliers, Reply(t, b) PROVE Accounted(a)'
  <2>1. \A u \in Completers : u # t => pc'[u] = pc[u] /\ hand'[u] = hand[u]
    BY <1>4 DEF TypeOK, Reply, Step
  <2> QED
    BY ZenonT(30), <1>1, <1>4, <2>1, AccountedKept
<1> QED
  BY <1>2, <1>3, <1>4 DEF Completing

\* The sweeper takes a live ask from its slot to due, and from there to hand.
LEMMA SweeperTracks ==
  ASSUME TypeOK, Sweeping, NEW a \in Asks, alive[a], Accounted(a)
  PROVE  Accounted(a)'
<1> USE Threads
<1>1. /\ pc'[Stopper] = pc[Stopper] /\ hand'[Stopper] = hand[Stopper]
      /\ pc[Sweeper] # "complete"
      /\ position'[Stopper] = position[Stopper]
      /\ UNCHANGED <<overwritten, late>>
  BY DEF TypeOK, Sweeping, SweepCheck, SweepSlot, SweepScanned, SweepFire, Step, history, sweep
<1>2. CASE SweepCheck \/ SweepScanned
  <2>1. UNCHANGED <<slots, due>>
    BY <1>2 DEF SweepCheck, SweepScanned, sweep
  <2> QED
    BY ZenonT(30), <1>1, <2>1, AccountedKept
<1>3. CASE SweepSlot
  <2>1. due \subseteq due'
    BY <1>3 DEF SweepSlot
  <2>2. \A j \in Slots : slots[j] = a => slots'[j] = a \/ a \in due'
    BY <1>3 DEF TypeOK, SweepSlot
  <2> QED
    BY <1>1, <2>1, <2>2 DEF Accounted, Tracked
<1>4. CASE SweepFire
  <2>1. a \in due => a \in due' \/ (pc'[Sweeper] = "complete" /\ hand'[Sweeper] = a)
    BY <1>4 DEF TypeOK, SweepFire, Step
  <2>2. UNCHANGED slots
    BY <1>4 DEF SweepFire
  <2> QED
    BY <1>1, <2>1, <2>2 DEF Accounted, Tracked
<1> QED
  BY <1>2, <1>3, <1>4 DEF Sweeping

\* The stopper takes a live ask from its slot to hand before it moves on.
LEMMA StopperTracks ==
  ASSUME TypeOK, StopSwap \/ Stopping, NEW a \in Asks, alive[a], Accounted(a)
  PROVE  Accounted(a)'
<1> USE Threads
<1>1. /\ pc'[Sweeper] = pc[Sweeper] /\ hand'[Sweeper] = hand[Sweeper]
      /\ pc[Stopper] # "complete"
      /\ UNCHANGED <<due, overwritten, late>>
  BY DEF TypeOK, StopSwap, Stopping, StopJoin, StopDrain, StopDone, Step, history, sweep
<1>2. CASE StopSwap \/ StopJoin \/ StopDone
  <2>1. UNCHANGED <<slots, position>>
    BY <1>2 DEF StopSwap, StopJoin, StopDone, sweep
  <2> QED
    BY ZenonT(30), <1>1, <2>1, AccountedKept
<1>3. CASE StopDrain
  <2>1. position[Stopper] \in Slots
    BY <1>3, AskAssumption DEF TypeOK, StopDrain, Slots
  <2>2. position'[Stopper] = position[Stopper] + 1
    BY <1>3 DEF TypeOK, StopDrain
  <2>3. \A j \in Slots : j # position[Stopper] => slots'[j] = slots[j]
    BY <1>3 DEF TypeOK, StopDrain
  <2>4. slots[position[Stopper]] = a => pc'[Stopper] = "complete" /\ hand'[Stopper] = a
    BY <1>3 DEF TypeOK, StopDrain, Step
  <2>5. \A j \in Slots : position[Stopper] <= j /\ j # position[Stopper] =>
          position'[Stopper] <= j
    BY <2>1, <2>2 DEF Slots
  <2> QED
    BY SMTT(30), <1>1, <2>3, <2>4, <2>5 DEF Accounted, Tracked
<1> QED
  BY <1>2, <1>3 DEF Stopping

\* An awaiter is dropped by its asker only.
LEMMA AliveStep ==
  ASSUME TypeOK, AliveUntilDropped, [Next]_vars
  PROVE  AliveUntilDropped'
<1> USE Threads
<1>1. ASSUME NEW a \in Asks, Register(a) \/ Ask(a) \/ PollAgain(a) \/ Drop(a) \/ Expire(a)
      PROVE  AliveUntilDropped'
  <2>1. \A b \in Asks : /\ alive[b] => alive'[b] \/ pc'[b] = "dropped"
                        /\ pc[b] = "dropped" => pc'[b] = "dropped"
    BY <1>1 DEF TypeOK, Register, Ask, Poll, ReserveSlot, PollAgain, Drop, Expire, Step, awaiter
  <2> QED
    BY <2>1 DEF AliveUntilDropped
<1>2. ASSUME NEW t \in Completers, Completing(t) PROVE AliveUntilDropped'
  <2>1. UNCHANGED alive /\ \A b \in Asks : pc'[b] = pc[b]
    BY <1>2 DEF TypeOK, Completing, Complete, Completed, Wake, Step
  <2> QED
    BY <2>1 DEF AliveUntilDropped
<1>3. CASE Sweeping \/ StopSwap \/ Stopping \/ \E r \in Repliers, b \in Asks : Reply(r, b)
  BY <1>3, AwaitersLeft DEF AliveUntilDropped, awaiter
<1>4. CASE UNCHANGED vars
  BY <1>4 DEF vars, awaiter, AliveUntilDropped
<1> QED
  BY <1>1, <1>2, <1>3, <1>4 DEF Next

\* An ask is accounted for when its slot is written, and from then on until it
\* has a result.
LEMMA TrackedStep == AskInv /\ [Next]_vars => TrackedFromReserve'
<1> SUFFICES ASSUME AskInv, [Next]_vars,
                    NEW a \in Asks, pc'[a] \in {"poll", "waiting"}, result'[a] = "none"
             PROVE  Accounted(a)'
  BY DEF TrackedFromReserve, Accounted
<1> USE Threads
<1>0. TypeOK
  BY DEF AskInv, WakeInv
<1>1. result[a] = "none"
  BY <1>0, ResultKept
<1>2. CASE pc[a] \in {"poll", "waiting"}
  <2>1. Accounted(a)
    BY <1>1, <1>2 DEF AskInv, TrackedFromReserve, Accounted
  <2>2. alive[a]
    BY <1>2 DEF AskInv, AliveUntilDropped
  <2>3. CASE UNCHANGED vars
    BY <2>1, <2>3, AccountedKept DEF vars, sweep, history
  <2>4. ASSUME NEW r \in Repliers, NEW b \in Asks, Reply(r, b) PROVE Accounted(a)'
    BY <1>0, <2>1, <2>4, CompleterTracks
  <2> QED
    BY ZenonT(30), <1>0, <2>1, <2>2, <2>3, <2>4, AskerTracks, CompleterTracks, SweeperTracks,
       StopperTracks DEF Next
<1>3. CASE pc[a] \notin {"poll", "waiting"}
  <2>1. \E i \in Slots : ReserveSlot(a, i)
    <3>1. ASSUME NEW b \in Asks, Register(b) \/ Poll(b) \/ PollAgain(b) \/ Drop(b) \/ Expire(b)
          PROVE  FALSE
      BY <1>0, <1>3, <3>1 DEF TypeOK, Register, Poll, PollAgain, Drop, Expire, Step
    <3>2. ASSUME NEW b \in Asks, b # a, NEW i \in Slots, ReserveSlot(b, i) PROVE FALSE
      BY <1>0, <1>3, <3>2 DEF TypeOK, ReserveSlot, Step
    <3>3. ASSUME NEW t \in Completers, Completing(t) PROVE FALSE
      BY <1>0, <1>3, <3>3 DEF TypeOK, Completing, Complete, Completed, Wake, Step
    <3>4. CASE Sweeping \/ StopSwap \/ Stopping \/ \E r \in Repliers, b \in Asks : Reply(r, b)
      BY <1>0, <1>3, <3>4, AwaitersLeft
    <3>5. CASE UNCHANGED vars
      BY <1>3, <3>5 DEF vars
    <3> QED
      BY ZenonT(30), <3>1, <3>2, <3>3, <3>4, <3>5 DEF Next, Ask
  <2>2. PICK i \in Slots : ReserveSlot(a, i)
    BY <2>1
  <2>3. /\ slots'[i] = a /\ position' = position
        /\ position[Stopper] > i => a \in late'
    BY <1>0, <2>2 DEF TypeOK, ReserveSlot, sweep
  <2>4. i \in Nat /\ position[Stopper] \in Nat
    BY <1>0, AskAssumption DEF TypeOK, Slots
  <2> QED
    BY <2>3, <2>4 DEF Accounted, Tracked
<1> QED
  BY <1>2, <1>3

-----------------------------------------------------------------------------
\* AskInv holds in every reachable state.
THEOREM AskInvariant == Spec => []AskInv
<1>1. Init => AskInv
  BY InitHolds
<1>2. AskInv /\ [Next]_vars => AskInv'
  BY WakeStep, AliveStep, TrackedStep DEF AskInv, WakeInv
<1> QED
  BY <1>1, <1>2, PTL DEF Spec

\* Whoever completes an awaiter, and however late the asker registers its
\* waker, an asker that waits on a completed awaiter is woken or about to be.
THEOREM CompletionIsNotLost == Spec => []CompletionWakes
<1>1. AskInv => CompletionWakes
  BY DEF AskInv, WakeInv
<1> QED
  BY <1>1, AskInvariant, PTL

\* An ask that waits is in the sweeper's or the stopper's way, unless its slot
\* was taken by another ask or was written behind the stopper.
THEOREM TimeoutIsTracked == Spec => []TimeoutTracked
<1>1. AskInv => TimeoutTracked
  BY DEF AskInv, TrackedFromReserve, TimeoutTracked
<1> QED
  BY <1>1, AskInvariant, PTL

\* A reply and a timeout, or two replies, race for an awaiter: the result the
\* first of them stores is never changed.
THEOREM FirstCompletionIsFinal == Spec => FirstCompletionStands
<1>1. AskInv /\ [Next]_vars =>
        [\A a \in Asks : result[a] # "none" => result'[a] = result[a]]_vars
  BY ResultKept DEF AskInv, WakeInv
<1> QED
  BY <1>1, AskInvariant, PTL DEF Spec, FirstCompletionStands

=============================================================================
