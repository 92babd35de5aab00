-------------------------- MODULE ScheduleHandshake -------------------------
(***************************************************************************)
(* How a post and the end of execute agree on who schedules the runner,    *)
(* on hardware with store buffers.                                         *)
(*                                                                         *)
(* enqueue_only publishes its mail with a Release store and then loads     *)
(* is_scheduled; execute clears is_scheduled with a Release store and then *)
(* peeks at the mailbox.  On x86 a Release store is an ordinary store: it  *)
(* may stay in the thread's store buffer while the thread's next load is   *)
(* answered from memory.  compare_exchange, swap and the locking of a      *)
(* mutex are locked instructions: they wait until the buffer is empty.     *)
(*                                                                         *)
(* ActorRunner models the same code with the interleavings of a            *)
(* sequentially consistent memory, and everything else the runner does.    *)
(***************************************************************************)
EXTENDS Naturals, Sequences, FiniteSets

CONSTANTS
  Posters,
  Dispatcher,
  MailCount      \* how many mails are posted; bounds a run

ASSUME HandshakeAssumption ==
  /\ MailCount \in Nat
  /\ Dispatcher \notin Posters

VARIABLES
  memory,    \* is_scheduled, and whether the mail at a position is published
  buffer,    \* per thread: its stores that have not reached memory
  claimed,   \* enqueue_position
  consumed,  \* dequeue_position
  queue,     \* how often the dispatcher's queue holds the runner
  pc,
  position   \* the position a poster has claimed

vars == <<memory, buffer, claimed, consumed, queue, pc, position>>

Threads == Posters \cup {Dispatcher}
IsScheduled == 0     \* location 0; the mail at position k is location k

Init ==
  /\ memory = [l \in 0 .. MailCount |-> FALSE]
  /\ buffer = [t \in Threads |-> << >>]
  /\ claimed = 0
  /\ consumed = 0
  /\ queue = 0
  /\ pc = [t \in Threads |-> "idle"]
  /\ position = [p \in Posters |-> 0]

Step(t, from, to) == pc[t] = from /\ pc' = [pc EXCEPT ![t] = to]

Write(t, l, v) ==
  /\ buffer' = [buffer EXCEPT ![t] = Append(@, [location |-> l, value |-> v])]
  /\ UNCHANGED memory

\* a thread sees its own stores first
Read(t, l) ==
  LET own == {k \in DOMAIN buffer[t] : buffer[t][k].location = l} IN
  IF own = {} THEN memory[l]
  ELSE buffer[t][CHOOSE k \in own : \A j \in own : j <= k].value

Flushed(t) == buffer[t] = << >>

\* external: the processor writes a thread's oldest store to memory
Flush(t) ==
  /\ ~ Flushed(t)
  /\ memory' = [memory EXCEPT ![Head(buffer[t]).location] = Head(buffer[t]).value]
  /\ buffer' = [buffer EXCEPT ![t] = Tail(@)]
  /\ UNCHANGED <<claimed, consumed, queue, pc, position>>

-----------------------------------------------------------------------------
(* enqueue_only and schedule_self *)

\* try_enqueue's compare_exchange
Claim(p) ==
  /\ Flushed(p)
  /\ claimed < MailCount
  /\ Step(p, "idle", "publish")
  /\ claimed' = claimed + 1
  /\ position' = [position EXCEPT ![p] = claimed + 1]
  /\ UNCHANGED <<memory, buffer, consumed, queue>>

\* try_enqueue's sequence.store(Release)
Publish(p) ==
  /\ Step(p, "publish", "load")
  /\ Write(p, position[p], TRUE)
  /\ UNCHANGED <<claimed, consumed, queue, position>>

\* is_scheduled.load(Acquire)
LoadScheduled(p) ==
  /\ Step(p, "load", IF Read(p, IsScheduled) THEN "idle" ELSE "swap")
  /\ UNCHANGED <<memory, buffer, claimed, consumed, queue, position>>

\* Mutant: is_scheduled is set without looking whether it was.
SwapScheduled_Store(t) ==
  /\ Flushed(t)
  /\ Step(t, "swap", "push")
  /\ memory' = [memory EXCEPT ![IsScheduled] = TRUE]
  /\ UNCHANGED <<buffer, claimed, consumed, queue, position>>

\* is_scheduled.swap(true, AcqRel), of a poster or of execute
SwapScheduled(t) ==
  /\ Flushed(t)
  /\ Step(t, "swap", IF memory[IsScheduled] THEN "idle" ELSE "push")
  /\ memory' = [memory EXCEPT ![IsScheduled] = TRUE]
  /\ UNCHANGED <<buffer, claimed, consumed, queue, position>>

\* ActorDispatcher::schedule, under its queue's mutex
Push(t) ==
  /\ Flushed(t)
  /\ Step(t, "push", "idle")
  /\ queue' = queue + 1
  /\ UNCHANGED <<memory, buffer, claimed, consumed, position>>

-----------------------------------------------------------------------------
(* execute, of an actor that only receives *)

NextPublished == consumed < MailCount /\ Read(Dispatcher, consumed + 1)

Execute ==
  /\ queue > 0
  /\ Flushed(Dispatcher)
  /\ Step(Dispatcher, "idle", "dequeue")
  /\ queue' = queue - 1
  /\ UNCHANGED <<memory, buffer, claimed, consumed, position>>

Dequeue ==
  /\ Step(Dispatcher, "dequeue", IF NextPublished THEN "dequeue" ELSE "unschedule")
  /\ consumed' = IF NextPublished THEN consumed + 1 ELSE consumed
  /\ UNCHANGED <<memory, buffer, claimed, queue, position>>

\* Mutant: execute leaves is_scheduled set when the mailbox is empty.
Unschedule_Kept ==
  /\ Step(Dispatcher, "unschedule", "peek")
  /\ UNCHANGED <<memory, buffer, claimed, consumed, queue, position>>

\* is_scheduled.store(false, Release)
Unschedule ==
  /\ Step(Dispatcher, "unschedule", "peek")
  /\ Write(Dispatcher, IsScheduled, FALSE)
  /\ UNCHANGED <<claimed, consumed, queue, position>>

TryPeek ==
  /\ Step(Dispatcher, "peek", IF NextPublished THEN "swap" ELSE "idle")
  /\ UNCHANGED <<memory, buffer, claimed, consumed, queue, position>>

Next ==
  \/ \E p \in Posters : Claim(p) \/ Publish(p) \/ LoadScheduled(p)
  \/ Execute \/ Dequeue \/ Unschedule \/ TryPeek
  \/ \E t \in Threads : SwapScheduled(t) \/ Push(t) \/ Flush(t)

Spec == Init /\ [][Next]_vars

-----------------------------------------------------------------------------
\* Every call has returned, no store is in a buffer and nothing is scheduled.
Quiescent == queue = 0 /\ \A t \in Threads : pc[t] = "idle" /\ Flushed(t)

\* One thread at most is entitled to run the mailbox loop: of all the threads
\* that find is_scheduled clear one schedules the runner, and no delayed store
\* of false lets a second one in before the first execution is over.  The
\* mailbox's consumer side is unsynchronised and relies on it.
ScheduledOnce ==
  queue + Cardinality({t \in Threads : pc[t] = "push"})
    + (IF pc[Dispatcher] \in {"dequeue", "unschedule"} THEN 1 ELSE 0) <= 1

\* A mail that is left behind waits for the next post only: is_scheduled never
\* stays set without an execution to come, which would silence the actor.
NextPostSchedules == Quiescent => ~ memory[IsScheduled]

\* When every thread is done, every mail that was posted has been processed:
\* the code does not guarantee this.
PostedIsProcessed == Quiescent => consumed = claimed

=============================================================================
