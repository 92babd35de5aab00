----------------------- MODULE ScheduleHandshakeProofs ----------------------
(***************************************************************************)
(* ScheduledOnce and NextPostSchedules for any posters and any number of   *)
(* mails, on hardware with store buffers.  HandshakeInv is inductive: the  *)
(* right to run the mailbox loop exists exactly as long as is_scheduled is *)
(* set in memory and no store that clears it is under way.                 *)
(***************************************************************************)
EXTENDS ScheduleHandshake, FiniteSetTheorems, TLAPS

Store == [location : 0 .. MailCount, value : BOOLEAN]

\* The store of false that ends execute
Clearing == [location |-> IsScheduled, value |-> FALSE]

\* Every variable has its type; posters and the dispatcher have their own labels.
TypeOK ==
  /\ memory \in [0 .. MailCount -> BOOLEAN]
  /\ buffer \in [Threads -> Seq(Store)]
  /\ claimed \in 0 .. MailCount
  /\ consumed \in 0 .. MailCount
  /\ queue \in Nat
  /\ pc \in [Threads -> {"idle", "publish", "load", "swap", "push", "dequeue",
                         "unschedule", "peek"}]
  /\ position \in [Posters -> 0 .. MailCount]
  /\ \A p \in Posters : pc[p] \in {"idle", "publish", "load", "swap", "push"}

\* A poster's buffer never holds a store to is_scheduled.
PosterStores ==
  \A p \in Posters :
    /\ pc[p] = "publish" => position[p] # IsScheduled
    /\ \A k \in 1 .. Len(buffer[p]) : buffer[p][k].location # IsScheduled

\* The dispatcher's buffer holds at most the store that clears is_scheduled,
\* and the dispatcher does not get far before it has reached memory.
DispatcherStores ==
  \/ buffer[Dispatcher] = << >>
  \/ /\ buffer[Dispatcher] = <<Clearing>>
     /\ memory[IsScheduled]
     /\ pc[Dispatcher] \in {"peek", "swap", "idle"}

Pushing == {t \in Threads : pc[t] = "push"}
InLoop == IF pc[Dispatcher] \in {"dequeue", "unschedule"} THEN 1 ELSE 0

\* The right to run the mailbox loop, wherever it is
Entitled ==
  /\ IsFiniteSet(Pushing)
  /\ queue + Cardinality(Pushing) + InLoop =
       IF memory[IsScheduled] /\ Flushed(Dispatcher) THEN 1 ELSE 0

HandshakeInv == TypeOK /\ PosterStores /\ DispatcherStores /\ Entitled

-----------------------------------------------------------------------------
\* The two kinds of threads, and where is_scheduled is
LEMMA Members ==
  /\ Dispatcher \in Threads /\ Posters \subseteq Threads
  /\ \A p \in Posters : p # Dispatcher
  /\ IsScheduled \in 0 .. MailCount
BY HandshakeAssumption DEF Threads, IsScheduled

\* Nothing is scheduled at first, and no store is under way.
LEMMA InitHolds == Init => HandshakeInv
<1> SUFFICES ASSUME Init PROVE HandshakeInv
  OBVIOUS
<1> USE HandshakeAssumption, Members DEF Init
<1>1. << >> \in Seq(Store)
  OBVIOUS
<1>2. TypeOK
  BY <1>1 DEF TypeOK
<1>3. PosterStores /\ DispatcherStores
  BY DEF PosterStores, DispatcherStores
<1>4. Pushing = {}
  BY DEF Pushing
<1>5. Entitled
  BY <1>4, FS_EmptySet DEF Entitled, InLoop
<1> QED
  BY <1>2, <1>3, <1>5 DEF HandshakeInv

\* A step that neither touches is_scheduled nor begins or ends a right keeps it.
LEMMA EntitledKept ==
  ASSUME HandshakeInv, queue' = queue, Pushing' = Pushing, InLoop' = InLoop,
         memory'[IsScheduled] = memory[IsScheduled],
         Flushed(Dispatcher)' <=> Flushed(Dispatcher)
  PROVE  Entitled'
BY DEF HandshakeInv, Entitled

\* Writing to its own buffer changes nobody else's.
LEMMA WriteBuffer ==
  ASSUME TypeOK, NEW t \in Threads, NEW l \in 0 .. MailCount, NEW v \in BOOLEAN, Write(t, l, v)
  PROVE  /\ buffer' \in [Threads -> Seq(Store)]
         /\ buffer'[t] = Append(buffer[t], [location |-> l, value |-> v])
         /\ \A u \in Threads : u # t => buffer'[u] = buffer[u]
<1>1. [location |-> l, value |-> v] \in Store
  BY DEF Store
<1>2. Append(buffer[t], [location |-> l, value |-> v]) \in Seq(Store)
  BY <1>1 DEF TypeOK
<1> QED
  BY <1>2 DEF TypeOK, Write

-----------------------------------------------------------------------------
(* HandshakeInv is kept: one lemma per action *)

\* A claim touches neither the flag nor the rights.
LEMMA ClaimStep ==
  ASSUME HandshakeInv, NEW p \in Posters, Claim(p)
  PROVE  HandshakeInv'
<1> USE Members, HandshakeAssumption
<1>1. TypeOK'
  BY DEF HandshakeInv, TypeOK, Claim, Step
<1>2. PosterStores' /\ DispatcherStores'
  BY DEF HandshakeInv, TypeOK, Claim, Step, PosterStores, DispatcherStores, IsScheduled
<1>3. Pushing' = Pushing /\ InLoop' = InLoop
  BY DEF HandshakeInv, TypeOK, Claim, Step, Pushing, InLoop
<1>4. Entitled'
  BY <1>3, EntitledKept DEF Claim, Flushed
<1> QED
  BY <1>1, <1>2, <1>4 DEF HandshakeInv

\* A poster's store goes to the mail it has claimed, never to is_scheduled.
LEMMA PublishStep ==
  ASSUME HandshakeInv, NEW p \in Posters, Publish(p)
  PROVE  HandshakeInv'
<1> USE Members, HandshakeAssumption
<1>1. /\ position[p] \in 0 .. MailCount /\ position[p] # IsScheduled
      /\ Write(p, position[p], TRUE)
  <2>1. position[p] \in 0 .. MailCount
    BY DEF HandshakeInv, TypeOK
  <2>2. pc[p] = "publish" /\ Write(p, position[p], TRUE)
    BY ZenonT(60) DEF Publish, Step
  <2> QED
    BY ZenonT(60), <2>1, <2>2 DEF HandshakeInv, PosterStores
<1>2. /\ buffer' \in [Threads -> Seq(Store)]
      /\ buffer'[p] = Append(buffer[p], [location |-> position[p], value |-> TRUE])
      /\ \A u \in Threads : u # p => buffer'[u] = buffer[u]
  BY ZenonT(60), <1>1, WriteBuffer DEF HandshakeInv
<1>3. TypeOK'
  BY <1>2 DEF HandshakeInv, TypeOK, Publish, Step, Write
<1>4. PosterStores'
  <2> SUFFICES ASSUME NEW q \in Posters
               PROVE  /\ pc'[q] = "publish" => position'[q] # IsScheduled
                      /\ \A k \in 1 .. Len(buffer'[q]) : buffer'[q][k].location # IsScheduled
    BY DEF PosterStores
  <2>1. pc'[q] = "publish" => position'[q] # IsScheduled
    BY DEF HandshakeInv, TypeOK, Publish, Step, PosterStores
  <2>2. CASE q # p
    BY <1>2, <2>1, <2>2 DEF HandshakeInv, PosterStores
  <2>3. CASE q = p
    <3>1. \A k \in 1 .. Len(buffer[p]) : buffer[p][k].location # IsScheduled
      BY DEF HandshakeInv, PosterStores
    <3>2. buffer[p] \in Seq(Store)
      BY DEF HandshakeInv, TypeOK
    <3>3. \A k \in 1 .. Len(buffer'[p]) :
            \/ k \in 1 .. Len(buffer[p]) /\ buffer'[p][k] = buffer[p][k]
            \/ buffer'[p][k] = [location |-> position[p], value |-> TRUE]
      BY <1>2, <3>2
    <3>4. \A k \in 1 .. Len(buffer'[p]) : buffer'[p][k].location # IsScheduled
      BY <1>1, <3>1, <3>3
    <3> QED
      BY <2>1, <2>3, <3>4
  <2> QED
    BY <2>2, <2>3
<1>5. buffer'[Dispatcher] = buffer[Dispatcher] /\ pc'[Dispatcher] = pc[Dispatcher]
  BY <1>2 DEF HandshakeInv, TypeOK, Publish, Step
<1>6. DispatcherStores'
  BY <1>5 DEF HandshakeInv, DispatcherStores, Publish, Write
<1>7. Pushing' = Pushing /\ InLoop' = InLoop
  BY DEF HandshakeInv, TypeOK, Publish, Step, Pushing, InLoop
<1>8. Entitled'
  BY <1>5, <1>7, EntitledKept DEF Publish, Write, Flushed
<1> QED
  BY <1>3, <1>4, <1>6, <1>8 DEF HandshakeInv

\* The first look at is_scheduled decides nothing.
LEMMA LoadScheduledStep ==
  ASSUME HandshakeInv, NEW p \in Posters, LoadScheduled(p)
  PROVE  HandshakeInv'
<1> USE Members
<1>1. /\ pc[p] = "load" /\ pc'[p] \in {"idle", "swap"}
      /\ \A u \in Threads : u # p => pc'[u] = pc[u]
      /\ UNCHANGED <<memory, buffer, claimed, consumed, queue, position>>
  BY DEF HandshakeInv, TypeOK, LoadScheduled, Step
<1>2. TypeOK'
  BY <1>1 DEF HandshakeInv, TypeOK, LoadScheduled, Step
<1>3. PosterStores' /\ DispatcherStores'
  BY <1>1 DEF HandshakeInv, PosterStores, DispatcherStores
<1>4. Pushing' = Pushing /\ InLoop' = InLoop
  BY <1>1 DEF Pushing, InLoop
<1>5. Entitled'
  BY <1>1, <1>4, EntitledKept DEF Flushed
<1> QED
  BY <1>2, <1>3, <1>5 DEF HandshakeInv

\* The swap that finds is_scheduled clear gains the one right there is.
LEMMA SwapScheduledStep ==
  ASSUME HandshakeInv, NEW t \in Threads, SwapScheduled(t)
  PROVE  HandshakeInv'
<1> USE Members
<1>1. /\ pc[t] = "swap" /\ pc'[t] = IF memory[IsScheduled] THEN "idle" ELSE "push"
      /\ \A u \in Threads : u # t => pc'[u] = pc[u]
      /\ memory'[IsScheduled] = TRUE
      /\ UNCHANGED <<buffer, claimed, consumed, queue, position>>
  BY DEF HandshakeInv, TypeOK, SwapScheduled, Step
<1>2. TypeOK'
  BY DEF HandshakeInv, TypeOK, SwapScheduled, Step
<1>3. PosterStores'
  BY <1>1 DEF HandshakeInv, PosterStores
<1>4. DispatcherStores'
  BY <1>1 DEF HandshakeInv, DispatcherStores, SwapScheduled, Flushed
<1>5. InLoop' = InLoop
  BY <1>1 DEF InLoop
<1>6. CASE memory[IsScheduled]
  <2>1. Pushing' = Pushing
    BY <1>1, <1>6 DEF Pushing
  <2>2. Entitled'
    BY ZenonT(60), <1>1, <1>5, <1>6, <2>1, EntitledKept DEF Flushed, HandshakeInv, TypeOK
  <2> QED
    BY <1>2, <1>3, <1>4, <2>2 DEF HandshakeInv
<1>7. CASE ~ memory[IsScheduled]
  <2>1. Pushing' = Pushing \cup {t} /\ t \notin Pushing
    BY <1>1, <1>7 DEF Pushing
  <2>2. IsFiniteSet(Pushing') /\ Cardinality(Pushing') = Cardinality(Pushing) + 1
    BY <2>1, FS_AddElement DEF HandshakeInv, Entitled
  <2>3. buffer[Dispatcher] = << >>
    BY <1>7 DEF HandshakeInv, DispatcherStores
  <2>4. queue + Cardinality(Pushing) + InLoop = 0
    BY <1>7 DEF HandshakeInv, Entitled
  <2>5. queue \in Nat /\ Cardinality(Pushing) \in Nat /\ InLoop \in Nat
    BY FS_CardinalityType DEF HandshakeInv, TypeOK, Entitled, InLoop
  <2>6. Entitled'
    BY <1>1, <1>5, <2>2, <2>3, <2>4, <2>5 DEF Entitled, Flushed
  <2> QED
    BY <1>2, <1>3, <1>4, <2>6 DEF HandshakeInv
<1> QED
  BY <1>6, <1>7

\* The right goes from the thread that won the swap to the queue,
LEMMA PushStep ==
  ASSUME HandshakeInv, NEW t \in Threads, Push(t)
  PROVE  HandshakeInv'
<1> USE Members
<1>1. /\ pc[t] = "push" /\ pc'[t] = "idle"
      /\ \A u \in Threads : u # t => pc'[u] = pc[u]
      /\ queue' = queue + 1
      /\ UNCHANGED <<memory, buffer, claimed, consumed, position>>
  BY DEF HandshakeInv, TypeOK, Push, Step
<1>2. TypeOK'
  BY DEF HandshakeInv, TypeOK, Push, Step
<1>3. PosterStores'
  BY <1>1 DEF HandshakeInv, PosterStores
<1>4. DispatcherStores'
  BY <1>1 DEF HandshakeInv, DispatcherStores
<1>5. InLoop' = InLoop
  BY <1>1 DEF InLoop
<1>6. Pushing' = Pushing \ {t} /\ t \in Pushing
  BY <1>1 DEF Pushing
<1>7. IsFiniteSet(Pushing') /\ Cardinality(Pushing') = Cardinality(Pushing) - 1
  BY <1>6, FS_RemoveElement DEF HandshakeInv, Entitled
<1>8. queue \in Nat /\ Cardinality(Pushing) \in Nat /\ InLoop \in Nat
  BY FS_CardinalityType DEF HandshakeInv, TypeOK, Entitled, InLoop
<1>9. Entitled'
  BY <1>1, <1>5, <1>7, <1>8 DEF HandshakeInv, Entitled, Flushed
<1> QED
  BY <1>2, <1>3, <1>4, <1>9 DEF HandshakeInv

\* and from the queue to the mailbox loop.
LEMMA ExecuteStep == HandshakeInv /\ Execute => HandshakeInv'
<1> SUFFICES ASSUME HandshakeInv, Execute PROVE HandshakeInv'
  OBVIOUS
<1> USE Members
<1>1. /\ pc[Dispatcher] = "idle" /\ pc'[Dispatcher] = "dequeue"
      /\ \A u \in Threads : u # Dispatcher => pc'[u] = pc[u]
      /\ buffer[Dispatcher] = << >> /\ queue > 0 /\ queue' = queue - 1
      /\ UNCHANGED <<memory, buffer, claimed, consumed, position>>
  BY DEF HandshakeInv, TypeOK, Execute, Step, Flushed
<1>2. TypeOK'
  BY DEF HandshakeInv, TypeOK, Execute, Step
<1>3. PosterStores' /\ DispatcherStores'
  BY <1>1 DEF HandshakeInv, PosterStores, DispatcherStores
<1>4. Pushing' = Pushing /\ InLoop = 0 /\ InLoop' = 1
  BY <1>1 DEF Pushing, InLoop
<1>5. queue \in Nat /\ Cardinality(Pushing) \in Nat
  BY FS_CardinalityType DEF HandshakeInv, TypeOK, Entitled
<1>6. Entitled'
  BY <1>1, <1>4, <1>5 DEF HandshakeInv, Entitled, Flushed
<1> QED
  BY <1>2, <1>3, <1>6 DEF HandshakeInv

\* The loop keeps it while it dequeues.
LEMMA DequeueStep == HandshakeInv /\ Dequeue => HandshakeInv'
<1> SUFFICES ASSUME HandshakeInv, Dequeue PROVE HandshakeInv'
  OBVIOUS
<1> USE Members
<1>1. /\ pc[Dispatcher] = "dequeue" /\ pc'[Dispatcher] \in {"dequeue", "unschedule"}
      /\ \A u \in Threads : u # Dispatcher => pc'[u] = pc[u]
      /\ UNCHANGED <<memory, buffer, claimed, queue, position>>
  BY DEF HandshakeInv, TypeOK, Dequeue, Step
<1>2. consumed' \in 0 .. MailCount
  BY HandshakeAssumption DEF HandshakeInv, TypeOK, Dequeue, NextPublished
<1>3. TypeOK'
  BY <1>1, <1>2 DEF HandshakeInv, TypeOK, Dequeue, Step
<1>4. PosterStores' /\ DispatcherStores'
  BY <1>1 DEF HandshakeInv, PosterStores, DispatcherStores
<1>5. Pushing' = Pushing /\ InLoop' = InLoop
  BY <1>1 DEF Pushing, InLoop
<1>6. Entitled'
  BY <1>1, <1>5, EntitledKept DEF Flushed
<1> QED
  BY <1>3, <1>4, <1>6 DEF HandshakeInv

\* The store of false gives it up before it has reached memory.
LEMMA UnscheduleStep == HandshakeInv /\ Unschedule => HandshakeInv'
<1> SUFFICES ASSUME HandshakeInv, Unschedule PROVE HandshakeInv'
  OBVIOUS
<1> USE Members
<1>1. /\ pc[Dispatcher] = "unschedule" /\ pc'[Dispatcher] = "peek"
      /\ \A u \in Threads : u # Dispatcher => pc'[u] = pc[u]
      /\ UNCHANGED <<memory, claimed, consumed, queue, position>>
  BY DEF HandshakeInv, TypeOK, Unschedule, Step, Write
<1>2. /\ buffer' \in [Threads -> Seq(Store)]
      /\ buffer'[Dispatcher] = Append(buffer[Dispatcher], Clearing)
      /\ \A u \in Threads : u # Dispatcher => buffer'[u] = buffer[u]
  BY ZenonT(60), WriteBuffer DEF HandshakeInv, Unschedule, Clearing
<1>3. buffer[Dispatcher] = << >>
  BY <1>1 DEF HandshakeInv, DispatcherStores
<1>4. buffer'[Dispatcher] = <<Clearing>>
  BY <1>2, <1>3
<1>5. TypeOK'
  BY ZenonT(60), <1>1, <1>2 DEF HandshakeInv, TypeOK, Unschedule, Step
<1>6. PosterStores'
  BY <1>1, <1>2 DEF HandshakeInv, PosterStores
<1>7. Pushing' = Pushing /\ InLoop = 1 /\ InLoop' = 0
  BY <1>1 DEF Pushing, InLoop
<1>8. queue \in Nat /\ Cardinality(Pushing) \in Nat
  BY FS_CardinalityType DEF HandshakeInv, TypeOK, Entitled
<1>9. memory[IsScheduled]
  BY <1>7, <1>8 DEF HandshakeInv, Entitled
<1>10. DispatcherStores'
  BY <1>1, <1>4, <1>9 DEF DispatcherStores, Clearing
<1>11. ~ Flushed(Dispatcher)' /\ Flushed(Dispatcher)
  BY <1>3, <1>4 DEF Flushed
<1>12. Entitled'
  BY <1>1, <1>7, <1>8, <1>11 DEF HandshakeInv, Entitled
<1> QED
  BY <1>5, <1>6, <1>10, <1>12 DEF HandshakeInv

\* The last look at the mailbox happens without it.
LEMMA TryPeekStep == HandshakeInv /\ TryPeek => HandshakeInv'
<1> SUFFICES ASSUME HandshakeInv, TryPeek PROVE HandshakeInv'
  OBVIOUS
<1> USE Members
<1>1. /\ pc[Dispatcher] = "peek" /\ pc'[Dispatcher] \in {"swap", "idle"}
      /\ \A u \in Threads : u # Dispatcher => pc'[u] = pc[u]
      /\ UNCHANGED <<memory, buffer, claimed, consumed, queue, position>>
  BY DEF HandshakeInv, TypeOK, TryPeek, Step
<1>2. TypeOK'
  BY <1>1 DEF HandshakeInv, TypeOK, TryPeek, Step
<1>3. PosterStores' /\ DispatcherStores'
  BY <1>1 DEF HandshakeInv, PosterStores, DispatcherStores
<1>4. Pushing' = Pushing /\ InLoop' = InLoop
  BY <1>1 DEF Pushing, InLoop
<1>5. Entitled'
  BY <1>1, <1>4, EntitledKept DEF Flushed
<1> QED
  BY <1>2, <1>3, <1>5 DEF HandshakeInv

\* A poster's store reaches a mail, the dispatcher's clears is_scheduled.
LEMMA FlushStep ==
  ASSUME HandshakeInv, NEW t \in Threads, Flush(t)
  PROVE  HandshakeInv'
<1> USE Members
<1>1. /\ buffer[t] \in Seq(Store) /\ buffer[t] # << >>
      /\ UNCHANGED <<claimed, consumed, queue, pc, position>>
  BY DEF HandshakeInv, TypeOK, Flush, Flushed
<1>2. /\ Tail(buffer[t]) \in Seq(Store) /\ Head(buffer[t]) \in Store
      /\ Head(buffer[t]) = buffer[t][1] /\ 1 \in 1 .. Len(buffer[t])
      /\ Len(Tail(buffer[t])) = Len(buffer[t]) - 1
      /\ \A k \in 1 .. Len(Tail(buffer[t])) : Tail(buffer[t])[k] = buffer[t][k + 1]
  BY <1>1
<1>3. /\ Head(buffer[t]).location \in 0 .. MailCount
      /\ Head(buffer[t]).value \in BOOLEAN
  BY <1>2 DEF Store
<1>4. /\ buffer' \in [Threads -> Seq(Store)]
      /\ buffer'[t] = Tail(buffer[t])
      /\ \A u \in Threads : u # t => buffer'[u] = buffer[u]
  BY <1>2 DEF HandshakeInv, TypeOK, Flush
<1>5. memory' \in [0 .. MailCount -> BOOLEAN]
  BY <1>3 DEF HandshakeInv, TypeOK, Flush
<1>6. TypeOK'
  BY <1>1, <1>4, <1>5 DEF HandshakeInv, TypeOK
<1>7. Pushing' = Pushing /\ InLoop' = InLoop
  BY <1>1 DEF Pushing, InLoop
<1>8. CASE t \in Posters
  <2>1. \A k \in 1 .. Len(buffer[t]) : buffer[t][k].location # IsScheduled
    BY <1>8 DEF HandshakeInv, PosterStores
  <2>2. \A k \in 1 .. Len(buffer'[t]) : buffer'[t][k].location # IsScheduled
    BY <1>1, <1>2, <1>4, <2>1
  <2>3. PosterStores'
    BY ZenonT(60), <1>1, <1>4, <2>2 DEF HandshakeInv, PosterStores
  <2>4. memory'[IsScheduled] = memory[IsScheduled]
    BY <1>2, <2>1 DEF HandshakeInv, TypeOK, Flush
  <2>5. buffer'[Dispatcher] = buffer[Dispatcher]
    BY <1>4, <1>8
  <2>6. DispatcherStores'
    BY <1>1, <2>4, <2>5 DEF HandshakeInv, DispatcherStores
  <2>7. Entitled'
    BY <1>1, <1>7, <2>4, <2>5, EntitledKept DEF Flushed
  <2> QED
    BY <1>6, <2>3, <2>6, <2>7 DEF HandshakeInv
<1>9. CASE t = Dispatcher
  <2>1. buffer[Dispatcher] = <<Clearing>>
    BY <1>1, <1>9 DEF HandshakeInv, DispatcherStores
  <2>2. buffer'[Dispatcher] = << >> /\ Head(buffer[t]) = Clearing
    BY <1>4, <1>9, <2>1
  <2>3. ~ memory'[IsScheduled]
    BY <1>9, <2>2 DEF HandshakeInv, TypeOK, Flush, Clearing
  <2>4. PosterStores'
    BY <1>1, <1>4, <1>9 DEF HandshakeInv, PosterStores
  <2>5. DispatcherStores'
    BY <2>2 DEF DispatcherStores
  <2>6. ~ Flushed(Dispatcher)
    BY <1>1, <1>9 DEF Flushed
  <2>7. Entitled'
    BY <1>1, <1>7, <2>3, <2>6 DEF HandshakeInv, Entitled
  <2> QED
    BY <1>6, <2>4, <2>5, <2>7 DEF HandshakeInv
<1> QED
  BY <1>8, <1>9 DEF Threads

\* HandshakeInv is inductive.
LEMMA NextHolds == HandshakeInv /\ [Next]_vars => HandshakeInv'
<1> SUFFICES ASSUME HandshakeInv, [Next]_vars PROVE HandshakeInv'
  OBVIOUS
<1>1. CASE \E p \in Posters : Claim(p) \/ Publish(p) \/ LoadScheduled(p)
  BY <1>1, ClaimStep, PublishStep, LoadScheduledStep
<1>2. CASE Execute \/ Dequeue \/ Unschedule \/ TryPeek
  BY <1>2, ExecuteStep, DequeueStep, UnscheduleStep, TryPeekStep
<1>3. CASE \E t \in Threads : SwapScheduled(t) \/ Push(t) \/ Flush(t)
  BY <1>3, SwapScheduledStep, PushStep, FlushStep
<1>4. CASE UNCHANGED vars
  BY <1>4 DEF vars, HandshakeInv, TypeOK, PosterStores, DispatcherStores, Entitled,
              Pushing, InLoop, Flushed
<1> QED
  BY <1>1, <1>2, <1>3, <1>4 DEF Next

-----------------------------------------------------------------------------
\* The right to run the mailbox loop exists exactly while is_scheduled is set
\* in memory and no store of false is on its way, whoever posts and whenever
\* the processor lets a store become visible.
THEOREM HandshakeInvariant == Spec => []HandshakeInv
<1>1. Init => HandshakeInv
  BY InitHolds
<1>2. HandshakeInv /\ [Next]_vars => HandshakeInv'
  BY NextHolds
<1> QED
  BY <1>1, <1>2, PTL DEF Spec

\* Any number of posters and the dispatcher itself race for schedule_self and
\* execute: one of them at most holds the right to run the mailbox loop, on
\* which the mailbox's unsynchronised consumer side relies.
THEOREM RunnerScheduledOnce == Spec => []ScheduledOnce
<1>1. HandshakeInv => ScheduledOnce
  BY DEF HandshakeInv, Entitled, Pushing, InLoop, ScheduledOnce
<1> QED
  BY <1>1, HandshakeInvariant, PTL

\* When all calls have returned and all stores have arrived is_scheduled is
\* clear: no actor is silenced by a mark that nobody will clear.
THEOREM NextPostCanSchedule == Spec => []NextPostSchedules
<1>1. HandshakeInv => NextPostSchedules
  <2> SUFFICES ASSUME HandshakeInv, Quiescent PROVE ~ memory[IsScheduled]
    BY DEF NextPostSchedules
  <2>1. queue = 0 /\ pc[Dispatcher] = "idle" /\ Flushed(Dispatcher)
    BY Members DEF Quiescent
  <2>2. Pushing = {} /\ InLoop = 0
    BY <2>1 DEF Quiescent, Pushing, InLoop
  <2> QED
    BY <2>1, <2>2, FS_EmptySet DEF HandshakeInv, Entitled
<1> QED
  BY <1>1, HandshakeInvariant, PTL

=============================================================================
