------------------------- MODULE ActorSystemProofs --------------------------
(***************************************************************************)
(* The registry's books, its handles and names, and the order of shutdown, *)
(* for any number of slots, users, closers, dispatchers and spawns.  What  *)
(* is said of handles and names holds while the generation of a slot       *)
(* cannot come back to an earlier value (FewSpawns): a slot's generation   *)
(* changes twice for every actor that has it.                              *)
(***************************************************************************)
EXTENDS ActorSystemInv, FiniteSetTheorems, TLAPS

-----------------------------------------------------------------------------
(* The count of the slots *)

\* live counts the actors that hold a slot.
LEMMA LiveStep ==
  ASSUME TypeOK, SlotInv, LifeInv, LiveInv, [Next]_vars
  PROVE  LiveInv'
<1>0. IsFiniteSet(Holding) /\ Cardinality(Holding) \in Nat
  BY FS_CardinalityType DEF LiveInv
<1>1. CASE SlotsSame
  BY ZenonT(30), <1>1 DEF LiveInv, SlotsSame
<1>2. ASSUME NEW a \in Actors, Commit(a) PROVE LiveInv'
  BY <1>2, CommitHolds DEF LiveInv
<1>3. ASSUME NEW a \in Actors, NEW i \in Slots, TakesSlot(a, i) PROVE LiveInv'
  <2>1. IsFiniteSet(Holding') /\ Cardinality(Holding') = Cardinality(Holding) + 1
    BY <1>0, <1>3, ReserveHolds, FS_AddElement
  <2> QED
    BY ZenonT(30), <1>3, <2>1 DEF LiveInv, TakesSlot
<1>4. ASSUME NEW d \in Dispatchers, RemoveOwner(d) PROVE LiveInv'
  <2>1. /\ current[d] \in Holding /\ Holding' = Holding \ {current[d]} /\ live' = live - 1
    BY <1>4, RemoveHolds
  <2>2. IsFiniteSet(Holding') /\ Cardinality(Holding') = Cardinality(Holding) - 1
    BY <1>0, <2>1, FS_RemoveElement
  <2> QED
    BY <2>1, <2>2 DEF LiveInv
<1> QED
  BY <1>1, <1>2, <1>3, <1>4, SlotCases

-----------------------------------------------------------------------------
(* Handles *)

\* Few spawns leave every generation room for its next change.
LEMMA BornCount ==
  ASSUME FewSpawns
  PROVE  /\ IsFiniteSet(BornActors) /\ Cardinality(BornActors) \in Nat
         /\ 2 * Cardinality(BornActors) < Generations
<1>1. BornActors \subseteq Actors /\ IsFiniteSet(Actors)
  BY ZenonT(30) DEF FewSpawns, BornActors
<1>2. /\ IsFiniteSet(BornActors) /\ Cardinality(BornActors) <= Cardinality(Actors)
      /\ Cardinality(BornActors) \in Nat /\ Cardinality(Actors) \in Nat
  BY <1>1, FS_Subset, FS_CardinalityType
<1> QED
  BY SMTT(30), <1>2, Constants DEF FewSpawns

\* Spawn a gets a handle that no actor had before.
LEMMA ReserveHandles ==
  ASSUME FewSpawns, TypeOK, HandleInv, NEW a \in Actors, NEW i \in Slots, TakesSlot(a, i)
  PROVE  /\ generation[i] \in Nat /\ handle'[a] = [index |-> i, generation |-> generation[i] + 1]
         /\ generation'[i] = generation[i] + 1
         /\ \A j \in Slots : j # i => generation'[j] = generation[j]
         /\ a \notin BornActors /\ BornActors' = BornActors \cup {a}
         /\ Cardinality(BornActors') = Cardinality(BornActors) + 1
<1>1. a \notin BornActors /\ BornActors' = BornActors \cup {a}
  BY ZenonT(30) DEF TakesSlot, BornActors, Born
<1>2. Cardinality(BornActors') = Cardinality(BornActors) + 1
  BY ZenonT(30), <1>1, BornCount, FS_AddElement
<1>3. IsFiniteSet(BornActors \cup {a}) /\ BornActors \cup {a} \subseteq Actors
  BY <1>1, BornCount, FS_AddElement DEF BornActors
<1>4. Cardinality(BornActors) + 1 <= Cardinality(Actors)
  BY <1>1, <1>2, <1>3, FS_Subset DEF FewSpawns
<1>5. Cardinality(Actors) \in Nat
  BY FS_CardinalityType DEF FewSpawns
<1>6. generation[i] \in Nat /\ generation[i] <= 2 * Cardinality(BornActors)
  BY ZenonT(30) DEF TypeOK, HandleInv, BoundInv
<1>7. generation[i] + 1 < Generations
  BY SMTT(30), <1>4, <1>5, <1>6, BornCount, Constants DEF FewSpawns
<1>8. NextGeneration(generation[i]) = generation[i] + 1
  BY <1>6, <1>7, NextGenerations
<1> QED
  BY ZenonT(30), <1>1, <1>2, <1>6, <1>8 DEF TakesSlot, TypeOK

\* remove raises the generation of the actor's slot by one, or does nothing.
LEMMA RemoveRaises ==
  ASSUME FewSpawns, TypeOK, LifeInv, HandleInv, NEW d \in Dispatchers, RemoveGeneration(d)
  PROVE  LET a == current[d]
             i == handle[a].index IN
         \/ UNCHANGED generation /\ disp_pc'[d] # "take"
         \/ /\ a \in BornActors /\ i \in Slots /\ handle[a].generation = generation[i]
            /\ generation'[i] = generation[i] + 1
            /\ \A j \in Slots : j # i => generation'[j] = generation[j]
<1> DEFINE a == current[d]
           i == handle[a].index
<1>1. a \in Actors /\ i \in Slots /\ spawn_pc[a] = "done" /\ generation[i] \in Nat
  <2>1. a \in Actors
    BY SMTT(30) DEF RemoveGeneration, LifeInv, TypeOK
  <2>2. lifecycle[a] = "stopped"
    BY ZenonT(30), <2>1, Constants DEF LifeInv
  <2>3. spawn_pc[a] = "done"
    BY ZenonT(30), <2>1, <2>2 DEF LifeInv
  <2> QED
    BY ZenonT(30), <2>1, <2>3 DEF TypeOK, AnyHandle
<1>2. a \in BornActors
  BY ZenonT(30), <1>1 DEF BornActors, Born
<1>3. CASE alloc_poisoned \/ generation[i] # handle[a].generation
  BY ZenonT(30), <1>1, <1>3 DEF RemoveGeneration, DispStep, TypeOK
<1>4. CASE /\ generation[i] = handle[a].generation
           /\ generation' = [generation EXCEPT ![i] = NextGeneration(@)]
  <2>1. generation[i] + 1 <= 2 * Cardinality(BornActors)
    BY ZenonT(30), <1>2, <1>4 DEF HandleInv, BoundInv
  <2>2. NextGeneration(generation[i]) = generation[i] + 1
    BY <1>1, <2>1, BornCount, NextGenerations, Constants
  <2> QED
    BY <1>1, <1>2, <1>4, <2>2 DEF TypeOK
<1> QED
  BY ZenonT(30), <1>3, <1>4 DEF RemoveGeneration

\* A handle is made of a generation its slot never had.
LEMMA HandleStep ==
  ASSUME FewSpawns, TypeOK, SlotInv, LifeInv, HandleInv, [Next]_vars
  PROVE  HandleInv'
<1> USE Constants
<1>0. /\ \A i \in Slots : generation[i] \in Nat
      /\ \A a \in Actors : handle[a].index \in Slots /\ handle[a].generation \in Nat
      /\ \A a \in Actors : a \in BornActors <=> Born(a)
      /\ BornActors \subseteq Actors /\ Cardinality(BornActors) \in Nat
  BY ZenonT(30), BornCount DEF TypeOK, AnyHandle, BornActors
<1>1. ASSUME UNCHANGED <<generation, handle>>, Holding' = Holding,
             \A a \in Actors : Born(a)' <=> Born(a),
             \A d \in Dispatchers : disp_pc'[d] = "take" =>
               disp_pc[d] = "take" /\ current'[d] = current[d]
      PROVE  HandleInv'
  <2>1. BornActors' = BornActors
    BY <1>1 DEF BornActors
  <2>2. GenerationInv'
    BY ZenonT(30), <1>1 DEF HandleInv, GenerationInv
  <2>3. BoundInv'
    BY ZenonT(30), <1>1, <2>1 DEF HandleInv, BoundInv
  <2>4. HandlesUnique'
    BY ZenonT(30), <1>1 DEF HandleInv, HandlesUnique
  <2> QED
    BY <2>2, <2>3, <2>4 DEF HandleInv
<1>2. CASE Calm
  BY ZenonT(30), <1>1, <1>2, OthersHold DEF Calm, SlotsSame
<1>3. ASSUME NEW a \in Actors, AliasWrite(a) PROVE HandleInv'
  <2>1. SlotsSame /\ UNCHANGED <<generation, disp_pc, current>>
    BY ZenonT(30), <1>3, OthersHold DEF AliasWrite, dispatcher
  <2> QED
    BY <1>1, <2>1 DEF SlotsSame
<1>4. ASSUME NEW d \in Dispatchers, Finalize(d) \/ RemoveAlias(d)
      PROVE  HandleInv'
  <2>1. /\ SlotsSame /\ UNCHANGED generation
        /\ disp_pc'[d] # "take"
        /\ \A e \in Dispatchers : e # d => disp_pc'[e] = disp_pc[e] /\ current'[e] = current[e]
    <3>1. SlotsSame
      BY <1>4, OthersHold
    <3>2. CASE Finalize(d)
      BY ZenonT(30), <3>1, <3>2 DEF Finalize, DispStep, TypeOK
    <3>3. CASE RemoveAlias(d)
      BY ZenonT(30), <3>1, <3>3 DEF RemoveAlias, DispStep, TypeOK
    <3> QED
      BY <1>4, <3>1, <3>2, <3>3
  <2> QED
    BY <1>1, <2>1 DEF SlotsSame
<1>5. ASSUME NEW a \in Actors, NEW i \in Slots, TakesSlot(a, i) PROVE HandleInv'
  <2>1. /\ handle'[a].index = i /\ handle'[a].generation = generation[i] + 1
        /\ generation'[i] = generation[i] + 1
        /\ \A j \in Slots : j # i => generation'[j] = generation[j]
        /\ a \notin BornActors /\ BornActors' = BornActors \cup {a}
        /\ Cardinality(BornActors') = Cardinality(BornActors) + 1
    <3>1. handle'[a] = [index |-> i, generation |-> generation[i] + 1]
      BY <1>5, ReserveHandles
    <3>2. handle'[a].index = i /\ handle'[a].generation = generation[i] + 1
      BY <3>1
    <3> QED
      BY ZenonT(30), <1>5, <3>2, ReserveHandles
  <2>2. /\ \A b \in Actors : b # a => handle'[b] = handle[b]
        /\ UNCHANGED <<disp_pc, current>>
    BY ZenonT(30), <1>5 DEF TakesSlot
  <2>3. \A b \in BornActors : b # a /\ handle[b].generation <= generation[handle[b].index]
    BY ZenonT(30), <1>0, <2>1 DEF HandleInv, GenerationInv
  <2>4. \A b \in BornActors : handle[b].index = i =>
          handle[b].generation < generation'[i] /\ handle[b] # handle'[a]
    <3> TAKE b \in BornActors
    <3> HAVE handle[b].index = i
    <3>1. handle[b].generation \in Nat /\ handle[b].generation <= generation[i]
      BY ZenonT(30), <1>0, <2>3
    <3> QED
      BY <1>0, <2>1, <3>1
  <2>5. a \in Holding' /\ Holding \subseteq Holding'
    BY <1>5, ReserveHolds
  <2>6. \A d \in Dispatchers : current[d] # a
    BY ZenonT(30), <1>5 DEF LifeInv, TakesSlot
  <2>7. GenerationInv'
    <3> SUFFICES ASSUME NEW b \in BornActors'
                 PROVE  /\ handle'[b].generation <= generation'[handle'[b].index]
                        /\ handle'[b].generation = generation'[handle'[b].index] =>
                             /\ b \in Holding'
                             /\ \A d \in Dispatchers : ~ (disp_pc'[d] = "take" /\ current'[d] = b)
      BY ZenonT(30) DEF GenerationInv, BornActors
    <3>1. CASE b = a
      BY <1>0, <2>1, <2>2, <2>5, <2>6, <3>1
    <3>2. CASE b # a /\ handle[b].index = i
      BY <1>0, <2>1, <2>2, <2>4, <3>2
    <3>3. CASE b # a /\ handle[b].index # i
      <4>1. b \in BornActors /\ handle'[b] = handle[b] /\ handle[b].index \in Slots
        BY <1>0, <2>1, <2>2, <3>3
      <4>2. generation'[handle'[b].index] = generation[handle[b].index]
        BY ZenonT(30), <2>1, <3>3, <4>1
      <4> QED
        BY ZenonT(30), <1>0, <2>2, <2>5, <4>1, <4>2 DEF HandleInv, GenerationInv
    <3> QED
      BY ZenonT(30), <3>1, <3>2, <3>3
  <2>8. BoundInv'
    <3>1. \A j \in Slots : generation'[j] <= 2 * Cardinality(BornActors')
                           /\ generation'[j] + 1 <= 2 * Cardinality(BornActors')
      BY SMTT(30), <1>0, <2>1 DEF HandleInv, BoundInv
    <3>2. \A b \in BornActors' : handle'[b].index \in Slots
      BY <1>0, <2>1, <2>2
    <3> QED
      BY ZenonT(30), <3>1, <3>2 DEF BoundInv
  <2>9. HandlesUnique'
    <3> SUFFICES ASSUME NEW b \in BornActors', NEW c \in BornActors', handle'[b] = handle'[c]
                 PROVE  b = c
      BY ZenonT(30) DEF HandlesUnique, BornActors
    <3>1. \A e \in BornActors : handle[e] # handle'[a]
      BY <2>1, <2>4
    <3> QED
      BY ZenonT(30), <1>0, <2>1, <2>2, <3>1 DEF HandleInv, HandlesUnique
  <2> QED
    BY <2>7, <2>8, <2>9 DEF HandleInv
<1>6. ASSUME NEW a \in Actors, Commit(a) PROVE HandleInv'
  <2>1. \A b \in Actors : Born(b)' <=> Born(b)
    BY <1>6, CommitHolds DEF Born
  <2> QED
    BY ZenonT(30), <1>1, <1>6, <2>1, CommitHolds
<1>7. ASSUME NEW d \in Dispatchers, RemoveGeneration(d) PROVE HandleInv'
  <2> DEFINE a == current[d]
             i == handle[a].index
  <2>1. /\ SlotsSame /\ UNCHANGED current
        /\ \A e \in Dispatchers : e # d => disp_pc'[e] = disp_pc[e]
    BY ZenonT(30), <1>7, OthersHold DEF RemoveGeneration, DispStep, TypeOK
  <2>2. CASE UNCHANGED generation /\ disp_pc'[d] # "take"
    BY ZenonT(30), <1>1, <2>1, <2>2 DEF SlotsSame
  <2>3. CASE /\ a \in BornActors /\ i \in Slots /\ handle[a].generation = generation[i]
             /\ generation'[i] = generation[i] + 1
             /\ \A j \in Slots : j # i => generation'[j] = generation[j]
    <3> HIDE DEF i
    <3>1. BornActors' = BornActors /\ UNCHANGED handle /\ Holding' = Holding
      BY ZenonT(30), <2>1 DEF SlotsSame, BornActors
    <3>2. \A b \in BornActors : handle[b].generation <= generation[handle[b].index]
      BY ZenonT(30), <1>0 DEF HandleInv, GenerationInv
    <3>3. \A b \in BornActors : handle[b].index = i => handle[b].generation < generation'[i]
      BY <1>0, <2>3, <3>2
    <3>4. GenerationInv'
      <4> SUFFICES ASSUME NEW b \in BornActors
                   PROVE  /\ handle[b].generation <= generation'[handle[b].index]
                          /\ handle[b].generation = generation'[handle[b].index] =>
                               /\ b \in Holding
                               /\ \A e \in Dispatchers : ~ (disp_pc'[e] = "take" /\ current[e] = b)
        BY ZenonT(30), <2>1, <3>1 DEF GenerationInv, BornActors
      <4>1. CASE handle[b].index = i
        BY <1>0, <2>3, <3>3, <4>1
      <4>2. CASE handle[b].index # i
        <5>1. b # a /\ generation'[handle[b].index] = generation[handle[b].index]
          BY ZenonT(30), <1>0, <2>3, <4>2 DEF i
        <5> QED
          BY ZenonT(30), <1>0, <2>1, <5>1 DEF HandleInv, GenerationInv
      <4> QED
        BY <4>1, <4>2
    <3>5. BoundInv'
      <4>1. generation[i] + 1 <= 2 * Cardinality(BornActors)
        BY ZenonT(30), <2>3 DEF HandleInv, BoundInv, i
      <4>2. \A j \in Slots : generation'[j] <= 2 * Cardinality(BornActors)
        BY ZenonT(30), <2>3, <4>1 DEF HandleInv, BoundInv
      <4>3. \A b \in BornActors : handle[b].generation = generation'[handle[b].index] =>
              generation'[handle[b].index] + 1 <= 2 * Cardinality(BornActors)
        <5> TAKE b \in BornActors
        <5>1. CASE handle[b].index = i
          BY <1>0, <2>3, <3>3, <5>1
        <5>2. CASE handle[b].index # i
          <6>1. generation'[handle[b].index] = generation[handle[b].index]
            BY ZenonT(30), <1>0, <2>3, <5>2
          <6> QED
            BY ZenonT(30), <6>1 DEF HandleInv, BoundInv
        <5> QED
          BY <5>1, <5>2
      <4> QED
        BY <3>1, <4>2, <4>3 DEF BoundInv
    <3>6. HandlesUnique'
      BY ZenonT(30), <2>1 DEF HandleInv, HandlesUnique, SlotsSame
    <3> QED
      BY <3>4, <3>5, <3>6 DEF HandleInv
  <2> QED
    BY <1>7, <2>2, <2>3, RemoveRaises
<1>8. ASSUME NEW d \in Dispatchers, RemoveOwner(d) PROVE HandleInv'
  <2> DEFINE a == current[d]
  <2>1. /\ a \in Holding /\ Holding' = Holding \ {a} /\ disp_pc[d] = "take" /\ disp_pc'[d] # "take"
        /\ \A e \in Dispatchers : e # d => disp_pc'[e] = disp_pc[e]
        /\ UNCHANGED <<generation, spawn_pc, handle, current>>
    BY ZenonT(30), <1>8, RemoveHolds
  <2>2. /\ Born(a) /\ a \in Actors /\ BornActors' = BornActors
        /\ \A b \in Actors : Born(b)' <=> Born(b)
    BY ZenonT(30), <2>1 DEF Holding, BornActors, Born
  <2>3. handle[a].generation # generation[handle[a].index]
    BY ZenonT(30), <2>1, <2>2 DEF HandleInv, GenerationInv
  <2>4. GenerationInv'
    BY ZenonT(30), <2>1, <2>2, <2>3 DEF HandleInv, GenerationInv
  <2>5. BoundInv'
    BY ZenonT(30), <2>1, <2>2 DEF HandleInv, BoundInv
  <2>6. HandlesUnique'
    BY ZenonT(30), <2>1, <2>2 DEF HandleInv, HandlesUnique
  <2> QED
    BY <2>4, <2>5, <2>6 DEF HandleInv
<1> QED
  BY <1>2, <1>3, <1>4, <1>5, <1>6, <1>7, <1>8, Cases, ReserveTakes

-----------------------------------------------------------------------------
(* Shutdown *)

\* Once nobody holds a slot, no actor that was spawned in time owns one.
LEMMA NobodyOwns ==
  ASSUME TypeOK, LiveInv, ShutdownInv, live = 0, NEW a \in in_time
  PROVE  owner[handle[a].index] # a
<1>1. Holding = {}
  BY ZenonT(30), FS_EmptySet DEF LiveInv
<1>2. a \in Actors /\ spawn_pc[a] = "done"
  BY DEF ShutdownInv
<1> QED
  BY ZenonT(30), <1>1, <1>2 DEF Holding, Born

\* Nobody gets past the wait while an actor that was spawned in time owns its
\* slot, and no such actor appears later.
LEMMA ShutdownStep ==
  ASSUME TypeOK, SlotInv, LifeInv, LiveInv, ShutdownInv, [Next]_vars
  PROVE  ShutdownInv'
<1> DEFINE Past == stopped # {} \/ \E c \in Closers : close_pc[c] \in {"stop", "done"}
<1>0. close_pc' \in [Closers -> {"idle", "scan", "kill", "wait", "stop", "done", "panicked"}]
  <2>1. ASSUME NEW c \in Closers, NEW from, NEW to, CloseStep(c, from, to),
               to \in {"idle", "scan", "kill", "wait", "stop", "done", "panicked"}
        PROVE  close_pc' \in [Closers -> {"idle", "scan", "kill", "wait", "stop", "done",
                                          "panicked"}]
    BY <2>1 DEF CloseStep, ShutdownInv
  <2>2. ASSUME NEW c \in Closers, BeginShutdown(c) \/ Close(c) \/ TimedOut(c)
        PROVE  \E from, to : /\ CloseStep(c, from, to)
                             /\ to \in {"idle", "scan", "kill", "wait", "stop", "done", "panicked"}
    <3>1. CASE BeginShutdown(c) \/ TimedOut(c) \/ WaitLive(c)
      BY <3>1 DEF BeginShutdown, TimedOut, WaitLive
    <3>2. CASE SnapshotLive(c) \/ KillSnapshot(c) \/ StopDispatchers(c)
      BY <3>2 DEF SnapshotLive, KillSnapshot, StopDispatchers
    <3> QED
      BY <2>2, <3>1, <3>2 DEF Close
  <2> QED
    BY <2>1, <2>2, CloserFrame DEF ShutdownInv
<1>1. /\ \A a \in in_time : a \in Actors /\ spawn_pc'[a] = "done"
      /\ \A a \in in_time : owner[handle[a].index] # a => owner'[handle'[a].index] # a
  BY OwnersGone DEF ShutdownInv
<1>2. ASSUME UNCHANGED in_time,
             is_disposed' \/ (stopped' = {} /\ \A c \in Closers : close_pc'[c] = "idle"),
             Past' => Past
      PROVE  ShutdownInv'
  BY ZenonT(30), <1>0, <1>1, <1>2 DEF ShutdownInv
<1>3. CASE UNCHANGED <<close_pc, in_time, is_disposed, stopped>>
  BY ZenonT(30), <1>2, <1>3 DEF ShutdownInv
<1>4. ASSUME NEW c \in Closers, BeginShutdown(c) PROVE ShutdownInv'
  <2>1. CASE is_disposed
    <3>1. UNCHANGED <<in_time, stopped>> /\ is_disposed'
      BY ZenonT(30), <1>4, <2>1 DEF BeginShutdown, dispatcher
    <3>2. \A e \in Closers : close_pc'[e] = close_pc[e] \/ close_pc'[e] = "wait"
      BY ZenonT(30), <1>4, <2>1 DEF BeginShutdown, CloseStep, ShutdownInv
    <3> QED
      BY <1>2, <3>1, <3>2
  <2>2. CASE ~ is_disposed
    <3>1. stopped' = {} /\ is_disposed' /\ UNCHANGED spawn_pc
      BY ZenonT(30), <1>4, <2>2 DEF BeginShutdown, dispatcher, ShutdownInv
    <3>2. \A e \in Closers : close_pc'[e] \in {"idle", "scan"}
      BY ZenonT(30), <1>4, <2>2 DEF BeginShutdown, CloseStep, ShutdownInv
    <3>3. in_time' = {a \in Actors : spawn_pc[a] = "done"}
      BY <1>4, <2>2 DEF BeginShutdown
    <3> QED
      BY ZenonT(30), <1>0, <3>1, <3>2, <3>3 DEF ShutdownInv
  <2> QED
    BY <2>1, <2>2
<1>5. ASSUME NEW c \in Closers, SnapshotLive(c) \/ KillSnapshot(c) \/ TimedOut(c)
      PROVE  ShutdownInv'
  <2>1. UNCHANGED <<in_time, stopped, is_disposed>>
    BY ZenonT(30), <1>5 DEF SnapshotLive, KillSnapshot, TimedOut, dispatcher
  <2>2. close_pc[c] # "idle"
    BY ZenonT(30), <1>5 DEF SnapshotLive, KillSnapshot, TimedOut, CloseStep
  <2>3. \A e \in Closers : close_pc'[e] = close_pc[e] \/ close_pc'[e] \notin {"stop", "done"}
    BY ZenonT(30), <1>5 DEF SnapshotLive, KillSnapshot, TimedOut, CloseStep, ShutdownInv
  <2>4. is_disposed'
    BY <2>1, <2>2 DEF ShutdownInv
  <2> QED
    BY <1>2, <2>1, <2>3, <2>4
<1>6. ASSUME NEW c \in Closers, WaitLive(c) PROVE ShutdownInv'
  <2>1. UNCHANGED <<in_time, stopped, is_disposed, owner, handle, spawn_pc>>
    BY ZenonT(30), <1>6 DEF WaitLive, dispatcher, runner
  <2>2. is_disposed'
    BY SMTT(30), <1>6, <2>1 DEF WaitLive, CloseStep, ShutdownInv
  <2>3. CASE alloc_poisoned
    <3>1. \A e \in Closers : close_pc'[e] = close_pc[e] \/ close_pc'[e] = "panicked"
      BY ZenonT(30), <1>6, <2>3 DEF WaitLive, CloseStep, ShutdownInv
    <3> QED
      BY <1>2, <2>1, <2>2, <3>1
  <2>4. CASE ~ alloc_poisoned
    <3>1. live = 0
      BY <1>6, <2>4 DEF WaitLive
    <3>2. \A a \in in_time : owner[handle[a].index] # a
      BY <3>1, NobodyOwns
    <3> QED
      BY ZenonT(30), <1>0, <1>1, <2>1, <2>2, <3>2 DEF ShutdownInv
  <2> QED
    BY <2>3, <2>4
<1>7. ASSUME NEW c \in Closers, StopDispatchers(c) PROVE ShutdownInv'
  <2>1. close_pc[c] = "stop" /\ UNCHANGED <<in_time, is_disposed>>
    BY ZenonT(30), <1>7 DEF StopDispatchers, CloseStep
  <2>2. is_disposed' /\ Past
    BY <2>1 DEF ShutdownInv
  <2> QED
    BY <1>2, <2>1, <2>2
<1> QED
  BY <1>3, <1>4, <1>5, <1>6, <1>7, CloserFrame DEF Close

-----------------------------------------------------------------------------
(* The whole system *)

\* What holds of slots, lives and shutdown whatever the generations do
SystemInv ==
  TypeOK /\ SlotInv /\ LiveInv /\ LifeInv /\ ExecuteInv /\ UserInv /\ ShutdownInv

\* What holds of handles and names while no generation comes back
NameInv == HandleInv /\ FoundInv /\ AliasFindsActor

\* A new system has handed out nothing.
LEMMA InitSystem ==
  ASSUME Init
  PROVE  SystemInv
<1> USE Constants
<1>1. \A a \in Actors : ~ Born(a)
  BY ZenonT(30) DEF Init, Born
<1>2. Holding = {}
  BY ZenonT(30), <1>1 DEF Holding
<1>3. Len(free) = 0 /\ free \in Seq(Slots) /\ DOMAIN alias_to_handle = {}
  BY SMTT(30) DEF Init
<1>4. NoHandle \in AnyHandle
  BY ZenonT(30) DEF NoHandle, AnyHandle
<1>5. TypeOK
  <2>1. /\ generation \in [Slots -> Nat] /\ owner \in [Slots -> Actors \cup {Nobody}]
        /\ next_unused \in 0 .. Capacity
    BY SMTT(30) DEF Init
  <2>2. /\ lifecycle \in [Actors -> {"unborn", "running", "killing", "stopped"}]
        /\ handle \in [Actors -> AnyHandle]
        /\ home \in [Actors -> Dispatchers]
        /\ spawn_pc \in [Actors -> SpawnLabels]
    BY ZenonT(30), <1>4, SystemAssumption DEF Init, SpawnLabels
  <2>3. /\ user_pc \in [Users -> UserLabels]
        /\ held \in [Users -> AnyHandle] /\ found \in [Users -> Actors \cup {Nobody}]
    BY ZenonT(30), <1>4 DEF Init, UserLabels
  <2>4. /\ disp_pc \in [Dispatchers -> {"idle", "remove", "take", "unalias", "dead"}]
        /\ current \in [Dispatchers -> Actors \cup {Nobody}]
    BY DEF Init
  <2> QED
    BY <1>3, <2>1, <2>2, <2>3, <2>4 DEF TypeOK
<1>6. SlotInv
  BY SMTT(30), <1>2, <1>3 DEF SlotInv, Init, Slots
<1>7. LiveInv
  BY ZenonT(30), <1>2, FS_EmptySet DEF LiveInv, Init
<1>8. LifeInv
  BY ZenonT(30) DEF LifeInv, Init
<1>9. UserInv
  BY ZenonT(30), <1>3 DEF UserInv, Init
<1>10. ShutdownInv
  BY ZenonT(30) DEF ShutdownInv, Init
<1>11. ExecuteInv
  <2>1. << >> \in Seq(Actors) /\ \A d : << >> \in Seq(AtHome(d))
    BY SMTT(30)
  <2>2. scanned \in Nat
    BY SMTT(30) DEF Init
  <2> QED
    BY ZenonT(30), <2>1, <2>2 DEF ExecuteInv, Init
<1> QED
  BY <1>5, <1>6, <1>7, <1>8, <1>9, <1>10, <1>11 DEF SystemInv

\* ... and named nothing.
LEMMA InitNames ==
  ASSUME Init
  PROVE  NameInv
<1>1. \A a \in Actors : ~ Born(a)
  BY ZenonT(30) DEF Init, Born
<1>2. BornActors = {}
  BY <1>1 DEF BornActors
<1>3. Cardinality(BornActors) = 0
  BY <1>2, FS_EmptySet
<1>4. GenerationInv /\ HandlesUnique
  BY ZenonT(30), <1>1 DEF GenerationInv, HandlesUnique
<1>5. BoundInv
  BY SMTT(30), <1>2, <1>3 DEF BoundInv, Init
<1>6. FoundInv
  BY ZenonT(30) DEF FoundInv, Init
<1>7. AliasFindsActor
  BY ZenonT(30) DEF AliasFindsActor, Init
<1> QED
  BY ZenonT(30), <1>4, <1>5, <1>6, <1>7 DEF NameInv, HandleInv

\* Every step keeps the types.
LEMMA TypeStep ==
  ASSUME TypeOK, LifeInv, ExecuteInv, UserInv, [Next]_vars
  PROVE  TypeOK'
<1>1. \A al \in DOMAIN alias_to_handle : alias_to_handle[al] \in AnyHandle
  BY ZenonT(30) DEF UserInv, TypeOK
<1>2. CASE UNCHANGED vars
  BY ZenonT(30), <1>2 DEF TypeOK, vars, alloc, runner, user, dispatcher
<1> QED
  BY <1>1, <1>2, SpawnTypes, UserTypes, RunTypes, DispatcherTypes, CloserTypes DEF Next, Dispatch

\* Slots, lives and shutdown are kept in order by every step, ...
LEMMA SystemStep ==
  ASSUME SystemInv, [Next]_vars
  PROVE  SystemInv'
BY TypeStep, SlotStep, LiveStep, LifeStep, ExecuteStep, HeldStep, ShutdownStep DEF SystemInv

\* ... and so are handles and names.
LEMMA NameStep ==
  ASSUME FewSpawns, SystemInv, NameInv, [Next]_vars
  PROVE  NameInv'
BY ZenonT(30), HandleStep, FoundStep, AliasStep DEF SystemInv, NameInv

\* The books of the slots, as SlotsAccounted puts them
LEMMA Accounts ==
  ASSUME TypeOK, SlotInv, LiveInv
  PROVE  SlotsAccounted
<1> USE Constants
<1>1. SUFFICES ASSUME NEW i \in Slots
               PROVE  Cardinality({k \in DOMAIN free : free[k] = i})
                        + Cardinality({a \in Holding : handle[a].index = i})
                      = IF i < next_unused THEN 1 ELSE 0
  BY ZenonT(30) DEF SlotsAccounted, LiveInv
<1> DEFINE K == {k \in DOMAIN free : free[k] = i}
           H == {a \in Holding : handle[a].index = i}
<1>2. DOMAIN free = 1 .. Len(free) /\ next_unused \in Nat /\ i \in Nat
  BY SMTT(30) DEF TypeOK
<1>3. Cardinality({}) = 0 /\ \A x : Cardinality({x}) = 1
  BY FS_EmptySet, FS_Singleton
<1>4. ASSUME NEW k \in 1 .. Len(free), free[k] = i
      PROVE  K = {k} /\ H = {} /\ i < next_unused
  BY SMTT(30), <1>2, <1>4 DEF SlotInv
<1>5. ASSUME NEW a \in Holding, handle[a].index = i
      PROVE  K = {} /\ H = {a} /\ i < next_unused
  BY SMTT(30), <1>2, <1>5 DEF SlotInv
<1>6. ASSUME NEW k \in 1 .. Len(free), free[k] = i
      PROVE  Cardinality(K) = 1 /\ Cardinality(H) = 0 /\ i < next_unused
  <2>1. K = {k} /\ H = {} /\ i < next_unused
    BY <1>4, <1>6
  <2> HIDE DEF K, H
  <2> QED
    BY ZenonT(30), <1>3, <2>1
<1>7. ASSUME NEW a \in Holding, handle[a].index = i
      PROVE  Cardinality(K) = 0 /\ Cardinality(H) = 1 /\ i < next_unused
  <2>1. K = {} /\ H = {a} /\ i < next_unused
    BY <1>5, <1>7
  <2> HIDE DEF K, H
  <2> QED
    BY ZenonT(30), <1>3, <2>1
<1>8. ASSUME /\ ~ \E k \in 1 .. Len(free) : free[k] = i
             /\ ~ \E a \in Holding : handle[a].index = i
      PROVE  Cardinality(K) = 0 /\ Cardinality(H) = 0 /\ ~ i < next_unused
  <2>1. K = {} /\ H = {} /\ ~ i < next_unused
    BY SMTT(30), <1>2, <1>8 DEF SlotInv
  <2> HIDE DEF K, H
  <2> QED
    BY <1>3, <2>1
<1>9. Cardinality(K) + Cardinality(H) = IF i < next_unused THEN 1 ELSE 0
  <2> HIDE DEF K, H
  <2> QED
    BY <1>6, <1>7, <1>8
<1> QED
  BY ZenonT(30), <1>9

-----------------------------------------------------------------------------
(* Theorems *)

\* The inductive invariant of slots, lives and shutdown holds throughout,
\* for any number of slots, spawns, users, closers and dispatchers.
THEOREM SystemInvariant == Spec => []SystemInv
<1>1. Init => SystemInv
  BY InitSystem
<1>2. SystemInv /\ [Next]_vars => SystemInv'
  BY SystemStep
<1> QED
  BY <1>1, <1>2, PTL DEF Spec

\* The registry loses no slot and hands none out twice, and live is the number
\* of actors that hold one, however reserve, commit, remove and failing spawns
\* interleave, and even when a generation wraps around.
THEOREM SlotsAreAccounted == Spec => []SlotsAccounted
<1>1. SystemInv => SlotsAccounted
  BY Accounts DEF SystemInv
<1> QED
  BY <1>1, SystemInvariant, PTL

\* When any call of dispose or shutdown_timeout stops a dispatcher, every actor
\* that was spawned when shutdown began is finalized and removed.
THEOREM ActorsFinalizedFirst == Spec => []ShutdownFinalizesActors
<1>1. SystemInv => ShutdownFinalizesActors
  <2>1. SUFFICES ASSUME TypeOK, LifeInv, ShutdownInv, stopped # {}, NEW a \in in_time
                 PROVE  lifecycle[a] = "stopped" /\ owner[handle[a].index] # a
    BY ZenonT(30) DEF SystemInv, ShutdownFinalizesActors
  <2>2. a \in Actors /\ spawn_pc[a] = "done" /\ owner[handle[a].index] # a
    BY <2>1 DEF ShutdownInv
  <2> QED
    BY <2>1, <2>2 DEF LifeInv
<1> QED
  BY <1>1, SystemInvariant, PTL

\* The inductive invariant of handles and names holds as long as there are too
\* few spawns for a slot's generation to come back to an earlier value.
THEOREM NameInvariant == FewSpawns => (Spec => []NameInv)
<1>1. SUFFICES ASSUME FewSpawns PROVE Spec => []NameInv
  OBVIOUS
<1>2. Init => NameInv
  BY InitNames
<1>3. SystemInv /\ NameInv /\ [Next]_vars => NameInv'
  BY <1>1, NameStep
<1> QED
  BY <1>2, <1>3, SystemInvariant, PTL DEF Spec

\* No two actors ever have the same handle, though they may have the same slot.
THEOREM HandlesAreUnique == FewSpawns => (Spec => []HandlesUnique)
<1>1. NameInv => HandlesUnique
  BY ZenonT(30) DEF NameInv, HandleInv
<1> QED
  BY <1>1, NameInvariant, PTL

\* post and kill reach the actor the handle was made for, though the slot may
\* be given to another actor between any two of their steps.
THEOREM HandleReachesItsActor == FewSpawns => (Spec => []HandleReachesOwnActor)
<1>1. NameInv => HandleReachesOwnActor
  BY ZenonT(30) DEF NameInv, FoundInv, HandleReachesOwnActor
<1> QED
  BY <1>1, NameInvariant, PTL

\* A name leads to the actor that was spawned under it until that actor's own
\* finalization removes it, whichever spawns compete for the name.
THEOREM NameFindsItsActor == FewSpawns => (Spec => []AliasFindsActor)
<1>1. NameInv => AliasFindsActor
  BY DEF NameInv
<1> QED
  BY <1>1, NameInvariant, PTL

=============================================================================
