--------------------------- MODULE ActorSystemInv ---------------------------
(***************************************************************************)
(* The inductive invariants of ActorSystem, and that every step keeps the  *)
(* types, the slots, the lives of actors, what users have in hand and the  *)
(* names.  ActorSystemProofs adds what needs counting (the number of live  *)
(* actors, the room left to generations), shutdown and the theorems.       *)
(***************************************************************************)
EXTENDS ActorSystem, TLAPS

\* 2^31 spawns of 2^32 generation values are too many.
FewSpawns == IsFiniteSet(Actors) /\ 2 * Cardinality(Actors) < Generations

BornLabels == {"alias_write", "commit", "done", "leaked"}
SpawnLabels == BornLabels \cup {"idle", "panicked", "alias_read", "reserve"}
AnyHandle == [index : Slots, generation : Nat]
UserLabels == {"idle", "check", "clone", "apply", "enqueue"}

TypeOK ==
  /\ generation \in [Slots -> Nat]
  /\ owner \in [Slots -> Actors \cup {Nobody}]
  /\ free \in Seq(Slots)
  /\ next_unused \in 0 .. Capacity
  /\ lifecycle \in [Actors -> {"unborn", "running", "killing", "stopped"}]
  /\ handle \in [Actors -> AnyHandle]
  /\ home \in [Actors -> Dispatchers]
  /\ spawn_pc \in [Actors -> SpawnLabels]
  /\ user_pc \in [Users -> UserLabels]
  /\ held \in [Users -> AnyHandle]
  /\ found \in [Users -> Actors \cup {Nobody}]
  /\ disp_pc \in [Dispatchers -> {"idle", "remove", "take", "unalias", "dead"}]
  /\ current \in [Dispatchers -> Actors \cup {Nobody}]

\* Each slot that was ever handed out is on the free list or held, and each
\* slot has an owner only if a finished spawn gave it that owner.
SlotInv ==
  /\ \A a \in Holding : handle[a].index < next_unused
  /\ \A a, b \in Holding : handle[a].index = handle[b].index => a = b
  /\ \A k \in 1 .. Len(free) :
       free[k] < next_unused /\ \A a \in Holding : handle[a].index # free[k]
  /\ \A k, l \in 1 .. Len(free) : free[k] = free[l] => k = l
  /\ \A i \in Slots : i < next_unused =>
       \/ \E k \in 1 .. Len(free) : free[k] = i
       \/ \E a \in Holding : handle[a].index = i
  /\ \A i \in Slots : owner[i] # Nobody =>
       spawn_pc[owner[i]] = "done" /\ handle[owner[i]].index = i

LiveInv == IsFiniteSet(Holding) /\ live = Cardinality(Holding)

\* An actor has a slot from commit until its dispatcher takes it away, which
\* its dispatcher alone does and only for a stopped actor.
LifeInv ==
  /\ \A a \in Actors : lifecycle[a] = "unborn" <=> spawn_pc[a] # "done"
  /\ \A a \in Actors :
       spawn_pc[a] = "done" /\ owner[handle[a].index] # a => lifecycle[a] = "stopped"
  /\ \A d \in Dispatchers : current[d] # Nobody =>
       home[current[d]] = d /\ lifecycle[current[d]] = "stopped"
  /\ \A d \in Dispatchers : disp_pc[d] # "idle" => current[d] # Nobody
  /\ \A d \in Dispatchers : disp_pc[d] \in {"remove", "take"} =>
       owner[handle[current[d]].index] = current[d]

AtHome(d) == {a \in Actors : home[a] = d}

\* A dispatcher executes, and has on its queue, its own actors only, and who is
\* to be killed or was found in a slot is an actor.
ExecuteInv ==
  /\ scheduled_actors \in [Dispatchers -> Seq(Actors)]
  /\ run_pc \in [Dispatchers -> {"idle", "start", "unschedule", "peek"}]
  /\ executing \in [Dispatchers -> Actors \cup {Nobody}]
  /\ \A d \in Dispatchers : scheduled_actors[d] \in Seq(AtHome(d))
  /\ \A d \in Dispatchers : run_pc[d] # "idle" => executing[d] \in AtHome(d)
  /\ suspended \subseteq Actors
  /\ to_kill \subseteq Actors /\ scanned \in Nat
  /\ \A u \in Users : user_pc[u] \in {"apply", "enqueue"} => found[u] \in Actors

\* A slot's generation is that of its holder's handle until remove raises it,
\* and above that of every earlier handle.
GenerationInv ==
  \A a \in Actors : Born(a) =>
    /\ handle[a].generation <= generation[handle[a].index]
    /\ handle[a].generation = generation[handle[a].index] =>
         a \in Holding /\ \A d \in Dispatchers : ~ (disp_pc[d] = "take" /\ current[d] = a)

BornActors == {a \in Actors : Born(a)}

\* Two changes of a generation are left to every spawn that is to come, and one
\* to every actor that holds its slot.
BoundInv ==
  /\ \A i \in Slots : generation[i] <= 2 * Cardinality(BornActors)
  /\ \A a \in BornActors : handle[a].generation = generation[handle[a].index] =>
       generation[handle[a].index] + 1 <= 2 * Cardinality(BornActors)

HandleInv == GenerationInv /\ BoundInv /\ HandlesUnique

\* A handle in use was made by reserve.
UserInv ==
  /\ \A u \in Users : user_pc[u] # "idle" => \E a \in Actors : Born(a) /\ held[u] = handle[a]
  /\ \A al \in DOMAIN alias_to_handle :
       \E a \in Actors : Born(a) /\ alias_to_handle[al] = handle[a]

\* A runner that was cloned out of a slot is the one of the handle, until it
\* is used.
FoundInv ==
  \A u \in Users : found[u] # Nobody =>
    user_pc[u] \in {"apply", "enqueue"} /\ Born(found[u]) /\ handle[found[u]] = held[u]

\* Whoever got past the wait for the actors saw none that was spawned in time.
ShutdownInv ==
  /\ close_pc \in [Closers -> {"idle", "scan", "kill", "wait", "stop", "done", "panicked"}]
  /\ is_disposed \/ (stopped = {} /\ \A c \in Closers : close_pc[c] = "idle")
  /\ in_time \subseteq {a \in Actors : spawn_pc[a] = "done"}
  /\ (stopped # {} \/ \E c \in Closers : close_pc[c] \in {"stop", "done"}) =>
       \A a \in in_time : owner[handle[a].index] # a


-----------------------------------------------------------------------------
(* What a step changes *)

\* kill changes the state of a running actor and of no other.
KillOnly ==
  \A a \in Actors : \/ lifecycle'[a] = lifecycle[a]
                    \/ lifecycle[a] = "running" /\ lifecycle'[a] = "killing"

\* spawns before reserve and spawns that fail there
NoneBorn ==
  \A a \in Actors : \/ spawn_pc'[a] = spawn_pc[a]
                    \/ spawn_pc[a] \notin BornLabels /\ spawn_pc'[a] \notin BornLabels

\* A step that leaves slots, handles, names and finalizations alone
Calm ==
  /\ UNCHANGED <<generation, owner, free, next_unused, live, handle, home, alias_to_handle,
                 disp_pc, current>>
  /\ KillOnly /\ NoneBorn

\* Slots and dispatchers
LEMMA Constants ==
  /\ Slots \subseteq Nat /\ 0 \in Slots
  /\ Capacity \in Nat /\ Generations \in Nat /\ Generations > 0
  /\ Nobody \notin Actors
BY SMTT(30), SystemAssumption DEF Slots

\* NextGeneration yields a number, and the next one while there is one.
LEMMA NextGenerations ==
  ASSUME NEW g \in Nat
  PROVE  /\ NextGeneration(g) \in Nat
         /\ g + 1 < Generations => NextGeneration(g) = g + 1
BY SMTT(30), Constants DEF NextGeneration

\* Kill of an actor, or of nobody, is what KillOnly says.
LEMMA KillEffect ==
  ASSUME TypeOK, NEW a, Kill(a)
  PROVE  /\ KillOnly
         /\ lifecycle' \in [Actors -> {"unborn", "running", "killing", "stopped"}]
BY ZenonT(30) DEF TypeOK, Kill, Killed, KillOnly

\* A user that moves is the only one that does, ...
LEMMA UserMoves ==
  ASSUME TypeOK, NEW u \in Users, NEW from, NEW to, UserStep(u, from, to)
  PROVE  /\ user_pc[u] = from /\ user_pc'[u] = to
         /\ \A v \in Users : v # u => user_pc'[v] = user_pc[v]
         /\ to \in UserLabels => user_pc' \in [Users -> UserLabels]
BY ZenonT(30) DEF TypeOK, UserStep

\* ... and at the end of its call has nothing in hand.
LEMMA UserEnds ==
  ASSUME TypeOK, NEW u \in Users, NEW from, UserDone(u, from)
  PROVE  /\ user_pc[u] = from /\ user_pc'[u] = "idle" /\ found'[u] = Nobody
         /\ \A v \in Users : v # u => /\ user_pc'[v] = user_pc[v] /\ held'[v] = held[v]
                                      /\ found'[v] = found[v]
         /\ user_pc' \in [Users -> UserLabels] /\ held' \in [Users -> AnyHandle]
         /\ found' \in [Users -> Actors \cup {Nobody}]
<1>1. UserStep(u, from, "idle") /\ "idle" \in UserLabels
  BY ZenonT(30) DEF UserDone, UserLabels
<1>2. NoHandle \in AnyHandle
  BY ZenonT(30), Constants DEF NoHandle, AnyHandle
<1>3. /\ found'[u] = Nobody
      /\ \A v \in Users : v # u => held'[v] = held[v] /\ found'[v] = found[v]
      /\ held' \in [Users -> AnyHandle] /\ found' \in [Users -> Actors \cup {Nobody}]
  BY ZenonT(30), <1>2 DEF UserDone, TypeOK
<1> QED
  BY ZenonT(30), <1>1, <1>3, UserMoves

\* A spawn that is not past reserve moves.
LEMMA SpawnMoves ==
  ASSUME TypeOK, NEW a \in Actors, NEW from, NEW to, SpawnStep(a, from, to)
  PROVE  /\ spawn_pc[a] = from /\ spawn_pc'[a] = to
         /\ \A b \in Actors : b # a => spawn_pc'[b] = spawn_pc[b]
         /\ to \in SpawnLabels => spawn_pc' \in [Actors -> SpawnLabels]
BY ZenonT(30) DEF TypeOK, SpawnStep

\* The steps of users and closers, those of a spawn before it has a slot, and
\* the execution of mail are calm.
LEMMA CalmSteps ==
  ASSUME TypeOK,
         \/ \E a \in Actors : ThrowIfDisposed(a) \/ AliasRead(a) \/ ReservePanics(a) \/ Resume(a)
         \/ \E d \in Dispatchers : Run(d)
         \/ \E u \in Users : \/ Use(u)
                             \/ \E a \in Actors : UseSpawned(u, a)
                             \/ \E al \in DOMAIN alias_to_handle : TryGetActorRefByAlias(u, al)
         \/ \E c \in Closers : BeginShutdown(c) \/ Close(c) \/ TimedOut(c)
         \/ UNCHANGED vars
  PROVE  Calm
<1>1. ASSUME NEW a \in Actors, ThrowIfDisposed(a) \/ AliasRead(a) \/ ReservePanics(a) PROVE Calm
  <2>1. NoneBorn
    BY ZenonT(30), <1>1, SpawnMoves DEF ThrowIfDisposed, AliasRead, ReservePanics, NoneBorn,
                                        BornLabels
  <2> QED
    BY ZenonT(30), <1>1, <2>1 DEF Calm, KillOnly, ThrowIfDisposed, AliasRead, ReservePanics,
                                  alloc, aliases, runner, dispatcher
<1>2. ASSUME NEW u \in Users, ApplyKill(u) PROVE Calm
  <2>1. KillOnly
    BY ZenonT(30), <1>2, KillEffect DEF ApplyKill
  <2> QED
    BY ZenonT(30), <1>2, <2>1 DEF Calm, NoneBorn, ApplyKill, alloc, aliases, dispatcher
<1>3. ASSUME NEW u \in Users,
             CheckGeneration(u) \/ CloneOwner(u) \/ ApplyPost(u) \/ Enqueue(u)
      PROVE  Calm
  <2>1. UNCHANGED <<generation, owner, alloc, aliases, lifecycle, handle, home, spawn_pc,
                    dispatcher>>
    BY ZenonT(30), <1>3 DEF CheckGeneration, CloneOwner, ApplyPost, Enqueue, runner
  <2> QED
    BY ZenonT(30), <2>1 DEF Calm, KillOnly, NoneBorn, alloc, aliases, dispatcher
<1>4. ASSUME NEW u \in Users,
             \/ \E a \in Actors : UseSpawned(u, a)
             \/ \E al \in DOMAIN alias_to_handle : TryGetActorRefByAlias(u, al)
      PROVE  Calm
  BY ZenonT(30), <1>4 DEF Calm, KillOnly, NoneBorn, UseSpawned, TryGetActorRefByAlias, alloc,
                          aliases, runner, dispatcher
<1>5. ASSUME NEW c \in Closers, KillSnapshot(c) PROVE Calm
  <2>1. KillOnly
    BY ZenonT(30), <1>5, KillEffect DEF KillSnapshot, KillOnly
  <2> QED
    BY ZenonT(30), <1>5, <2>1 DEF Calm, NoneBorn, KillSnapshot, alloc, aliases, dispatcher
<1>6. ASSUME NEW c \in Closers, BeginShutdown(c) \/ SnapshotLive(c) PROVE Calm
  BY ZenonT(30), <1>6 DEF Calm, KillOnly, NoneBorn, BeginShutdown, SnapshotLive, alloc,
                          aliases, runner, dispatcher
<1>7. ASSUME NEW c \in Closers, WaitLive(c) \/ TimedOut(c) \/ StopDispatchers(c) PROVE Calm
  BY ZenonT(30), <1>7 DEF Calm, KillOnly, NoneBorn, WaitLive, TimedOut, StopDispatchers, alloc,
                          aliases, runner, dispatcher
<1>8. CASE UNCHANGED vars
  BY ZenonT(30), <1>8 DEF Calm, KillOnly, NoneBorn, vars, alloc, aliases, runner, dispatcher
<1>9. ASSUME NEW a \in Actors, Resume(a) PROVE Calm
  <2>1. KillOnly
    BY ZenonT(30), <1>9 DEF Resume, Killed, KillOnly, TypeOK
  <2> QED
    BY ZenonT(30), <1>9, <2>1 DEF Calm, NoneBorn, Resume, alloc, aliases, dispatcher
<1>10. ASSUME NEW d \in Dispatchers, Run(d) PROVE Calm
  <2>1. KillOnly
    <3>1. CASE Receive(d)
      <4>1. lifecycle' = lifecycle \/ Kill(executing[d])
        BY ZenonT(30), <3>1 DEF Receive
      <4> QED
        BY ZenonT(30), <4>1, KillEffect DEF KillOnly
    <3>2. CASE Execute(d) \/ Unschedule(d) \/ Peek(d)
      BY ZenonT(30), <3>2 DEF Execute, Unschedule, Peek, KillOnly
    <3> QED
      BY <1>10, <3>1, <3>2 DEF Run
  <2>2. UNCHANGED <<generation, owner, alloc, aliases, handle, home, spawn_pc, disp_pc, current>>
    BY ZenonT(30), <1>10 DEF Run, Execute, Receive, Unschedule, Peek
  <2> QED
    BY ZenonT(30), <2>1, <2>2 DEF Calm, NoneBorn, alloc, aliases
<1> QED
  BY ZenonT(30), <1>1, <1>2, <1>3, <1>4, <1>5, <1>6, <1>7, <1>8, <1>9, <1>10 DEF Use, Close

\* Seven kinds of steps are not calm.
LEMMA Cases ==
  ASSUME TypeOK, [Next]_vars
  PROVE  \/ Calm
         \/ \E a \in Actors : Reserve(a) \/ AliasWrite(a) \/ Commit(a)
         \/ \E d \in Dispatchers :
              Finalize(d) \/ RemoveGeneration(d) \/ RemoveOwner(d) \/ RemoveAlias(d)
BY ZenonT(30), CalmSteps DEF Next, Spawn, Dispatch, FinalizeKill

-----------------------------------------------------------------------------
(* Types *)

\* A spawn's steps
LEMMA SpawnTypes ==
  ASSUME TypeOK, NEW a \in Actors, ThrowIfDisposed(a) \/ Spawn(a)
  PROVE  TypeOK'
<1> USE DEF AnyHandle
<1>1. CASE ThrowIfDisposed(a) \/ AliasRead(a) \/ ReservePanics(a)
  <2>1. spawn_pc' \in [Actors -> SpawnLabels]
    BY ZenonT(30), <1>1, SpawnMoves DEF ThrowIfDisposed, AliasRead, ReservePanics, SpawnLabels
  <2> QED
    BY ZenonT(30), <1>1, <2>1 DEF TypeOK, ThrowIfDisposed, AliasRead, ReservePanics, alloc,
                                  runner, user, dispatcher
<1>2. CASE Reserve(a)
  <2>1. PICK i \in Slots :
          /\ Reserved(a, i)
          /\ free' \in Seq(Slots) /\ next_unused' \in 0 .. Capacity
    <3>1. CASE free # << >>
      <4>1. Len(free) \in 1 .. Len(free) /\ free[Len(free)] \in Slots
        BY SMTT(30), <3>1 DEF TypeOK
      <4>2. SubSeq(free, 1, Len(free) - 1) \in Seq(Slots)
        BY SMTT(30), <4>1 DEF TypeOK
      <4> QED
        BY ZenonT(30), <1>2, <3>1, <4>1, <4>2 DEF Reserve, TypeOK
    <3>2. CASE free = << >>
      BY SMTT(30), <1>2, <3>2, Constants DEF Reserve, TypeOK, Slots
    <3> QED
      BY <3>1, <3>2
  <2>2. spawn_pc' \in [Actors -> SpawnLabels]
    BY ZenonT(30), <2>1, SpawnMoves DEF Reserved, SpawnLabels, BornLabels
  <2>3. generation[i] \in Nat /\ NextGeneration(generation[i]) \in Nat
    BY NextGenerations DEF TypeOK
  <2>4. generation' \in [Slots -> Nat] /\ handle' \in [Actors -> AnyHandle]
    BY ZenonT(30), <2>1, <2>3 DEF Reserved, TypeOK
  <2> QED
    BY ZenonT(30), <2>1, <2>2, <2>4 DEF TypeOK, Reserved, user, dispatcher
<1>3. CASE AliasWrite(a)
  <2>1. spawn_pc' \in [Actors -> SpawnLabels]
    BY ZenonT(30), <1>3, SpawnMoves DEF AliasWrite, SpawnLabels, BornLabels
  <2> QED
    BY ZenonT(30), <1>3, <2>1 DEF TypeOK, AliasWrite, alloc, runner, user, dispatcher
<1>4. CASE Commit(a)
  <2>1. spawn_pc' \in [Actors -> SpawnLabels]
    BY ZenonT(30), <1>4, SpawnMoves DEF Commit, SpawnLabels, BornLabels
  <2>2. /\ owner' \in [Slots -> Actors \cup {Nobody}]
        /\ lifecycle' \in [Actors -> {"unborn", "running", "killing", "stopped"}]
    BY ZenonT(30), <1>4 DEF TypeOK, Commit
  <2> QED
    BY ZenonT(30), <1>4, <2>1, <2>2 DEF TypeOK, Commit, alloc, user, dispatcher
<1> QED
  BY <1>1, <1>2, <1>3, <1>4 DEF Spawn

\* A user's steps
LEMMA UserTypes ==
  ASSUME TypeOK, NEW u \in Users,
         \/ Use(u)
         \/ \E a \in Actors : UseSpawned(u, a)
         \/ \E al \in DOMAIN alias_to_handle : TryGetActorRefByAlias(u, al),
         \A al \in DOMAIN alias_to_handle : alias_to_handle[al] \in AnyHandle
  PROVE  TypeOK'
<1>1. CASE CheckGeneration(u) \/ CloneOwner(u) \/ ApplyPost(u) \/ Enqueue(u)
  <2>1. UNCHANGED <<generation, owner, free, next_unused, lifecycle, handle, home, spawn_pc,
                    disp_pc, current>>
    BY ZenonT(30), <1>1 DEF CheckGeneration, CloneOwner, ApplyPost, Enqueue, alloc, runner,
                            dispatcher
  <2>2. \/ \E from : UserDone(u, from)
        \/ \E from, to : UserStep(u, from, to) /\ to \in UserLabels /\ UNCHANGED <<held, found>>
        \/ CloneOwner(u) /\ UserStep(u, "clone", "apply")
           /\ found' = [found EXCEPT ![u] = owner[held[u].index]] /\ UNCHANGED held
    BY ZenonT(30), <1>1 DEF CheckGeneration, CloneOwner, ApplyPost, Enqueue, UserLabels
  <2>3. /\ user_pc' \in [Users -> UserLabels] /\ held' \in [Users -> AnyHandle]
        /\ found' \in [Users -> Actors \cup {Nobody}]
    <3>1. CASE \E from : UserDone(u, from)
      BY ZenonT(30), <3>1, UserEnds
    <3>2. CASE \E from, to : UserStep(u, from, to) /\ to \in UserLabels /\ UNCHANGED <<held, found>>
      BY ZenonT(30), <3>2, UserMoves DEF TypeOK
    <3>3. CASE /\ UserStep(u, "clone", "apply") /\ UNCHANGED held
               /\ found' = [found EXCEPT ![u] = owner[held[u].index]]
      BY ZenonT(30), <3>3, UserMoves DEF TypeOK, AnyHandle, UserLabels
    <3> QED
      BY <2>2, <3>1, <3>2, <3>3
  <2> QED
    BY ZenonT(30), <2>1, <2>3 DEF TypeOK
<1>3. CASE ApplyKill(u)
  <2>1. lifecycle' \in [Actors -> {"unborn", "running", "killing", "stopped"}]
    BY ZenonT(30), <1>3, KillEffect DEF ApplyKill
  <2>2. /\ user_pc' \in [Users -> UserLabels] /\ held' \in [Users -> AnyHandle]
        /\ found' \in [Users -> Actors \cup {Nobody}]
    BY ZenonT(30), <1>3, UserEnds DEF ApplyKill
  <2> QED
    BY ZenonT(30), <1>3, <2>1, <2>2 DEF TypeOK, ApplyKill, alloc, dispatcher
<1>4. ASSUME NEW a \in Actors, UseSpawned(u, a) PROVE TypeOK'
  <2>1. /\ user_pc' \in [Users -> UserLabels]
        /\ held' \in [Users -> AnyHandle]
    BY ZenonT(30), <1>4, UserMoves DEF TypeOK, UseSpawned, UserLabels
  <2> QED
    BY ZenonT(30), <1>4, <2>1 DEF TypeOK, UseSpawned, alloc, runner, dispatcher
<1>5. ASSUME NEW al \in DOMAIN alias_to_handle, TryGetActorRefByAlias(u, al) PROVE TypeOK'
  <2>1. /\ user_pc' \in [Users -> UserLabels]
        /\ held' \in [Users -> AnyHandle]
    BY ZenonT(30), <1>5, UserMoves DEF TypeOK, TryGetActorRefByAlias, UserLabels
  <2> QED
    BY ZenonT(30), <1>5, <2>1 DEF TypeOK, TryGetActorRefByAlias, alloc, runner, dispatcher
<1> QED
  BY <1>1, <1>3, <1>4, <1>5 DEF Use

\* A dispatcher's steps
LEMMA DispatcherTypes ==
  ASSUME TypeOK, LifeInv, ExecuteInv, NEW d \in Dispatchers, FinalizeKill(d)
  PROVE  TypeOK'
<1> USE DEF AnyHandle
<1>1. CASE Finalize(d)
  <2>0. executing[d] \in Actors
    BY ZenonT(30), <1>1 DEF Finalize, RunDone, RunStep, ExecuteInv, AtHome
  <2>1. /\ lifecycle' \in [Actors -> {"unborn", "running", "killing", "stopped"}]
        /\ current' \in [Dispatchers -> Actors \cup {Nobody}]
    BY ZenonT(30), <1>1, <2>0 DEF TypeOK, Finalize
  <2>2. disp_pc' \in [Dispatchers -> {"idle", "remove", "take", "unalias", "dead"}]
    BY ZenonT(30), <1>1 DEF TypeOK, Finalize, DispStep
  <2> QED
    BY ZenonT(30), <1>1, <2>1, <2>2 DEF TypeOK, Finalize, alloc, user
<1>2. CASE RemoveGeneration(d)
  <2>0. handle[current[d]].index \in Slots
    BY SMTT(30), <1>2 DEF TypeOK, LifeInv, RemoveGeneration
  <2>1. \/ DispStep(d, "remove", "take") \/ DispStep(d, "remove", "dead")
        \/ DispStep(d, "remove", "idle")
    BY <1>2 DEF RemoveGeneration
  <2>2. disp_pc' \in [Dispatchers -> {"idle", "remove", "take", "unalias", "dead"}]
    BY ZenonT(30), <2>1 DEF TypeOK, DispStep
  <2>3. \A i \in Slots : NextGeneration(generation[i]) \in Nat
    BY NextGenerations DEF TypeOK
  <2>4. generation' \in [Slots -> Nat]
    BY ZenonT(30), <1>2, <2>0, <2>3 DEF TypeOK, RemoveGeneration
  <2> QED
    BY ZenonT(30), <1>2, <2>2, <2>4 DEF TypeOK, RemoveGeneration, runner, user
<1>3. CASE RemoveOwner(d)
  <2>0. handle[current[d]].index \in Slots
    BY SMTT(30), <1>3 DEF TypeOK, LifeInv, RemoveOwner
  <2>1. disp_pc' \in [Dispatchers -> {"idle", "remove", "take", "unalias", "dead"}]
    BY ZenonT(30), <1>3 DEF TypeOK, RemoveOwner, DispStep
  <2>2. owner' \in [Slots -> Actors \cup {Nobody}] /\ free' \in Seq(Slots)
    BY SMTT(30), <1>3, <2>0 DEF TypeOK, RemoveOwner
  <2> QED
    BY ZenonT(30), <1>3, <2>1, <2>2 DEF TypeOK, RemoveOwner, runner, user
<1>4. CASE RemoveAlias(d)
  <2>1. disp_pc' \in [Dispatchers -> {"idle", "remove", "take", "unalias", "dead"}]
    BY ZenonT(30), <1>4 DEF TypeOK, RemoveAlias, DispStep
  <2> QED
    BY ZenonT(30), <1>4, <2>1 DEF TypeOK, RemoveAlias, alloc, runner, user
<1> QED
  BY <1>1, <1>2, <1>3, <1>4 DEF FinalizeKill

\* The steps in which mail is executed
LEMMA RunTypes ==
  ASSUME TypeOK,
         (\E d \in Dispatchers : Run(d)) \/ (\E a \in Actors : Resume(a))
  PROVE  TypeOK'
<1>1. UNCHANGED <<generation, owner, free, next_unused, handle, home, spawn_pc, user, disp_pc,
                  current>>
  BY ZenonT(30) DEF Run, Execute, Receive, Unschedule, Peek, Resume, alloc, dispatcher
<1>2. lifecycle' \in [Actors -> {"unborn", "running", "killing", "stopped"}]
  <2>1. \/ lifecycle' = lifecycle
        \/ \E a : Kill(a)
        \/ \E a \in Actors : lifecycle' = Killed(a)
    BY ZenonT(30) DEF Run, Execute, Receive, Unschedule, Peek, Resume
  <2>2. CASE \E a \in Actors : lifecycle' = Killed(a)
    BY ZenonT(30), <2>2 DEF Killed, TypeOK
  <2> QED
    BY ZenonT(30), <2>1, <2>2, KillEffect DEF TypeOK
<1> QED
  BY ZenonT(30), <1>1, <1>2 DEF TypeOK, user

\* A closer's steps
LEMMA CloserTypes ==
  ASSUME TypeOK, NEW c \in Closers, BeginShutdown(c) \/ Close(c) \/ TimedOut(c)
  PROVE  TypeOK'
<1>1. CASE KillSnapshot(c)
  <2>1. lifecycle' \in [Actors -> {"unborn", "running", "killing", "stopped"}]
    BY ZenonT(30), <1>1, KillEffect DEF KillSnapshot, TypeOK
  <2> QED
    BY ZenonT(30), <1>1, <2>1 DEF TypeOK, KillSnapshot, alloc, user, dispatcher
<1>2. CASE BeginShutdown(c) \/ WaitLive(c) \/ TimedOut(c)
  BY ZenonT(30), <1>2 DEF TypeOK, BeginShutdown, WaitLive, TimedOut, alloc, runner, user,
                          dispatcher
<1>3. CASE SnapshotLive(c) \/ StopDispatchers(c)
  BY ZenonT(30), <1>3 DEF TypeOK, SnapshotLive, StopDispatchers, alloc, runner, user, dispatcher
<1> QED
  BY <1>1, <1>2, <1>3 DEF Close

-----------------------------------------------------------------------------
(* Slots *)

\* reserve gives slot i, which nobody holds, to spawn a.
TakesSlot(a, i) ==
  /\ spawn_pc[a] = "reserve" /\ spawn_pc'[a] = IF HasAlias(a) THEN "alias_write" ELSE "commit"
  /\ \A b \in Actors : b # a => spawn_pc'[b] = spawn_pc[b] /\ handle'[b] = handle[b]
  /\ handle'[a] = [index |-> i, generation |-> NextGeneration(generation[i])]
  /\ generation' = [generation EXCEPT ![i] = NextGeneration(@)]
  /\ live' = live + 1
  /\ \A b \in Holding : handle[b].index # i
  /\ UNCHANGED <<owner, lifecycle, home, aliases, user, disp_pc, current, closer, is_disposed,
                 stopped>>
  /\ \/ /\ Len(free) > 0 /\ i = free[Len(free)]
        /\ Len(free') = Len(free) - 1 /\ \A k \in 1 .. Len(free') : free'[k] = free[k]
        /\ next_unused' = next_unused
     \/ /\ i = next_unused /\ next_unused' = next_unused + 1
        /\ free' = free /\ Len(free) = 0

LEMMA ReserveTakes ==
  ASSUME TypeOK, SlotInv, NEW a \in Actors, Reserve(a)
  PROVE  \E i \in Slots : TakesSlot(a, i)
<1>1. ASSUME NEW i \in Slots, Reserved(a, i)
      PROVE  /\ spawn_pc[a] = "reserve"
             /\ spawn_pc'[a] = IF HasAlias(a) THEN "alias_write" ELSE "commit"
             /\ \A b \in Actors : b # a => spawn_pc'[b] = spawn_pc[b] /\ handle'[b] = handle[b]
             /\ handle'[a] = [index |-> i, generation |-> NextGeneration(generation[i])]
             /\ generation' = [generation EXCEPT ![i] = NextGeneration(@)]
             /\ live' = live + 1
             /\ UNCHANGED <<owner, lifecycle, home, aliases, user, disp_pc, current, closer,
                            is_disposed, stopped>>
  BY ZenonT(30), <1>1 DEF Reserved, SpawnStep, TypeOK, dispatcher
<1>2. CASE free # << >>
  <2>1. Len(free) \in 1 .. Len(free) /\ free[Len(free)] \in Slots
    BY SMTT(30), <1>2 DEF TypeOK
  <2>2. Len(free') = Len(free) - 1 /\ \A k \in 1 .. Len(free') : free'[k] = free[k]
    BY SMTT(30), <1>2, <2>1 DEF Reserve, TypeOK
  <2>3. \A b \in Holding : handle[b].index # free[Len(free)]
    BY <2>1 DEF SlotInv
  <2> QED
    BY SMTT(30), <1>1, <1>2, <2>1, <2>2, <2>3 DEF Reserve, TakesSlot
<1>3. CASE free = << >>
  <2>1. Len(free) = 0 /\ next_unused \in Slots
    BY SMTT(30), <1>3, Constants DEF Reserve, TypeOK, Slots
  <2>2. \A b \in Holding : handle[b].index # next_unused
    BY SMTT(30), <2>1, Constants DEF SlotInv
  <2> QED
    BY ZenonT(30), <1>1, <1>3, <2>1, <2>2 DEF Reserve, TakesSlot
<1> QED
  BY <1>2, <1>3

\* The actors that hold a slot are one more after reserve, ...
LEMMA ReserveHolds ==
  ASSUME TypeOK, NEW a \in Actors, NEW i \in Slots, TakesSlot(a, i)
  PROVE  a \notin Holding /\ Holding' = Holding \cup {a}
<1>1. \A b \in Actors : b # a => (b \in Holding' <=> b \in Holding)
  BY ZenonT(30) DEF TakesSlot, Holding, Born
<1>2. a \notin Holding /\ a \in Holding'
  BY ZenonT(30) DEF TakesSlot, Holding, Born
<1> QED
  BY <1>1, <1>2 DEF Holding

\* ... the same after commit, ...
LEMMA CommitHolds ==
  ASSUME TypeOK, SlotInv, NEW a \in Actors, Commit(a)
  PROVE  /\ a \in Holding /\ Holding' = Holding
         /\ spawn_pc[a] = "commit" /\ spawn_pc'[a] = "done"
         /\ \A b \in Actors : b # a => spawn_pc'[b] = spawn_pc[b]
         /\ owner' = [owner EXCEPT ![handle[a].index] = a]
         /\ lifecycle' = [lifecycle EXCEPT ![a] = "running"]
         /\ UNCHANGED <<generation, free, next_unused, live, handle, home, disp_pc, current>>
<1>1. /\ spawn_pc[a] = "commit" /\ spawn_pc'[a] = "done"
      /\ \A b \in Actors : b # a => spawn_pc'[b] = spawn_pc[b]
      /\ owner' = [owner EXCEPT ![handle[a].index] = a]
      /\ lifecycle' = [lifecycle EXCEPT ![a] = "running"]
      /\ UNCHANGED <<generation, free, next_unused, live, handle, home, disp_pc, current>>
  BY ZenonT(30) DEF Commit, SpawnStep, TypeOK, alloc, dispatcher
<1>2. a \in Holding /\ handle[a].index \in Slots
  BY ZenonT(30), <1>1 DEF Holding, Born, TypeOK, AnyHandle
<1>3. a \in Holding'
  BY ZenonT(30), <1>1, <1>2 DEF Holding, Born, TypeOK
<1>4. ASSUME NEW b \in Actors, b # a PROVE b \in Holding' <=> b \in Holding
  <2>1. b \in Holding => handle[b].index # handle[a].index
    BY <1>2, <1>4 DEF SlotInv
  <2>2. handle[b].index \in Slots
    BY ZenonT(30) DEF TypeOK, AnyHandle
  <2> QED
    BY ZenonT(30), <1>1, <1>2, <1>4, <2>1, <2>2 DEF Holding, Born, TypeOK
<1> QED
  BY <1>1, <1>2, <1>3, <1>4 DEF Holding

\* ... and one less when a dispatcher has taken the owner out of its slot.
LEMMA RemoveHolds ==
  ASSUME TypeOK, SlotInv, LifeInv, NEW d \in Dispatchers, RemoveOwner(d)
  PROVE  LET a == current[d]
             i == handle[a].index IN
         /\ a \in Holding /\ Holding' = Holding \ {a}
         /\ i \in Slots /\ owner[i] = a
         /\ owner' = [owner EXCEPT ![i] = Nobody]
         /\ free' = Append(free, i) /\ live' = live - 1
         /\ disp_pc[d] = "take" /\ disp_pc'[d] = IF HasAlias(a) THEN "unalias" ELSE "idle"
         /\ \A e \in Dispatchers : e # d => disp_pc'[e] = disp_pc[e]
         /\ UNCHANGED <<generation, next_unused, spawn_pc, lifecycle, handle, home, current>>
<1> DEFINE a == current[d]
           i == handle[a].index
<1>1. a \in Actors /\ i \in Slots /\ owner[i] = a /\ spawn_pc[a] = "done"
  BY SMTT(30) DEF RemoveOwner, LifeInv, TypeOK, AnyHandle
<1>2. owner[i] # Nobody
  BY <1>1, Constants
<1>3. /\ owner' = [owner EXCEPT ![i] = Nobody]
      /\ free' = Append(free, i) /\ live' = live - 1
      /\ disp_pc[d] = "take" /\ disp_pc'[d] = IF HasAlias(a) THEN "unalias" ELSE "idle"
      /\ \A e \in Dispatchers : e # d => disp_pc'[e] = disp_pc[e]
      /\ UNCHANGED <<generation, next_unused, spawn_pc, lifecycle, handle, home, current>>
  BY ZenonT(30), <1>2 DEF RemoveOwner, DispStep, TypeOK, runner
<1>4. a \in Holding /\ a \notin Holding'
  BY ZenonT(30), <1>1, <1>2, <1>3 DEF Holding, Born, TypeOK
<1>5. ASSUME NEW b \in Actors, b # a PROVE b \in Holding' <=> b \in Holding
  <2>1. handle[b].index \in Slots
    BY ZenonT(30) DEF TypeOK, AnyHandle
  <2>2. CASE handle[b].index = i
    <3>1. b \notin Holding
      BY <1>4, <1>5, <2>2 DEF SlotInv
    <3>2. owner'[handle'[b].index] # b
      BY <1>1, <1>3, <2>2, Constants DEF TypeOK
    <3> QED
      BY ZenonT(30), <1>3, <3>1, <3>2 DEF Holding, Born
  <2>3. CASE handle[b].index # i
    BY ZenonT(30), <1>1, <1>3, <2>1, <2>3 DEF Holding, Born, TypeOK
  <2> QED
    BY <2>2, <2>3
<1> QED
  BY ZenonT(30), <1>1, <1>3, <1>4, <1>5 DEF Holding

\* Every other step leaves the slots and who holds them alone.
SlotsSame ==
  /\ UNCHANGED <<owner, free, next_unused, live, handle, home>> /\ Holding' = Holding
  /\ \A a \in Actors : /\ spawn_pc'[a] = "done" <=> spawn_pc[a] = "done"
                       /\ Born(a)' <=> Born(a)

LEMMA OthersHold ==
  ASSUME TypeOK,
         \/ Calm
         \/ \E a \in Actors : AliasWrite(a)
         \/ \E d \in Dispatchers : Finalize(d) \/ RemoveGeneration(d) \/ RemoveAlias(d)
  PROVE  SlotsSame
<1>1. ASSUME UNCHANGED <<owner, handle>>,
             \A a \in Actors : \/ spawn_pc'[a] = spawn_pc[a]
                               \/ spawn_pc[a] \notin BornLabels /\ spawn_pc'[a] \notin BornLabels
                               \/ /\ spawn_pc[a] \in BornLabels \ {"done"}
                                  /\ spawn_pc'[a] \in BornLabels \ {"done"}
      PROVE  /\ Holding' = Holding
             /\ \A a \in Actors : /\ spawn_pc'[a] = "done" <=> spawn_pc[a] = "done"
                                  /\ Born(a)' <=> Born(a)
  BY ZenonT(30), <1>1 DEF Holding, Born, BornLabels
<1>2. CASE Calm
  BY ZenonT(30), <1>1, <1>2 DEF Calm, NoneBorn, SlotsSame
<1>3. ASSUME NEW a \in Actors, AliasWrite(a) PROVE SlotsSame
  <2>1. /\ spawn_pc[a] = "alias_write" /\ spawn_pc'[a] \in {"commit", "leaked"}
        /\ \A b \in Actors : b # a => spawn_pc'[b] = spawn_pc[b]
    BY <1>3, SpawnMoves DEF AliasWrite
  <2>2. UNCHANGED <<owner, free, next_unused, live, handle, home>>
    BY ZenonT(30), <1>3 DEF AliasWrite, alloc, runner
  <2> QED
    BY ZenonT(30), <1>1, <2>1, <2>2 DEF SlotsSame, BornLabels
<1>4. ASSUME NEW d \in Dispatchers,
             Finalize(d) \/ RemoveGeneration(d) \/ RemoveAlias(d)
      PROVE  SlotsSame
  <2>1. UNCHANGED <<owner, free, next_unused, live, handle, home, spawn_pc>>
    BY ZenonT(30), <1>4 DEF Finalize, RemoveGeneration, RemoveAlias, alloc, runner
  <2> QED
    BY <1>1, <2>1 DEF SlotsSame
<1> QED
  BY <1>2, <1>3, <1>4

\* The seven kinds of steps again, with what they do to the slots
LEMMA SlotCases ==
  ASSUME TypeOK, SlotInv, LifeInv, [Next]_vars
  PROVE  \/ SlotsSame
         \/ \E a \in Actors : Commit(a) \/ \E i \in Slots : TakesSlot(a, i)
         \/ \E d \in Dispatchers : RemoveOwner(d)
BY Cases, OthersHold, ReserveTakes

\* Slots are handed out, owned and given back one by one.
LEMMA SlotStep ==
  ASSUME TypeOK, SlotInv, LifeInv, [Next]_vars
  PROVE  SlotInv'
<1> USE Constants
<1>0. /\ Len(free) \in Nat /\ next_unused \in Nat
      /\ \A a \in Actors : handle[a].index \in Slots
      /\ \A k \in 1 .. Len(free) : free[k] \in Slots
  BY SMTT(30) DEF TypeOK, AnyHandle
<1>1. CASE SlotsSame
  <2>1. \A i \in Slots : owner[i] # Nobody => owner[i] \in Actors
    BY DEF TypeOK
  <2> QED
    BY ZenonT(30), <1>1, <2>1 DEF SlotInv, SlotsSame
<1>2. ASSUME NEW a \in Actors, Commit(a) PROVE SlotInv'
  <2>1. \A i \in Slots : owner'[i] # Nobody =>
          spawn_pc'[owner'[i]] = "done" /\ handle[owner'[i]].index = i
    <3> SUFFICES ASSUME NEW i \in Slots, owner'[i] # Nobody
                 PROVE  spawn_pc'[owner'[i]] = "done" /\ handle[owner'[i]].index = i
      OBVIOUS
    <3>1. CASE i = handle[a].index
      BY <1>2, <3>1, CommitHolds DEF TypeOK
    <3>2. CASE i # handle[a].index
      <4>1. owner'[i] = owner[i] /\ owner[i] \in Actors
        BY SMTT(30), <1>2, <3>2, CommitHolds DEF TypeOK
      <4> QED
        BY SMTT(30), <1>2, <4>1, CommitHolds DEF SlotInv
    <3> QED
      BY <3>1, <3>2
  <2> QED
    BY SMTT(30), <1>2, <2>1, CommitHolds DEF SlotInv
<1>3. ASSUME NEW a \in Actors, NEW i \in Slots, TakesSlot(a, i) PROVE SlotInv'
  <2>1. a \notin Holding /\ Holding' = Holding \cup {a} /\ Holding \subseteq Actors
    BY <1>3, ReserveHolds DEF Holding
  <2>2. handle'[a].index = i /\ \A b \in Holding : handle'[b] = handle[b] /\ handle[b].index # i
    BY SMTT(30), <1>3, <2>1 DEF TakesSlot
  <2>3. /\ \A b, c \in Holding' : handle'[b].index = handle'[c].index => b = c
    BY SMTT(30), <2>1, <2>2 DEF SlotInv
  <2>4. \A j \in Slots : owner'[j] # Nobody =>
          spawn_pc'[owner'[j]] = "done" /\ handle'[owner'[j]].index = j
    <3> SUFFICES ASSUME NEW j \in Slots, owner[j] # Nobody
                 PROVE  spawn_pc'[owner[j]] = "done" /\ handle'[owner[j]].index = j
      BY ZenonT(30), <1>3 DEF TakesSlot
    <3>1. owner[j] \in Actors /\ spawn_pc[owner[j]] = "done" /\ handle[owner[j]].index = j
      BY SMTT(30) DEF SlotInv, TypeOK
    <3>2. owner[j] # a
      BY ZenonT(30), <1>3, <3>1 DEF TakesSlot
    <3> QED
      BY <1>3, <3>1, <3>2 DEF TakesSlot
  <2>5. CASE /\ Len(free) > 0 /\ i = free[Len(free)]
             /\ Len(free') = Len(free) - 1 /\ \A k \in 1 .. Len(free') : free'[k] = free[k]
             /\ next_unused' = next_unused
    <3>1. /\ Len(free) \in 1 .. Len(free)
          /\ \A k \in 1 .. Len(free') : k \in 1 .. Len(free) /\ k # Len(free)
          /\ \A k \in 1 .. Len(free) : k \in 1 .. Len(free') \/ k = Len(free)
      BY <1>0, <2>5
    <3>2. \A b \in Holding' : handle'[b].index < next_unused'
      BY <2>1, <2>2, <2>5, <3>1 DEF SlotInv
    <3>3. \A k \in 1 .. Len(free') :
            free'[k] < next_unused' /\ \A b \in Holding' : handle'[b].index # free'[k]
      BY SMTT(30), <2>1, <2>2, <2>5, <3>1 DEF SlotInv
    <3>4. \A k, l \in 1 .. Len(free') : free'[k] = free'[l] => k = l
      BY SMTT(30), <2>5, <3>1 DEF SlotInv
    <3>5. \A j \in Slots : j < next_unused' =>
            \/ \E k \in 1 .. Len(free') : free'[k] = j
            \/ \E b \in Holding' : handle'[b].index = j
      <4> SUFFICES ASSUME NEW j \in Slots, j < next_unused
                   PROVE  \/ \E k \in 1 .. Len(free') : free'[k] = j
                          \/ \E b \in Holding' : handle'[b].index = j
        BY ZenonT(30), <2>5
      <4>1. CASE \E k \in 1 .. Len(free) : free[k] = j
        BY ZenonT(30), <2>1, <2>2, <2>5, <3>1, <4>1
      <4>2. CASE \E b \in Holding : handle[b].index = j
        BY <2>1, <2>2, <4>2
      <4> QED
        BY <4>1, <4>2 DEF SlotInv
    <3> QED
      BY ZenonT(30), <2>3, <2>4, <3>2, <3>3, <3>4, <3>5 DEF SlotInv
  <2>6. CASE /\ i = next_unused /\ next_unused' = next_unused + 1
             /\ free' = free /\ Len(free) = 0
    <3>1. 1 .. Len(free') = {}
      BY <2>6
    <3>2. \A b \in Holding' : handle'[b].index < next_unused'
      <4>1. \A b \in Holding : handle[b].index < next_unused /\ handle[b].index \in Nat
        BY ZenonT(30), <1>0, <2>1 DEF SlotInv
      <4> QED
        BY <1>0, <2>1, <2>2, <2>6, <4>1
    <3>3. \A j \in Slots : j < next_unused' => \E b \in Holding' : handle'[b].index = j
      BY SMTT(30), <1>0, <2>1, <2>2, <2>6, <3>1 DEF SlotInv
    <3> QED
      BY <2>3, <2>4, <3>1, <3>2, <3>3 DEF SlotInv
  <2> QED
    BY <1>3, <2>5, <2>6 DEF TakesSlot
<1>4. ASSUME NEW d \in Dispatchers, RemoveOwner(d) PROVE SlotInv'
  <2> DEFINE a == current[d]
             i == handle[a].index
  <2>1. /\ a \in Holding /\ Holding' = Holding \ {a} /\ i \in Slots /\ owner[i] = a
        /\ owner' = [owner EXCEPT ![i] = Nobody] /\ free' = Append(free, i)
        /\ UNCHANGED <<next_unused, spawn_pc, handle>>
    BY <1>4, RemoveHolds
  <2> HIDE DEF a, i
  <2>2. /\ Len(free') = Len(free) + 1 /\ free'[Len(free) + 1] = i
        /\ \A k \in 1 .. Len(free) : free'[k] = free[k]
    BY SMTT(30), <2>1 DEF TypeOK
  <2>3. \A k \in 1 .. Len(free') : k \in 1 .. Len(free) \/ k = Len(free) + 1
    BY <1>0, <2>2
  <2>4. i < next_unused /\ \A b \in Holding' : handle[b].index # i
    BY ZenonT(30), <2>1 DEF SlotInv, i
  <2>5. \A k \in 1 .. Len(free) : free[k] # i
    BY ZenonT(30), <2>1 DEF SlotInv, i
  <2>6. \A k \in 1 .. Len(free') :
          free'[k] < next_unused' /\ \A b \in Holding' : handle'[b].index # free'[k]
    <3> TAKE k \in 1 .. Len(free')
    <3>1. CASE k \in 1 .. Len(free)
      <4>1. free[k] < next_unused /\ \A b \in Holding : handle[b].index # free[k]
        BY <3>1 DEF SlotInv
      <4> QED
        BY ZenonT(30), <2>1, <2>2, <3>1, <4>1
    <3>2. CASE k = Len(free) + 1
      BY ZenonT(30), <2>1, <2>2, <2>4, <3>2
    <3> QED
      BY ZenonT(30), <2>3, <3>1, <3>2
  <2>7. \A k, l \in 1 .. Len(free') : free'[k] = free'[l] => k = l
    BY SMTT(30), <2>2, <2>3, <2>5 DEF SlotInv
  <2>8. \A j \in Slots : j < next_unused' =>
          \/ \E k \in 1 .. Len(free') : free'[k] = j
          \/ \E b \in Holding' : handle'[b].index = j
    <3> SUFFICES ASSUME NEW j \in Slots, j < next_unused
                 PROVE  \/ \E k \in 1 .. Len(free') : free'[k] = j
                        \/ \E b \in Holding' : handle'[b].index = j
      BY ZenonT(30), <2>1
    <3>1. CASE \E k \in 1 .. Len(free) : free[k] = j
      BY <1>0, <2>2, <3>1
    <3>2. ASSUME NEW b \in Holding, handle[b].index = j, b # a
          PROVE  \E c \in Holding' : handle'[c].index = j
      BY <2>1, <3>2
    <3>3. CASE j = i
      BY <1>0, <2>2, <3>3
    <3> QED
      BY ZenonT(30), <3>1, <3>2, <3>3 DEF SlotInv, i
  <2>9. \A j \in Slots : owner'[j] # Nobody =>
          spawn_pc'[owner'[j]] = "done" /\ handle'[owner'[j]].index = j
    BY SMTT(30), <2>1 DEF SlotInv, TypeOK
  <2> QED
    BY SMTT(30), <2>1, <2>6, <2>7, <2>8, <2>9 DEF SlotInv
<1> QED
  BY <1>1, <1>2, <1>3, <1>4, SlotCases

-----------------------------------------------------------------------------
(* Lives *)

\* Steps that move no slot, stop no actor and start no removal
LEMMA LifeKept ==
  ASSUME LifeInv, SlotsSame, KillOnly, UNCHANGED current,
         \A d \in Dispatchers : current[d] # Nobody => current[d] \in Actors,
         \A d \in Dispatchers :
           /\ disp_pc'[d] # "idle" => disp_pc[d] # "idle"
           /\ disp_pc'[d] \in {"remove", "take"} => disp_pc[d] \in {"remove", "take"}
  PROVE  LifeInv'
<1>1. UNCHANGED <<owner, handle, home>>
  BY DEF SlotsSame
<1>2. \A a \in Actors : lifecycle'[a] = "unborn" <=> spawn_pc'[a] # "done"
  <2> TAKE a \in Actors
  <2>1. lifecycle'[a] = "unborn" <=> lifecycle[a] = "unborn"
    BY DEF KillOnly
  <2>2. /\ lifecycle[a] = "unborn" <=> spawn_pc[a] # "done"
        /\ spawn_pc'[a] = "done" <=> spawn_pc[a] = "done"
    BY ZenonT(30) DEF LifeInv, SlotsSame
  <2> QED
    BY <2>1, <2>2
<1>3. \A a \in Actors : lifecycle[a] = "stopped" => lifecycle'[a] = "stopped"
  BY DEF KillOnly
<1>4. \A a \in Actors :
        spawn_pc'[a] = "done" /\ owner'[handle'[a].index] # a => lifecycle'[a] = "stopped"
  <2> TAKE a \in Actors
  <2>1. spawn_pc[a] = "done" /\ owner[handle[a].index] # a => lifecycle[a] = "stopped"
    BY ZenonT(30) DEF LifeInv
  <2>2. spawn_pc'[a] = "done" => spawn_pc[a] = "done"
    BY ZenonT(30) DEF SlotsSame
  <2> QED
    BY ZenonT(30), <1>1, <1>3, <2>1, <2>2
<1>5. \A d \in Dispatchers : current'[d] # Nobody =>
        home'[current'[d]] = d /\ lifecycle'[current'[d]] = "stopped"
  BY ZenonT(30), <1>1, <1>3 DEF LifeInv
<1>6. \A d \in Dispatchers : disp_pc'[d] # "idle" => current'[d] # Nobody
  BY ZenonT(30) DEF LifeInv
<1>7. \A d \in Dispatchers : disp_pc'[d] \in {"remove", "take"} =>
        owner'[handle'[current'[d]].index] = current'[d]
  BY ZenonT(30), <1>1 DEF LifeInv
<1> QED
  BY ZenonT(30), <1>2, <1>4, <1>5, <1>6, <1>7 DEF LifeInv

\* An actor's slot is emptied by its dispatcher after the actor was stopped.
LEMMA LifeStep ==
  ASSUME TypeOK, SlotInv, LifeInv, ExecuteInv, [Next]_vars
  PROVE  LifeInv'
<1> USE Constants
<1>0. /\ \A a \in Actors : handle[a].index \in Slots
      /\ \A d \in Dispatchers : current[d] # Nobody => current[d] \in Actors
  BY ZenonT(30) DEF TypeOK, AnyHandle
<1>1. CASE Calm
  <2>1. SlotsSame /\ UNCHANGED <<disp_pc, current>> /\ KillOnly
    BY <1>1, OthersHold DEF Calm
  <2> QED
    BY ZenonT(30), <1>0, <2>1, LifeKept
<1>2. ASSUME NEW a \in Actors, AliasWrite(a) PROVE LifeInv'
  <2>1. SlotsSame /\ UNCHANGED <<disp_pc, current, lifecycle>>
    BY ZenonT(30), <1>2, OthersHold DEF AliasWrite, runner, dispatcher
  <2> QED
    BY ZenonT(30), <1>0, <2>1, LifeKept DEF KillOnly
<1>3. ASSUME NEW a \in Actors, NEW i \in Slots, TakesSlot(a, i) PROVE LifeInv'
  <2>1. lifecycle[a] = "unborn" /\ \A d \in Dispatchers : current[d] # a
    BY ZenonT(30), <1>0, <1>3 DEF LifeInv, TakesSlot
  <2> QED
    BY SMTT(30), <1>0, <1>3, <2>1 DEF LifeInv, TakesSlot
<1>4. ASSUME NEW a \in Actors, Commit(a) PROVE LifeInv'
  <2>1. lifecycle[a] = "unborn" /\ \A d \in Dispatchers : current[d] # a
    BY ZenonT(30), <1>0, <1>4, CommitHolds DEF LifeInv
  <2>2. /\ lifecycle'[a] = "running" /\ \A b \in Actors : b # a => lifecycle'[b] = lifecycle[b]
        /\ owner'[handle[a].index] = a
        /\ \A i \in Slots : i # handle[a].index => owner'[i] = owner[i]
    <3>1. /\ owner' = [owner EXCEPT ![handle[a].index] = a]
          /\ lifecycle' = [lifecycle EXCEPT ![a] = "running"]
      BY ZenonT(30), <1>4, CommitHolds
    <3>2. DOMAIN owner = Slots /\ DOMAIN lifecycle = Actors /\ handle[a].index \in Slots
      BY <1>0 DEF TypeOK
    <3> QED
      BY ZenonT(30), <3>1, <3>2
  <2>3. \A b \in Actors : b # a /\ owner[handle[b].index] = b => handle[b].index # handle[a].index
    <3>1. \A b \in Actors : owner[handle[b].index] = b => b \in Holding
      <4>1. \A b \in Actors : owner[handle[b].index] = b => spawn_pc[b] = "done"
        <5> TAKE b \in Actors
        <5> HAVE owner[handle[b].index] = b
        <5>1. handle[b].index \in Slots /\ owner[handle[b].index] # Nobody
          BY <1>0
        <5>2. spawn_pc[owner[handle[b].index]] = "done"
          BY ZenonT(30), <5>1 DEF SlotInv
        <5> QED
          BY <5>2
      <4> QED
        BY ZenonT(30), <4>1 DEF Holding, Born
    <3> QED
      BY <1>4, <3>1, CommitHolds DEF SlotInv
  <2>4. /\ UNCHANGED <<handle, home, disp_pc, current>> /\ spawn_pc'[a] = "done"
        /\ \A b \in Actors : b # a => spawn_pc'[b] = spawn_pc[b]
    BY <1>4, CommitHolds
  <2>5. \A b \in Actors : lifecycle'[b] = "unborn" <=> spawn_pc'[b] # "done"
    <3> TAKE b \in Actors
    <3>1. lifecycle[b] = "unborn" <=> spawn_pc[b] # "done"
      BY ZenonT(30) DEF LifeInv
    <3> QED
      BY <2>2, <2>4, <3>1
  <2>6. \A b \in Actors :
          spawn_pc'[b] = "done" /\ owner'[handle'[b].index] # b => lifecycle'[b] = "stopped"
    <3> TAKE b \in Actors
    <3> HAVE spawn_pc'[b] = "done" /\ owner'[handle'[b].index] # b
    <3>1. b # a /\ handle'[b] = handle[b] /\ spawn_pc[b] = "done" /\ handle[b].index \in Slots
      BY ZenonT(30), <1>0, <2>2, <2>4
    <3>2. owner[handle[b].index] # b
      BY ZenonT(30), <2>2, <2>3, <3>1
    <3>3. lifecycle[b] = "stopped"
      BY ZenonT(30), <3>1, <3>2 DEF LifeInv
    <3> QED
      BY ZenonT(30), <2>2, <3>1, <3>3
  <2>7. \A d \in Dispatchers : current'[d] # Nobody =>
          home'[current'[d]] = d /\ lifecycle'[current'[d]] = "stopped"
    <3> TAKE d \in Dispatchers
    <3> HAVE current'[d] # Nobody
    <3>1. current'[d] = current[d] /\ current[d] \in Actors /\ current[d] # a /\ home' = home
      BY <1>0, <2>1, <2>4
    <3>2. home[current[d]] = d /\ lifecycle[current[d]] = "stopped"
      BY ZenonT(30), <3>1 DEF LifeInv
    <3> QED
      BY <2>2, <3>1, <3>2
  <2>8. ASSUME NEW d \in Dispatchers, disp_pc'[d] \in {"remove", "take"}
        PROVE  owner'[handle'[current'[d]].index] = current'[d]
    <3>1. /\ owner[handle[current[d]].index] = current[d] /\ current[d] \in Actors
          /\ current[d] # a
      BY ZenonT(30), <1>0, <2>1, <2>4, <2>8 DEF LifeInv
    <3>2. handle[current[d]].index \in Slots /\ handle[current[d]].index # handle[a].index
      BY ZenonT(30), <1>0, <2>3, <3>1
    <3> QED
      BY ZenonT(30), <2>2, <2>4, <3>1, <3>2
  <2> QED
    BY ZenonT(30), <2>4, <2>5, <2>6, <2>7, <2>8 DEF LifeInv
<1>5. ASSUME NEW d \in Dispatchers, Finalize(d) PROVE LifeInv'
  <2> DEFINE a == executing[d]
  <2>0. a \in Actors /\ home[a] = d
    BY ZenonT(30), <1>5 DEF Finalize, RunDone, RunStep, ExecuteInv, AtHome
  <2>1. SlotsSame
    BY <1>5, OthersHold
  <2>2. /\ lifecycle[a] = "killing" /\ home[a] = d
        /\ lifecycle'[a] = "stopped" /\ \A b \in Actors : b # a => lifecycle'[b] = lifecycle[b]
        /\ current'[d] = a /\ disp_pc'[d] \in {"remove", "dead"}
        /\ \A e \in Dispatchers : e # d => disp_pc'[e] = disp_pc[e] /\ current'[e] = current[e]
    BY ZenonT(30), <1>5, <2>0 DEF Finalize, DispStep, TypeOK
  <2> HIDE DEF a
  <2>3. spawn_pc[a] = "done" /\ owner[handle[a].index] = a
    BY ZenonT(30), <2>0, <2>2 DEF LifeInv
  <2> QED
    BY SMTT(30), <1>0, <2>0, <2>1, <2>2, <2>3 DEF LifeInv, SlotsSame
<1>6. ASSUME NEW d \in Dispatchers, RemoveGeneration(d) \/ RemoveAlias(d) PROVE LifeInv'
  <2>1. SlotsSame /\ UNCHANGED <<current, lifecycle>>
    BY ZenonT(30), <1>6, OthersHold DEF RemoveGeneration, RemoveAlias, runner
  <2>2. /\ \A e \in Dispatchers : e # d => disp_pc'[e] = disp_pc[e]
        /\ disp_pc[d] # "idle"
        /\ disp_pc'[d] = "take" => disp_pc[d] = "remove"
        /\ disp_pc'[d] # "remove"
    BY ZenonT(30), <1>6 DEF RemoveGeneration, RemoveAlias, DispStep, TypeOK
  <2> QED
    <3>1. \A e \in Dispatchers :
            /\ disp_pc'[e] # "idle" => disp_pc[e] # "idle"
            /\ disp_pc'[e] \in {"remove", "take"} => disp_pc[e] \in {"remove", "take"}
      BY ZenonT(30), <2>2
    <3> QED
      BY ZenonT(30), <1>0, <2>1, <3>1, LifeKept DEF KillOnly
<1>7. ASSUME NEW d \in Dispatchers, RemoveOwner(d) PROVE LifeInv'
  <2> DEFINE a == current[d]
             i == handle[a].index
  <2>1. /\ i \in Slots /\ owner[i] = a /\ a \in Actors
        /\ owner'[i] = Nobody /\ \A j \in Slots : j # i => owner'[j] = owner[j]
        /\ disp_pc'[d] \in {"unalias", "idle"} /\ disp_pc[d] = "take"
        /\ \A e \in Dispatchers : e # d => disp_pc'[e] = disp_pc[e]
        /\ UNCHANGED <<spawn_pc, lifecycle, handle, home, current>>
    BY SMTT(30), <1>7, RemoveHolds DEF TypeOK, Holding
  <2> HIDE DEF i
  <2>2. lifecycle[a] = "stopped"
    BY ZenonT(30), <1>0, <2>1 DEF LifeInv
  <2>3. \A e \in Dispatchers : e # d /\ disp_pc[e] \in {"remove", "take"} =>
          current[e] \in Actors /\ current[e] # a /\ handle[current[e]].index # i
    <3> TAKE e \in Dispatchers
    <3> HAVE e # d /\ disp_pc[e] \in {"remove", "take"}
    <3>1. current[e] # Nobody /\ owner[handle[current[e]].index] = current[e]
      BY ZenonT(30) DEF LifeInv
    <3>2. current[e] \in Actors /\ home[current[e]] = e
      BY ZenonT(30), <1>0, <3>1 DEF LifeInv
    <3>3. home[a] = d
      BY ZenonT(30), <1>0, <2>1 DEF LifeInv
    <3> QED
      BY ZenonT(30), <2>1, <3>1, <3>2, <3>3
  <2>4. \A b \in Actors : b # a /\ owner[handle[b].index] = b => handle[b].index # i
    BY <2>1
  <2>5. \A b \in Actors :
          spawn_pc'[b] = "done" /\ owner'[handle'[b].index] # b => lifecycle'[b] = "stopped"
    <3> SUFFICES ASSUME NEW b \in Actors, spawn_pc[b] = "done", owner'[handle[b].index] # b
                 PROVE  lifecycle[b] = "stopped"
      BY <2>1
    <3>1. CASE b = a
      BY <2>2, <3>1
    <3>2. CASE b # a
      BY ZenonT(30), <1>0, <2>1, <2>4, <3>2 DEF LifeInv
    <3> QED
      BY <3>1, <3>2
  <2>6. \A e \in Dispatchers : disp_pc'[e] \in {"remove", "take"} =>
          owner'[handle'[current'[e]].index] = current'[e]
    <3> SUFFICES ASSUME NEW e \in Dispatchers, disp_pc'[e] \in {"remove", "take"}
                 PROVE  owner'[handle[current[e]].index] = current[e]
      BY <2>1
    <3>1. e # d /\ disp_pc[e] \in {"remove", "take"}
      BY <2>1
    <3>2. owner[handle[current[e]].index] = current[e]
      BY <3>1 DEF LifeInv
    <3> QED
      BY ZenonT(30), <1>0, <2>1, <2>3, <3>1, <3>2
  <2>7. \A b \in Actors : lifecycle'[b] = "unborn" <=> spawn_pc'[b] # "done"
    BY ZenonT(30), <2>1 DEF LifeInv
  <2>8. \A e \in Dispatchers : current'[e] # Nobody =>
          home'[current'[e]] = e /\ lifecycle'[current'[e]] = "stopped"
    BY ZenonT(30), <2>1 DEF LifeInv
  <2>9. \A e \in Dispatchers : disp_pc'[e] # "idle" => current'[e] # Nobody
    <3>1. \A e \in Dispatchers : disp_pc'[e] # "idle" => disp_pc[e] # "idle"
      BY <2>1
    <3> QED
      BY ZenonT(30), <2>1, <3>1 DEF LifeInv
  <2> QED
    BY ZenonT(30), <2>5, <2>6, <2>7, <2>8, <2>9 DEF LifeInv
<1> QED
  BY <1>1, <1>2, <1>3, <1>4, <1>5, <1>6, <1>7, Cases, ReserveTakes

-----------------------------------------------------------------------------
(* Users *)

\* A handle that was made stays the handle of its actor.
LEMMA HandlesKept ==
  ASSUME TypeOK, SlotInv, LifeInv, [Next]_vars, NEW a \in Actors, Born(a)
  PROVE  Born(a)' /\ handle'[a] = handle[a]
<1>1. CASE SlotsSame
  BY <1>1 DEF SlotsSame
<1>2. ASSUME NEW b \in Actors, Commit(b) PROVE Born(a)' /\ handle'[a] = handle[a]
  BY ZenonT(30), <1>2, CommitHolds DEF Commit, Born
<1>3. ASSUME NEW b \in Actors, NEW i \in Slots, TakesSlot(b, i)
      PROVE  Born(a)' /\ handle'[a] = handle[a]
  BY ZenonT(30), <1>3 DEF TakesSlot, Born
<1>4. ASSUME NEW d \in Dispatchers, RemoveOwner(d) PROVE Born(a)' /\ handle'[a] = handle[a]
  BY ZenonT(30), <1>4 DEF RemoveOwner, runner, Born
<1> QED
  BY ZenonT(30), <1>1, <1>2, <1>3, <1>4, SlotCases

\* Users alone change what users do.
LEMMA UserFrame ==
  ASSUME [Next]_vars
  PROVE  \/ UNCHANGED user
         \/ \E u \in Users : \/ Use(u)
                             \/ \E a \in Actors : UseSpawned(u, a)
                             \/ \E al \in DOMAIN alias_to_handle : TryGetActorRefByAlias(u, al)
<1>1. ASSUME NEW a \in Actors, ThrowIfDisposed(a) \/ Spawn(a) PROVE UNCHANGED user
  BY ZenonT(30), <1>1 DEF Spawn, ThrowIfDisposed, AliasRead, Reserve, Reserved, ReservePanics,
                          AliasWrite, Commit
<1>2. ASSUME NEW d \in Dispatchers, FinalizeKill(d) PROVE UNCHANGED user
  BY ZenonT(30), <1>2 DEF FinalizeKill, Finalize, RemoveGeneration, RemoveOwner, RemoveAlias
<1>5. ASSUME (\E d \in Dispatchers : Run(d)) \/ (\E a \in Actors : Resume(a))
      PROVE  UNCHANGED user
  BY ZenonT(30), <1>5 DEF Run, Execute, Receive, Unschedule, Peek, Resume
<1>3. ASSUME NEW c \in Closers, BeginShutdown(c) \/ Close(c) \/ TimedOut(c) PROVE UNCHANGED user
  BY ZenonT(30), <1>3 DEF BeginShutdown, Close, SnapshotLive, KillSnapshot, WaitLive,
                          StopDispatchers, TimedOut
<1>4. CASE UNCHANGED vars
  BY <1>4 DEF vars
<1> QED
  BY <1>1, <1>2, <1>3, <1>4, <1>5 DEF Next, Dispatch

\* Names lead to handles that were made.
LEMMA NamedStep ==
  ASSUME TypeOK, SlotInv, LifeInv, UserInv, [Next]_vars,
         NEW al \in DOMAIN alias_to_handle'
  PROVE  \E b \in Actors : Born(b)' /\ alias_to_handle'[al] = handle'[b]
<1>1. SUFFICES \/ al \in DOMAIN alias_to_handle /\ alias_to_handle'[al] = alias_to_handle[al]
               \/ \E b \in Actors : Born(b) /\ alias_to_handle'[al] = handle[b]
  BY ZenonT(30), <1>1, HandlesKept DEF UserInv
<1>2. CASE Calm
  BY <1>2 DEF Calm
<1>3. ASSUME NEW a \in Actors, AliasWrite(a)
      PROVE  \/ al \in DOMAIN alias_to_handle /\ alias_to_handle'[al] = alias_to_handle[al]
             \/ \E b \in Actors : Born(b) /\ alias_to_handle'[al] = handle[b]
  <2>1. Born(a)
    BY ZenonT(30), <1>3 DEF AliasWrite, SpawnStep, Born
  <2> QED
    BY <1>3, <2>1 DEF AliasWrite
<1>4. ASSUME NEW d \in Dispatchers, RemoveAlias(d)
      PROVE  al \in DOMAIN alias_to_handle /\ alias_to_handle'[al] = alias_to_handle[al]
  BY <1>4 DEF RemoveAlias
<1>5. ASSUME \/ \E a \in Actors : Reserve(a) \/ Commit(a)
             \/ \E d \in Dispatchers : Finalize(d) \/ RemoveGeneration(d) \/ RemoveOwner(d)
      PROVE  UNCHANGED alias_to_handle
  BY ZenonT(30), <1>5 DEF Reserve, Reserved, Commit, Finalize, RemoveGeneration, RemoveOwner,
                          aliases
<1> QED
  BY ZenonT(30), <1>2, <1>3, <1>4, <1>5, Cases

\* Users work with handles that were made.
LEMMA HeldStep ==
  ASSUME TypeOK, SlotInv, LifeInv, UserInv, [Next]_vars
  PROVE  UserInv'
<1>1. \A al \in DOMAIN alias_to_handle' :
        \E a \in Actors : Born(a)' /\ alias_to_handle'[al] = handle'[a]
  BY NamedStep
<1>2. ASSUME NEW v \in Users,
             \/ user_pc'[v] = "idle"
             \/ user_pc[v] # "idle" /\ held'[v] = held[v]
             \/ \E a \in Actors : Born(a) /\ held'[v] = handle[a]
      PROVE  user_pc'[v] # "idle" => \E a \in Actors : Born(a)' /\ held'[v] = handle'[a]
  BY <1>2, HandlesKept DEF UserInv
<1>3. CASE UNCHANGED user
  BY ZenonT(30), <1>1, <1>2, <1>3 DEF UserInv, user
<1>4. ASSUME NEW u \in Users, Use(u) PROVE UserInv'
  <2>1. \/ \E from : UserDone(u, from)
        \/ \E from, to : UserStep(u, from, to) /\ from # "idle" /\ UNCHANGED held
    BY ZenonT(30), <1>4 DEF Use, CheckGeneration, CloneOwner, ApplyKill, ApplyPost, Enqueue
  <2>2. \A v \in Users : v # u => user_pc'[v] = user_pc[v] /\ held'[v] = held[v]
    BY ZenonT(30), <2>1, UserMoves, UserEnds
  <2>3. user_pc'[u] = "idle" \/ (user_pc[u] # "idle" /\ held'[u] = held[u])
    BY ZenonT(30), <2>1, UserMoves, UserEnds
  <2>4. \A v \in Users : \/ user_pc'[v] = "idle"
                         \/ user_pc[v] # "idle" /\ held'[v] = held[v]
    BY ZenonT(30), <2>2, <2>3
  <2> QED
    BY ZenonT(30), <1>1, <1>2, <2>4 DEF UserInv
<1>5. ASSUME NEW u \in Users, NEW a \in Actors, UseSpawned(u, a) PROVE UserInv'
  <2>1. Born(a) /\ held'[u] = handle[a]
    BY ZenonT(30), <1>5 DEF UseSpawned, Born, TypeOK
  <2>2. \A v \in Users : v # u => user_pc'[v] = user_pc[v] /\ held'[v] = held[v]
    BY ZenonT(30), <1>5, UserMoves DEF UseSpawned, TypeOK
  <2>3. \A v \in Users : \/ user_pc'[v] = "idle"
                         \/ user_pc[v] # "idle" /\ held'[v] = held[v]
                         \/ \E b \in Actors : Born(b) /\ held'[v] = handle[b]
    BY <2>1, <2>2
  <2> QED
    BY ZenonT(30), <1>1, <1>2, <2>3 DEF UserInv
<1>6. ASSUME NEW u \in Users, NEW al \in DOMAIN alias_to_handle, TryGetActorRefByAlias(u, al)
      PROVE  UserInv'
  <2>1. \E a \in Actors : Born(a) /\ held'[u] = handle[a]
    BY ZenonT(30), <1>6 DEF TryGetActorRefByAlias, UserInv, TypeOK
  <2>2. \A v \in Users : v # u => user_pc'[v] = user_pc[v] /\ held'[v] = held[v]
    BY ZenonT(30), <1>6, UserMoves DEF TryGetActorRefByAlias, TypeOK
  <2>3. \A v \in Users : \/ user_pc'[v] = "idle"
                         \/ user_pc[v] # "idle" /\ held'[v] = held[v]
                         \/ \E b \in Actors : Born(b) /\ held'[v] = handle[b]
    BY <2>1, <2>2
  <2> QED
    BY ZenonT(30), <1>1, <1>2, <2>3 DEF UserInv
<1> QED
  BY <1>3, <1>4, <1>5, <1>6, UserFrame

\* What a user finds under a current handle is the actor of that handle: no
\* other actor holds the slot while its generation is the handle's.
LEMMA OwnerFound ==
  ASSUME TypeOK, SlotInv, HandleInv, UserInv, NEW u \in Users, user_pc[u] # "idle",
         generation[held[u].index] = held[u].generation,
         owner[held[u].index] # Nobody
  PROVE  Born(owner[held[u].index]) /\ handle[owner[held[u].index]] = held[u]
<1>1. PICK c \in Actors : Born(c) /\ held[u] = handle[c]
  BY DEF UserInv
<1>2. c \in Holding
  BY ZenonT(30), <1>1 DEF HandleInv, GenerationInv
<1> DEFINE i == held[u].index
           b == owner[i]
<1>3. i \in Slots /\ i = handle[c].index
  BY ZenonT(30), <1>1 DEF TypeOK, AnyHandle
<1>4. b \in Actors
  BY <1>3 DEF TypeOK
<1>5. spawn_pc[b] = "done" /\ handle[b].index = i
  BY <1>3 DEF SlotInv
<1>6. Born(b) /\ b \in Holding
  BY ZenonT(30), <1>4, <1>5 DEF Holding, Born
<1>7. b = c
  BY SMTT(30), <1>2, <1>3, <1>5, <1>6 DEF SlotInv
<1> QED
  BY ZenonT(30), <1>1, <1>6, <1>7

\* The runner a user has in hand is the one its handle was made for.
LEMMA FoundStep ==
  ASSUME TypeOK, SlotInv, LifeInv, HandleInv, UserInv, FoundInv, [Next]_vars
  PROVE  FoundInv'
<1> USE Constants
<1>1. ASSUME NEW v \in Users,
             \/ found'[v] = Nobody
             \/ /\ found'[v] = found[v] /\ held'[v] = held[v]
                /\ user_pc'[v] = user_pc[v] \/ user_pc'[v] = "enqueue"
      PROVE  (found[v] # Nobody =>
                user_pc[v] \in {"apply", "enqueue"} /\ Born(found[v]) /\ handle[found[v]] = held[v])'
  <2> HAVE found'[v] # Nobody
  <2>1. /\ found'[v] = found[v] /\ held'[v] = held[v] /\ found[v] \in Actors
        /\ user_pc'[v] = user_pc[v] \/ user_pc'[v] = "enqueue"
    BY ZenonT(30), <1>1 DEF TypeOK
  <2>2. user_pc[v] \in {"apply", "enqueue"} /\ Born(found[v]) /\ handle[found[v]] = held[v]
    BY <2>1 DEF FoundInv
  <2>3. spawn_pc'[found[v]] \in BornLabels /\ handle'[found[v]] = handle[found[v]]
    BY ZenonT(30), <2>1, <2>2, HandlesKept DEF Born, BornLabels
  <2> QED
    BY ZenonT(30), <2>1, <2>2, <2>3 DEF Born, BornLabels
<1>2. CASE UNCHANGED user
  BY ZenonT(30), <1>1, <1>2 DEF FoundInv, user
<1>3. ASSUME NEW u \in Users, NEW from, UserDone(u, from) PROVE FoundInv'
  <2>1. \A v \in Users :
          \/ found'[v] = Nobody
          \/ found'[v] = found[v] /\ held'[v] = held[v] /\ user_pc'[v] = user_pc[v]
    BY ZenonT(30), <1>3, UserEnds
  <2> QED
    BY ZenonT(30), <1>1, <2>1 DEF FoundInv
<1>4. ASSUME NEW u \in Users, NEW from, NEW to, UserStep(u, from, to), UNCHANGED found,
             \A v \in Users : v # u => held'[v] = held[v],
             from \in {"idle", "check"} \/ (to = "enqueue" /\ UNCHANGED held)
      PROVE  FoundInv'
  <2>1. user_pc[u] = from /\ user_pc'[u] = to
        /\ \A v \in Users : v # u => user_pc'[v] = user_pc[v]
    BY ZenonT(30), <1>4, UserMoves
  <2>2. from \in {"idle", "check"} => found[u] = Nobody
    BY ZenonT(30), <2>1 DEF FoundInv
  <2>3. \A v \in Users :
          \/ found'[v] = Nobody
          \/ /\ found'[v] = found[v] /\ held'[v] = held[v]
             /\ user_pc'[v] = user_pc[v] \/ user_pc'[v] = "enqueue"
    BY ZenonT(30), <1>4, <2>1, <2>2
  <2> QED
    BY ZenonT(30), <1>1, <2>3 DEF FoundInv
<1>5. ASSUME NEW u \in Users,
             \/ \E a \in Actors : UseSpawned(u, a)
             \/ \E al \in DOMAIN alias_to_handle : TryGetActorRefByAlias(u, al)
      PROVE  FoundInv'
  <2>1. /\ UserStep(u, "idle", "check") /\ UNCHANGED found
        /\ \E h : held' = [held EXCEPT ![u] = h]
    BY ZenonT(30), <1>5 DEF UseSpawned, TryGetActorRefByAlias
  <2>2. \A v \in Users : v # u => held'[v] = held[v]
    BY ZenonT(30), <2>1 DEF TypeOK
  <2> QED
    BY ZenonT(30), <1>4, <2>1, <2>2
<1>6. ASSUME NEW u \in Users, CloneOwner(u), UserStep(u, "clone", "apply"),
             generation[held[u].index] = held[u].generation, owner[held[u].index] # Nobody,
             found' = [found EXCEPT ![u] = owner[held[u].index]], UNCHANGED held
      PROVE  FoundInv'
  <2>1. /\ user_pc[u] = "clone" /\ user_pc'[u] = "apply" /\ UNCHANGED <<handle, spawn_pc>>
        /\ \A v \in Users : v # u => user_pc'[v] = user_pc[v]
    BY ZenonT(30), <1>6, UserMoves DEF CloneOwner, runner
  <2>2. /\ found'[u] = owner[held[u].index]
        /\ \A v \in Users : v # u => found'[v] = found[v]
    BY ZenonT(30), <1>6 DEF TypeOK
  <2>3. Born(found'[u]) /\ handle[found'[u]] = held[u]
    BY ZenonT(30), <1>6, <2>1, <2>2, OwnerFound
  <2>4. (found[u] # Nobody =>
           user_pc[u] \in {"apply", "enqueue"} /\ Born(found[u]) /\ handle[found[u]] = held[u])'
    BY ZenonT(30), <1>6, <2>1, <2>3 DEF Born
  <2> QED
    BY ZenonT(30), <1>1, <1>6, <2>1, <2>2, <2>4 DEF FoundInv
<1>7. ASSUME NEW u \in Users, Use(u) PROVE FoundInv'
  <2>1. CASE CloneOwner(u)
    BY ZenonT(30), <1>3, <1>6, <2>1 DEF CloneOwner
  <2>2. CASE CheckGeneration(u) \/ ApplyPost(u)
    <3>1. \/ \E from : UserDone(u, from)
          \/ UserStep(u, "check", "clone") /\ UNCHANGED <<held, found>>
          \/ UserStep(u, "apply", "enqueue") /\ UNCHANGED <<held, found>>
      BY ZenonT(30), <2>2 DEF CheckGeneration, ApplyPost
    <3> QED
      BY ZenonT(30), <1>3, <1>4, <3>1
  <2>3. CASE ApplyKill(u) \/ Enqueue(u)
    BY ZenonT(30), <1>3, <2>3 DEF ApplyKill, Enqueue
  <2> QED
    BY <1>7, <2>1, <2>2, <2>3 DEF Use
<1> QED
  BY <1>2, <1>5, <1>7, UserFrame

-----------------------------------------------------------------------------
(* Names *)

\* finalize_kill gets past the removal of a name once and for all.
LEMMA NamesStayRemoved ==
  ASSUME TypeOK, LifeInv, [Next]_vars, NEW a \in Actors, NameRemoved(a)
  PROVE  NameRemoved(a)'
<1> USE Constants
<1>1. SUFFICES /\ lifecycle'[a] = "stopped"
               /\ \A d \in Dispatchers :
                    \/ disp_pc'[d] = disp_pc[d] /\ current'[d] = current[d]
                    \/ current'[d] # a
  BY ZenonT(30), <1>1 DEF NameRemoved
<1>2. lifecycle[a] = "stopped"
  BY ZenonT(30) DEF NameRemoved
<1>3. CASE Calm
  BY ZenonT(30), <1>2, <1>3 DEF Calm, KillOnly
<1>4. ASSUME NEW b \in Actors, Reserve(b) \/ AliasWrite(b) \/ Commit(b)
      PROVE  lifecycle'[a] = "stopped" /\ UNCHANGED <<disp_pc, current>>
  <2>1. CASE Reserve(b) \/ AliasWrite(b)
    BY ZenonT(30), <1>2, <2>1 DEF Reserve, Reserved, AliasWrite, runner, dispatcher
  <2>2. CASE Commit(b)
    <3>1. spawn_pc[b] = "commit" /\ spawn_pc[a] = "done"
      BY ZenonT(30), <1>2, <2>2 DEF Commit, SpawnStep, LifeInv
    <3> QED
      BY ZenonT(30), <1>2, <2>2, <3>1 DEF Commit, TypeOK, dispatcher
  <2> QED
    BY <1>4, <2>1, <2>2
<1>5. ASSUME NEW d \in Dispatchers, Finalize(d)
      PROVE  /\ lifecycle'[a] = "stopped" /\ current'[d] # a
             /\ \A e \in Dispatchers : e # d => disp_pc'[e] = disp_pc[e] /\ current'[e] = current[e]
  <2>1. executing[d] # a
    BY <1>2, <1>5 DEF Finalize
  <2> QED
    BY ZenonT(30), <1>2, <1>5, <2>1 DEF Finalize, DispStep, TypeOK
<1>6. ASSUME NEW d \in Dispatchers, RemoveGeneration(d) \/ RemoveOwner(d) \/ RemoveAlias(d)
      PROVE  /\ lifecycle'[a] = "stopped" /\ current'[d] # a
             /\ \A e \in Dispatchers : e # d => disp_pc'[e] = disp_pc[e] /\ current'[e] = current[e]
  <2>1. /\ disp_pc[d] # "idle" /\ UNCHANGED <<lifecycle, current>>
        /\ \A e \in Dispatchers : e # d => disp_pc'[e] = disp_pc[e]
    BY ZenonT(30), <1>6 DEF RemoveGeneration, RemoveOwner, RemoveAlias, DispStep, TypeOK, runner
  <2> QED
    BY <1>2, <2>1 DEF NameRemoved
<1> QED
  BY ZenonT(30), <1>3, <1>4, <1>5, <1>6, Cases

\* A name is taken by one actor and given back by the same one.
LEMMA AliasStep ==
  ASSUME TypeOK, SlotInv, LifeInv, HandleInv, AliasFindsActor, [Next]_vars
  PROVE  AliasFindsActor'
<1> USE Constants
<1>1. SUFFICES ASSUME NEW a \in Actors, HasAlias(a), spawn_pc'[a] \in {"commit", "done"},
                      ~ NameRemoved(a)'
               PROVE  /\ AliasOf[a] \in DOMAIN alias_to_handle'
                      /\ alias_to_handle'[AliasOf[a]] = handle'[a]
  BY ZenonT(30) DEF AliasFindsActor, HasAlias
<1>2. ~ NameRemoved(a)
  BY <1>1, NamesStayRemoved
<1>3. ASSUME spawn_pc[a] \in {"commit", "done"}
      PROVE  /\ AliasOf[a] \in DOMAIN alias_to_handle /\ alias_to_handle[AliasOf[a]] = handle[a]
             /\ handle'[a] = handle[a]
  BY ZenonT(30), <1>1, <1>2, <1>3, HandlesKept DEF AliasFindsActor, Born
<1>4. CASE Calm
  <2>1. spawn_pc[a] \in {"commit", "done"} /\ UNCHANGED alias_to_handle
    BY ZenonT(30), <1>1, <1>4 DEF Calm, NoneBorn, BornLabels
  <2> QED
    BY <1>3, <2>1
<1>5. ASSUME NEW b \in Actors, Reserve(b) \/ Commit(b)
      PROVE  spawn_pc[a] \in {"commit", "done"} /\ UNCHANGED alias_to_handle
  <2>1. CASE Reserve(b)
    <3>1. PICK i : Reserved(b, i)
      BY <2>1 DEF Reserve
    <3> QED
      BY ZenonT(30), <1>1, <3>1, SpawnMoves DEF Reserved, aliases
  <2>2. CASE Commit(b)
    BY ZenonT(30), <1>1, <2>2, CommitHolds DEF Commit, aliases
  <2> QED
    BY <1>5, <2>1, <2>2
<1>6. ASSUME NEW d \in Dispatchers,
             Finalize(d) \/ RemoveGeneration(d) \/ RemoveOwner(d)
      PROVE  spawn_pc[a] \in {"commit", "done"} /\ UNCHANGED alias_to_handle
  BY ZenonT(30), <1>1, <1>6 DEF Finalize, RemoveGeneration, RemoveOwner, aliases
<1>7. ASSUME NEW b \in Actors, AliasWrite(b)
      PROVE  /\ AliasOf[a] \in DOMAIN alias_to_handle'
             /\ alias_to_handle'[AliasOf[a]] = handle'[a]
  <2>1. UNCHANGED handle
    BY ZenonT(30), <1>7 DEF AliasWrite, runner
  <2>2. CASE b = a
    BY SMTT(30), <1>1, <1>7, <2>1, <2>2, SpawnMoves DEF AliasWrite
  <2>3. CASE b # a
    <3>1. spawn_pc[a] \in {"commit", "done"}
      BY <1>1, <1>7, <2>3, SpawnMoves DEF AliasWrite
    <3>2. AliasOf[a] \in DOMAIN alias_to_handle /\ alias_to_handle[AliasOf[a]] = handle[a]
      BY ZenonT(30), <1>3, <3>1
    <3> QED
      BY <1>7, <2>1, <3>2 DEF AliasWrite
  <2> QED
    BY <2>2, <2>3
<1>8. ASSUME NEW d \in Dispatchers, RemoveAlias(d)
      PROVE  /\ AliasOf[a] \in DOMAIN alias_to_handle'
             /\ alias_to_handle'[AliasOf[a]] = handle'[a]
  <2>1. /\ spawn_pc[a] \in {"commit", "done"} /\ UNCHANGED <<handle, lifecycle, current>>
        /\ disp_pc[d] = "unalias"
    BY ZenonT(30), <1>1, <1>8 DEF RemoveAlias, runner, DispStep
  <2>2. AliasOf[a] \in DOMAIN alias_to_handle /\ alias_to_handle[AliasOf[a]] = handle[a]
    BY <1>3, <2>1
  <2>3. CASE alias_poisoned
    BY <1>8, <2>1, <2>2, <2>3 DEF RemoveAlias
  <2>4. CASE ~ alias_poisoned
    <3> DEFINE c == current[d]
    <3>1. c \in Actors /\ home[c] = d /\ lifecycle[c] = "stopped"
      BY SMTT(30), <2>1 DEF LifeInv, TypeOK
    <3>2. spawn_pc[c] = "done" /\ ~ NameRemoved(c)
      BY ZenonT(30), <2>1, <3>1 DEF LifeInv, NameRemoved
    <3>3. a # c
      <4>1. SUFFICES ASSUME a = c PROVE NameRemoved(a)'
        BY <1>1, <4>1
      <4>2. lifecycle'[a] = "stopped" /\ disp_pc'[d] = "idle"
        BY ZenonT(30), <1>8, <2>1, <2>4, <3>1, <4>1 DEF RemoveAlias, DispStep, TypeOK
      <4>3. \A e \in Dispatchers : current'[e] = a => e = d
        BY SMTT(30), <2>1, <3>1, <4>1 DEF LifeInv
      <4> QED
        BY <4>2, <4>3 DEF NameRemoved
    <3>4. AliasOf[a] # AliasOf[c]
      <4>1. SUFFICES ASSUME AliasOf[a] = AliasOf[c] PROVE FALSE
        OBVIOUS
      <4>2. HasAlias(c)
        BY ZenonT(30), <1>1, <4>1 DEF HasAlias
      <4>3. alias_to_handle[AliasOf[c]] = handle[c]
        BY <3>1, <3>2, <4>2 DEF AliasFindsActor
      <4>4. Born(a) /\ Born(c) /\ handle[a] = handle[c]
        BY <2>1, <2>2, <3>2, <4>1, <4>3 DEF Born
      <4> QED
        BY ZenonT(30), <3>1, <3>3, <4>4 DEF HandleInv, HandlesUnique
    <3> QED
      BY <1>8, <2>1, <2>2, <2>4, <3>4 DEF RemoveAlias
  <2> QED
    BY <2>3, <2>4
<1> QED
  BY ZenonT(30), <1>3, <1>4, <1>5, <1>6, <1>7, <1>8, Cases

-----------------------------------------------------------------------------
(* Shutdown *)

\* An actor that has lost its slot does not get it back.
LEMMA OwnersGone ==
  ASSUME TypeOK, SlotInv, LifeInv, [Next]_vars, NEW a \in Actors, spawn_pc[a] = "done"
  PROVE  /\ spawn_pc'[a] = "done"
         /\ owner[handle[a].index] # a => owner'[handle'[a].index] # a
<1> USE Constants
<1>1. handle'[a] = handle[a] /\ handle[a].index \in Slots
  BY ZenonT(30), HandlesKept DEF Born, TypeOK, AnyHandle
<1>2. CASE SlotsSame
  BY ZenonT(30), <1>1, <1>2 DEF SlotsSame
<1>3. ASSUME NEW b \in Actors, Commit(b)
      PROVE  /\ spawn_pc'[a] = "done"
             /\ owner[handle[a].index] # a => owner'[handle[a].index] # a
  <2>1. b # a /\ spawn_pc'[a] = "done" /\ owner' = [owner EXCEPT ![handle[b].index] = b]
    BY ZenonT(30), <1>3, CommitHolds
  <2> QED
    BY ZenonT(30), <1>1, <2>1 DEF TypeOK
<1>4. ASSUME NEW b \in Actors, NEW i \in Slots, TakesSlot(b, i)
      PROVE  spawn_pc'[a] = "done" /\ UNCHANGED owner
  BY ZenonT(30), <1>4 DEF TakesSlot
<1>5. ASSUME NEW d \in Dispatchers, RemoveOwner(d)
      PROVE  /\ spawn_pc'[a] = "done"
             /\ owner[handle[a].index] # a => owner'[handle[a].index] # a
  BY ZenonT(30), <1>1, <1>5 DEF RemoveOwner, TypeOK
<1> QED
  BY ZenonT(30), <1>1, <1>2, <1>3, <1>4, <1>5, SlotCases

\* Closers alone begin a shutdown, take part in it or stop a dispatcher.
LEMMA CloserFrame ==
  ASSUME [Next]_vars
  PROVE  \/ UNCHANGED <<close_pc, in_time, is_disposed, stopped>>
         \/ \E c \in Closers : BeginShutdown(c) \/ Close(c) \/ TimedOut(c)
<1>1. ASSUME NEW a \in Actors, ThrowIfDisposed(a) \/ Spawn(a)
      PROVE  UNCHANGED <<close_pc, in_time, is_disposed, stopped>>
  BY ZenonT(30), <1>1 DEF Spawn, ThrowIfDisposed, AliasRead, Reserve, Reserved, ReservePanics,
                          AliasWrite, Commit, closer, dispatcher
<1>2. ASSUME NEW u \in Users,
             \/ Use(u)
             \/ \E a \in Actors : UseSpawned(u, a)
             \/ \E al \in DOMAIN alias_to_handle : TryGetActorRefByAlias(u, al)
      PROVE  UNCHANGED <<close_pc, in_time, is_disposed, stopped>>
  BY ZenonT(30), <1>2 DEF Use, UseSpawned, TryGetActorRefByAlias, CheckGeneration, CloneOwner,
                          ApplyKill, ApplyPost, Enqueue, closer, dispatcher
<1>3. ASSUME NEW d \in Dispatchers, FinalizeKill(d)
      PROVE  UNCHANGED <<close_pc, in_time, is_disposed, stopped>>
  BY ZenonT(30), <1>3 DEF FinalizeKill, Finalize, RemoveGeneration, RemoveOwner, RemoveAlias,
                          closer
<1>4. CASE UNCHANGED vars
  BY ZenonT(30), <1>4 DEF vars, closer, dispatcher
<1>5. ASSUME (\E d \in Dispatchers : Run(d)) \/ (\E a \in Actors : Resume(a))
      PROVE  UNCHANGED <<close_pc, in_time, is_disposed, stopped>>
  BY ZenonT(30), <1>5 DEF Run, Execute, Receive, Unschedule, Peek, Resume, closer, dispatcher
<1> QED
  BY <1>1, <1>2, <1>3, <1>4, <1>5 DEF Next, Dispatch

-----------------------------------------------------------------------------
(* Execution *)

\* schedule puts an actor on the queue of its own dispatcher.
LEMMA PushHome ==
  ASSUME TypeOK, ExecuteInv, NEW a \in Actors, Push(a)
  PROVE  /\ scheduled_actors' \in [Dispatchers -> Seq(Actors)]
         /\ \A d \in Dispatchers : scheduled_actors'[d] \in Seq(AtHome(d))
<1>1. CASE home[a] \in stopped
  BY ZenonT(30), <1>1 DEF Push, ExecuteInv
<1>2. CASE home[a] \notin stopped
  <2> DEFINE e == home[a]
             q == Append(scheduled_actors[e], a)
  <2>1. e \in Dispatchers /\ a \in AtHome(e)
    BY ZenonT(30) DEF TypeOK, AtHome
  <2>2. scheduled_actors[e] \in Seq(Actors) /\ scheduled_actors[e] \in Seq(AtHome(e))
    BY ZenonT(30), <2>1 DEF ExecuteInv
  <2> HIDE DEF e
  <2>3. q \in Seq(Actors) /\ q \in Seq(AtHome(e))
    BY SMTT(30), <2>1, <2>2
  <2>4. scheduled_actors' = [scheduled_actors EXCEPT ![e] = q]
    BY ZenonT(30), <1>2 DEF Push, e
  <2> HIDE DEF q
  <2> QED
    BY ZenonT(30), <2>1, <2>3, <2>4 DEF ExecuteInv
<1> QED
  BY <1>1, <1>2

\* Whatever schedules an actor leaves the queues in order.
LEMMA ScheduleHome ==
  ASSUME TypeOK, ExecuteInv, NEW a \in Actors,
         ScheduleOnce(a) \/ Kill(a) \/ Push(a) \/ UNCHANGED scheduled_actors
  PROVE  /\ scheduled_actors' \in [Dispatchers -> Seq(Actors)]
         /\ \A d \in Dispatchers : scheduled_actors'[d] \in Seq(AtHome(d))
<1>1. Push(a) \/ UNCHANGED scheduled_actors
  BY ZenonT(30) DEF ScheduleOnce, Kill
<1> QED
  BY ZenonT(30), <1>1, PushHome DEF ExecuteInv

\* Nobody moves an actor to another dispatcher.
LEMMA HomeKept ==
  ASSUME TypeOK, [Next]_vars
  PROVE  home' = home
<1>1. ASSUME NEW a \in Actors, Reserve(a) \/ AliasWrite(a) \/ Commit(a) PROVE home' = home
  BY ZenonT(30), <1>1 DEF Reserve, Reserved, AliasWrite, Commit, runner
<1>2. ASSUME NEW d \in Dispatchers,
             Finalize(d) \/ RemoveGeneration(d) \/ RemoveOwner(d) \/ RemoveAlias(d)
      PROVE  home' = home
  BY ZenonT(30), <1>2 DEF Finalize, RemoveGeneration, RemoveOwner, RemoveAlias, runner
<1>3. CASE Calm
  BY <1>3 DEF Calm
<1> QED
  BY ZenonT(30), <1>1, <1>2, <1>3, Cases

\* Dispatchers execute their own actors only.
LEMMA ExecuteStep ==
  ASSUME TypeOK, ExecuteInv, [Next]_vars
  PROVE  ExecuteInv'
<1> USE Constants
<1>1. \A d \in Dispatchers : AtHome(d)' = AtHome(d)
  BY ZenonT(30), HomeKept DEF AtHome
<1> DEFINE Queues == /\ scheduled_actors' \in [Dispatchers -> Seq(Actors)]
                     /\ \A d \in Dispatchers : scheduled_actors'[d] \in Seq(AtHome(d))
           Threads == /\ run_pc' \in [Dispatchers -> {"idle", "start", "unschedule", "peek"}]
                      /\ executing' \in [Dispatchers -> Actors \cup {Nobody}]
                      /\ \A d \in Dispatchers : run_pc'[d] # "idle" => executing'[d] \in AtHome(d)
           Snapshot == to_kill' \subseteq Actors /\ scanned' \in Nat
           Finds == \A u \in Users : user_pc'[u] \in {"apply", "enqueue"} => found'[u] \in Actors
<1>2. ASSUME Queues, Threads, Finds, Snapshot, suspended' \subseteq Actors
      PROVE  ExecuteInv'
  <2>1. \A d \in Dispatchers : scheduled_actors'[d] \in Seq(AtHome(d)')
    BY ZenonT(30), <1>1, <1>2
  <2>2. \A d \in Dispatchers : run_pc'[d] # "idle" => executing'[d] \in AtHome(d)'
    BY ZenonT(30), <1>1, <1>2
  <2> QED
    BY ZenonT(30), <1>2, <2>1, <2>2 DEF ExecuteInv
<1>3. /\ UNCHANGED scheduled_actors => Queues
      /\ UNCHANGED execution => Threads
      /\ UNCHANGED user => Finds
      /\ UNCHANGED suspended => suspended' \subseteq Actors
      /\ UNCHANGED <<to_kill, scanned>> => Snapshot
  BY ZenonT(30) DEF ExecuteInv, execution, user
<1>4. ASSUME NEW a \in Actors, ScheduleOnce(a) \/ Kill(a) \/ Push(a) PROVE Queues
  BY ZenonT(30), <1>4, ScheduleHome
<1>5. ASSUME NEW d \in Dispatchers, NEW from, NEW to, RunStep(d, from, to), from # "idle",
             to \in {"start", "unschedule", "peek"}, UNCHANGED executing
      PROVE  Threads
  BY ZenonT(30), <1>5 DEF RunStep, ExecuteInv
<1>6. ASSUME NEW d \in Dispatchers, NEW from, RunDone(d, from)
      PROVE  Threads
  BY ZenonT(30), <1>6 DEF RunDone, RunStep, ExecuteInv
<1>7. ASSUME NEW d \in Dispatchers, Run(d) PROVE ExecuteInv'
  <2>0. /\ UNCHANGED <<user, closer>>
        /\ run_pc[d] # "idle" => executing[d] \in Actors
    BY ZenonT(30), <1>7 DEF Run, Execute, Receive, Unschedule, Peek, ExecuteInv, AtHome
  <2>1. UNCHANGED <<to_kill, scanned>>
    BY ZenonT(30), <2>0 DEF closer
  <2>2. CASE Execute(d)
    <3> DEFINE q == scheduled_actors[d]
    <3>1. q \in Seq(Actors) /\ q \in Seq(AtHome(d)) /\ q # << >>
      BY ZenonT(30), <2>2 DEF Execute, ExecuteInv
    <3> HIDE DEF q
    <3>2. /\ Head(q) \in Actors /\ Head(q) \in AtHome(d)
          /\ Tail(q) \in Seq(Actors) /\ Tail(q) \in Seq(AtHome(d))
      BY SMTT(30), <3>1
    <3>3. scheduled_actors' = [scheduled_actors EXCEPT ![d] = Tail(q)]
      BY ZenonT(30), <2>2 DEF Execute, q
    <3>4. Queues
      BY ZenonT(30), <3>2, <3>3 DEF ExecuteInv
    <3>5. Threads
      BY ZenonT(30), <2>2, <3>2 DEF Execute, RunStep, ExecuteInv, q
    <3> QED
      BY ZenonT(30), <1>2, <1>3, <2>0, <2>1, <2>2, <3>4, <3>5 DEF Execute
  <2>3. CASE Receive(d)
    <3>1. executing[d] \in Actors
      BY ZenonT(30), <2>0, <2>3 DEF Receive
    <3>2. Queues
      BY ZenonT(30), <1>3, <1>4, <2>3, <3>1 DEF Receive
    <3>3. Threads
      BY ZenonT(30), <1>3, <1>5, <1>6, <2>3 DEF Receive
    <3>4. suspended' \subseteq Actors
      BY ZenonT(30), <2>3, <3>1 DEF Receive, ExecuteInv
    <3> QED
      BY ZenonT(30), <1>2, <1>3, <2>0, <2>1, <3>2, <3>3, <3>4
  <2>4. CASE Unschedule(d)
    BY ZenonT(30), <1>2, <1>3, <1>5, <2>0, <2>1, <2>4 DEF Unschedule
  <2>5. CASE Peek(d)
    <3>1. executing[d] \in Actors
      BY ZenonT(30), <2>0, <2>5 DEF Peek, RunDone, RunStep
    <3>2. Queues
      BY ZenonT(30), <1>3, <1>4, <2>5, <3>1 DEF Peek
    <3> QED
      BY ZenonT(30), <1>2, <1>3, <1>6, <2>0, <2>1, <2>5, <3>2 DEF Peek
  <2> QED
    BY <1>7, <2>2, <2>3, <2>4, <2>5 DEF Run
<1>8. ASSUME NEW a \in Actors, Resume(a) PROVE ExecuteInv'
  <2>1. UNCHANGED <<user, to_kill, scanned, execution>> /\ suspended' \subseteq Actors
    BY ZenonT(30), <1>8 DEF Resume, closer, dispatcher, ExecuteInv
  <2>2. Queues
    BY ZenonT(30), <1>4, <1>8 DEF Resume
  <2> QED
    BY ZenonT(30), <1>2, <1>3, <2>1, <2>2
<1>9. ASSUME NEW a \in Actors, ThrowIfDisposed(a) \/ Spawn(a) PROVE ExecuteInv'
  <2>1. UNCHANGED <<user, to_kill, scanned, execution, suspended, scheduled_actors>>
    BY ZenonT(30), <1>9 DEF Spawn, ThrowIfDisposed, AliasRead, Reserve, Reserved, ReservePanics,
                            AliasWrite, Commit, runner, scheduling, closer, dispatcher
  <2> QED
    BY ZenonT(30), <1>2, <1>3, <2>1
<1>10. ASSUME NEW d \in Dispatchers, FinalizeKill(d) PROVE ExecuteInv'
  <2>1. UNCHANGED <<user, to_kill, scanned, suspended, scheduled_actors>>
    BY ZenonT(30), <1>10 DEF FinalizeKill, Finalize, RemoveGeneration, RemoveOwner, RemoveAlias,
                             runner, scheduling, closer
  <2>2. UNCHANGED execution \/ RunDone(d, "start")
    BY ZenonT(30), <1>10 DEF FinalizeKill, Finalize, RemoveGeneration, RemoveOwner, RemoveAlias
  <2> QED
    BY ZenonT(30), <1>2, <1>3, <1>6, <2>1, <2>2
<1>11. ASSUME NEW u \in Users, UserDone(u, "apply") \/ UserDone(u, "check")
                               \/ UserDone(u, "clone") \/ UserDone(u, "enqueue")
       PROVE  Finds
  <2>1. /\ user_pc'[u] = "idle"
        /\ \A v \in Users : v # u => user_pc'[v] = user_pc[v] /\ found'[v] = found[v]
    BY ZenonT(30), <1>11, UserEnds
  <2> QED
    BY ZenonT(30), <2>1 DEF ExecuteInv
<1>12. ASSUME NEW u \in Users,
              \/ Use(u)
              \/ \E a \in Actors : UseSpawned(u, a)
              \/ \E al \in DOMAIN alias_to_handle : TryGetActorRefByAlias(u, al)
       PROVE  ExecuteInv'
  <2>1. UNCHANGED <<to_kill, scanned, execution, suspended>>
    BY ZenonT(30), <1>12 DEF Use, UseSpawned, TryGetActorRefByAlias, CheckGeneration, CloneOwner,
                             ApplyKill, ApplyPost, Enqueue, runner, scheduling, closer, dispatcher
  <2>2. Queues
    <3>1. CASE ApplyKill(u) \/ Enqueue(u)
      <4>1. found[u] \in Actors
        BY ZenonT(30), <3>1 DEF ApplyKill, Enqueue, UserDone, UserStep, ExecuteInv
      <4> QED
        BY ZenonT(30), <1>3, <1>4, <3>1, <4>1 DEF ApplyKill, Enqueue
    <3>2. CASE ~ (ApplyKill(u) \/ Enqueue(u))
      <4>1. UNCHANGED scheduled_actors
        BY ZenonT(30), <1>12, <3>2 DEF Use, UseSpawned, TryGetActorRefByAlias, CheckGeneration,
                                       CloneOwner, ApplyPost, runner, scheduling
      <4> QED
        BY <1>3, <4>1
    <3> QED
      BY <3>1, <3>2
  <2>3. Finds
    <3>1. ASSUME NEW from, NEW to, UserStep(u, from, to), UNCHANGED found,
                 to \in {"check", "clone"} \/ from = "apply"
          PROVE  Finds
      <4>1. /\ user_pc[u] = from /\ user_pc'[u] = to
            /\ \A v \in Users : v # u => user_pc'[v] = user_pc[v]
        BY ZenonT(30), <3>1, UserMoves
      <4> QED
        BY ZenonT(30), <3>1, <4>1 DEF ExecuteInv
    <3>2. CASE CheckGeneration(u) \/ ApplyKill(u) \/ ApplyPost(u) \/ Enqueue(u)
      BY ZenonT(30), <1>11, <3>1, <3>2 DEF CheckGeneration, ApplyKill, ApplyPost, Enqueue
    <3>3. CASE \/ \E a \in Actors : UseSpawned(u, a)
               \/ \E al \in DOMAIN alias_to_handle : TryGetActorRefByAlias(u, al)
      BY ZenonT(30), <3>1, <3>3 DEF UseSpawned, TryGetActorRefByAlias
    <3>4. CASE CloneOwner(u)
      <4>1. ASSUME UserStep(u, "clone", "apply"), owner[held[u].index] # Nobody,
                   found' = [found EXCEPT ![u] = owner[held[u].index]]
            PROVE  Finds
        <5>1. owner[held[u].index] \in Actors
          BY ZenonT(30), <4>1 DEF TypeOK, AnyHandle
        <5>2. \A v \in Users : v # u => user_pc'[v] = user_pc[v] /\ found'[v] = found[v]
          BY ZenonT(30), <4>1, UserMoves DEF TypeOK
        <5>3. found'[u] \in Actors
          BY ZenonT(30), <4>1, <5>1 DEF TypeOK
        <5> QED
          BY ZenonT(30), <5>2, <5>3 DEF ExecuteInv
      <4> QED
        BY ZenonT(30), <1>11, <3>4, <4>1 DEF CloneOwner
    <3> QED
      BY <1>12, <3>2, <3>3, <3>4 DEF Use
  <2> QED
    BY ZenonT(30), <1>2, <1>3, <2>1, <2>2, <2>3
<1>13. ASSUME NEW c \in Closers, BeginShutdown(c) \/ Close(c) \/ TimedOut(c) PROVE ExecuteInv'
  <2>1. UNCHANGED <<user, execution, suspended>>
    BY ZenonT(30), <1>13 DEF BeginShutdown, Close, TimedOut, SnapshotLive, KillSnapshot, WaitLive,
                             StopDispatchers, runner, scheduling, dispatcher
  <2>2. CASE KillSnapshot(c)
    <3>1. Snapshot
      BY ZenonT(30), <2>2 DEF KillSnapshot, ExecuteInv
    <3>2. Queues
      <4>1. UNCHANGED scheduled_actors \/ \E a \in Actors : Kill(a)
        BY ZenonT(30), <2>2 DEF KillSnapshot, ExecuteInv
      <4> QED
        BY ZenonT(30), <1>3, <1>4, <4>1
    <3> QED
      BY ZenonT(30), <1>2, <1>3, <2>1, <3>1, <3>2
  <2>3. CASE SnapshotLive(c)
    <3>1. UNCHANGED scheduled_actors
      BY ZenonT(30), <2>3 DEF SnapshotLive, runner, scheduling
    <3>2. scanned \in Nat /\ scanned + 1 \in Nat /\ (scanned < next_unused => scanned \in Slots)
      BY SMTT(30) DEF ExecuteInv, TypeOK, Slots
    <3>3. scanned < next_unused => owner[scanned] \in Actors \cup {Nobody}
      BY ZenonT(30), <3>2 DEF TypeOK
    <3>4. Snapshot
      BY ZenonT(30), <2>3, <3>2, <3>3 DEF SnapshotLive, ExecuteInv
    <3> QED
      BY ZenonT(30), <1>2, <1>3, <2>1, <3>1, <3>4
  <2>4. CASE BeginShutdown(c) \/ WaitLive(c) \/ StopDispatchers(c) \/ TimedOut(c)
    <3>1. UNCHANGED <<to_kill, scanned, scheduled_actors>>
      BY ZenonT(30), <2>4 DEF BeginShutdown, WaitLive, StopDispatchers, TimedOut, runner,
                              scheduling
    <3> QED
      BY ZenonT(30), <1>2, <1>3, <2>1, <3>1
  <2> QED
    BY <1>13, <2>2, <2>3, <2>4 DEF Close
<1>14. CASE UNCHANGED vars
  BY ZenonT(30), <1>2, <1>3, <1>14 DEF vars, runner, scheduling, closer, dispatcher
<1> QED
  BY <1>7, <1>8, <1>9, <1>10, <1>12, <1>13, <1>14 DEF Next, Dispatch

=============================================================================
