---------------------------- MODULE ActorSystem -----------------------------
(***************************************************************************)
(* Spawning, naming, routing and shutting down: ActorSystem and its        *)
(* ActorRegistry (actor_system.rs, internals/registry.rs, actor_ref.rs).   *)
(*                                                                         *)
(* Every call of spawn is a thread, named by the actor it makes; users     *)
(* post and kill through handles; dispatchers finalize killed actors;      *)
(* closers call dispose or shutdown_timeout.  A step is one atomic         *)
(* operation or one critical section.  The alloc mutex is a variable       *)
(* because remove and snapshot_live take slot mutexes while they hold it;  *)
(* a panic under a guard poisons its lock.                                 *)
(*                                                                         *)
(* An actor's runner is here what finalization depends on: lifecycle_state,*)
(* is_scheduled, the queue of its dispatcher and whether a receive is      *)
(* pending.  A kill can be lost as in the code, between execute's last     *)
(* look at lifecycle_state and its store to is_scheduled.  What mail there *)
(* is, is left open: wherever the code finds the mailbox empty, full or    *)
(* not empty, either may be the case.  ActorRunner models the mailbox and  *)
(* the polling of a pending receive.                                       *)
(***************************************************************************)
EXTENDS Naturals, Sequences, FiniteSets

CONSTANTS
  Actors,       \* the calls of spawn; bounds a run
  Users, Closers, Dispatchers,
  Capacity,     \* the number of slots
  Generations,  \* the number of generation values, 2^32 in the code
  AliasOf, NoAlias,
  Homes,        \* the ways to place the actors on dispatchers that are considered
  CalledOn,     \* the dispatcher an actor of which a closer is, or Nobody
  Environment,  \* what users and actors do: a subset of AnyEvent
  Nobody        \* no actor; no holder of a lock

\* users post; a receive is pending or panics; on_kill panics
AnyEvent == {"post", "pending", "panic", "on_kill"}

ASSUME SystemAssumption ==
  /\ Homes \subseteq [Actors -> Dispatchers]
  /\ Environment \subseteq AnyEvent
  /\ Capacity \in Nat \ {0}
  /\ Generations \in Nat \ {0}
  /\ Nobody \notin Actors \cup Dispatchers \cup Closers
  /\ CalledOn \in [Closers -> Dispatchers \cup {Nobody}]

VARIABLES
  generation, owner,                    \* per slot
  free, next_unused, live, alloc_lock,  \* AllocState and its mutex
  alloc_poisoned,
  alias_to_handle, alias_poisoned,
  is_disposed,
  stopped,      \* the dispatchers that have been disposed
  lifecycle,    \* of each actor's runner
  is_scheduled, \* of each actor's runner
  suspended,    \* the actors whose receive is pending
  scheduled_actors,   \* the queue of each dispatcher
  handle,       \* (index, generation) of each actor
  home,         \* the dispatcher of each actor
  spawn_pc, user_pc, close_pc, disp_pc,
  held,         \* the handle a user works with
  found,        \* the runner a user cloned out of the slot
  scanned, to_kill,   \* begin_shutdown's position in snapshot_live, its snapshot
  run_pc, executing,  \* where a dispatcher is in ActorRunner::execute, and whose
  current,      \* the actor a dispatcher finalizes
  in_time       \* history: the actors spawned when shutdown began

alloc == <<free, next_unused, live, alloc_lock, alloc_poisoned>>
aliases == <<alias_to_handle, alias_poisoned>>
scheduling == <<is_scheduled, suspended, scheduled_actors>>
runner == <<lifecycle, handle, home, scheduling>>
user == <<user_pc, held, found>>
closer == <<close_pc, scanned, to_kill, in_time>>
execution == <<run_pc, executing>>
dispatcher == <<disp_pc, current, stopped, execution>>
vars == <<generation, owner, alloc, aliases, is_disposed, runner, spawn_pc, user, closer,
          dispatcher>>

Slots == 0 .. Capacity - 1
Handle == [index : Slots, generation : 0 .. Generations - 1]
NoHandle == [index |-> 0, generation |-> 0]   \* reserve never returns it
HasAlias(a) == AliasOf[a] # NoAlias

Init ==
  /\ generation = [i \in Slots |-> 0]
  /\ owner = [i \in Slots |-> Nobody]
  /\ free = << >> /\ next_unused = 0 /\ live = 0
  /\ alloc_lock = Nobody /\ alloc_poisoned = FALSE
  /\ alias_to_handle = << >> /\ alias_poisoned = FALSE
  /\ is_disposed = FALSE
  /\ stopped = {}
  /\ lifecycle = [a \in Actors |-> "unborn"]
  /\ is_scheduled = [a \in Actors |-> FALSE]
  /\ suspended = {}
  /\ scheduled_actors = [d \in Dispatchers |-> << >>]
  /\ handle = [a \in Actors |-> NoHandle]
  /\ home \in Homes
  /\ spawn_pc = [a \in Actors |-> "idle"]
  /\ user_pc = [u \in Users |-> "idle"]
  /\ close_pc = [c \in Closers |-> "idle"]
  /\ disp_pc = [d \in Dispatchers |-> "idle"]
  /\ held = [u \in Users |-> NoHandle]
  /\ found = [u \in Users |-> Nobody]
  /\ scanned = 0 /\ to_kill = {}
  /\ run_pc = [d \in Dispatchers |-> "idle"]
  /\ executing = [d \in Dispatchers |-> Nobody]
  /\ current = [d \in Dispatchers |-> Nobody]
  /\ in_time = {}

AllocFree == alloc_lock = Nobody

-----------------------------------------------------------------------------
(* spawn_with_dispatcher, spawn_with_auto_dispatcher and register_actor *)

SpawnStep(a, from, to) == spawn_pc[a] = from /\ spawn_pc' = [spawn_pc EXCEPT ![a] = to]

ThrowIfDisposed(a) ==
  /\ SpawnStep(a, "idle", IF is_disposed THEN "panicked"
                          ELSE IF HasAlias(a) THEN "alias_read" ELSE "reserve")
  /\ UNCHANGED <<generation, owner, alloc, aliases, is_disposed, runner, user, closer,
                 dispatcher>>

AliasRead(a) ==
  /\ SpawnStep(a, "alias_read", IF alias_poisoned \/ AliasOf[a] \in DOMAIN alias_to_handle
                                THEN "panicked" ELSE "reserve")
  /\ UNCHANGED <<generation, owner, alloc, aliases, is_disposed, runner, user, closer,
                 dispatcher>>

\* Mutant: a slot is handed out under the generation it had.
NextGeneration_Same(g) == g

NextGeneration(g) == (g + 1) % Generations

\* ActorRegistry::reserve hands out slot i
Reserved(a, i) ==
  /\ SpawnStep(a, "reserve", IF HasAlias(a) THEN "alias_write" ELSE "commit")
  /\ generation' = [generation EXCEPT ![i] = NextGeneration(@)]
  /\ handle' = [handle EXCEPT ![a] = [index |-> i, generation |-> NextGeneration(generation[i])]]
  /\ live' = live + 1
  /\ UNCHANGED <<owner, alloc_lock, alloc_poisoned, aliases, is_disposed, lifecycle, home,
                 scheduling, user, closer, dispatcher>>

\* Mutant: the slot that is handed out stays on the free list.
Reserve_NoPop(a) ==
  /\ AllocFree /\ ~ alloc_poisoned
  /\ UNCHANGED free
  /\ \/ free # << >> /\ Reserved(a, free[Len(free)]) /\ UNCHANGED next_unused
     \/ /\ free = << >> /\ next_unused < Capacity
        /\ Reserved(a, next_unused)
        /\ next_unused' = next_unused + 1

Reserve(a) ==
  /\ AllocFree /\ ~ alloc_poisoned
  /\ \/ /\ free # << >>
        /\ Reserved(a, free[Len(free)])
        /\ free' = SubSeq(free, 1, Len(free) - 1)
        /\ UNCHANGED next_unused
     \/ /\ free = << >> /\ next_unused < Capacity
        /\ Reserved(a, next_unused)
        /\ next_unused' = next_unused + 1
        /\ UNCHANGED free

\* the panic on a full registry, under the guard of alloc; and every later
\* spawn that meets the poisoned mutex
ReservePanics(a) ==
  /\ AllocFree
  /\ alloc_poisoned \/ (free = << >> /\ next_unused >= Capacity)
  /\ alloc_poisoned' = TRUE
  /\ SpawnStep(a, "reserve", "panicked")
  /\ UNCHANGED <<generation, owner, free, next_unused, live, alloc_lock, aliases,
                 is_disposed, runner, user, closer, dispatcher>>

\* Mutant: register_actor relies on its first look at the aliases.
AliasWrite_NoRecheck(a) ==
  /\ SpawnStep(a, "alias_write", "commit")
  /\ alias_to_handle' = [al \in DOMAIN alias_to_handle \cup {AliasOf[a]} |->
                           IF al = AliasOf[a] THEN handle[a] ELSE alias_to_handle[al]]
  /\ UNCHANGED <<generation, owner, alloc, alias_poisoned, is_disposed, runner, user,
                 closer, dispatcher>>

\* A second actor of the same name panics under the write guard, and after
\* reserve: its slot is never committed and never given back.
AliasWrite(a) ==
  /\ \/ /\ ~ alias_poisoned /\ AliasOf[a] \notin DOMAIN alias_to_handle
        /\ SpawnStep(a, "alias_write", "commit")
        /\ alias_to_handle' = [al \in DOMAIN alias_to_handle \cup {AliasOf[a]} |->
                                 IF al = AliasOf[a] THEN handle[a] ELSE alias_to_handle[al]]
        /\ UNCHANGED alias_poisoned
     \/ /\ alias_poisoned \/ AliasOf[a] \in DOMAIN alias_to_handle
        /\ SpawnStep(a, "alias_write", "leaked")
        /\ alias_poisoned' = TRUE
        /\ UNCHANGED alias_to_handle
  /\ UNCHANGED <<generation, owner, alloc, is_disposed, runner, user, closer, dispatcher>>

Commit(a) ==
  /\ SpawnStep(a, "commit", "done")
  /\ owner' = [owner EXCEPT ![handle[a].index] = a]
  /\ lifecycle' = [lifecycle EXCEPT ![a] = "running"]
  /\ UNCHANGED <<generation, alloc, aliases, is_disposed, handle, home, scheduling, user,
                 closer, dispatcher>>

-----------------------------------------------------------------------------
(* ActorRef: post and kill go through ActorRegistry with the handle *)

UserStep(u, from, to) == user_pc[u] = from /\ user_pc' = [user_pc EXCEPT ![u] = to]

\* The call is over.
UserDone(u, from) ==
  /\ UserStep(u, from, "idle")
  /\ held' = [held EXCEPT ![u] = NoHandle]
  /\ found' = [found EXCEPT ![u] = Nobody]

\* a user calls post or kill on the ActorRef spawn returned
UseSpawned(u, a) ==
  /\ spawn_pc[a] = "done"
  /\ UserStep(u, "idle", "check")
  /\ held' = [held EXCEPT ![u] = handle[a]]
  /\ UNCHANGED <<generation, owner, alloc, aliases, is_disposed, runner, spawn_pc, found,
                 closer, dispatcher>>

\* ... or on the one try_get_actor_ref_by_alias returned
TryGetActorRefByAlias(u, al) ==
  /\ ~ alias_poisoned
  /\ al \in DOMAIN alias_to_handle
  /\ UserStep(u, "idle", "check")
  /\ held' = [held EXCEPT ![u] = alias_to_handle[al]]
  /\ UNCHANGED <<generation, owner, alloc, aliases, is_disposed, runner, spawn_pc, found,
                 closer, dispatcher>>

CheckGeneration(u) ==
  /\ IF generation[held[u].index] = held[u].generation
     THEN UserStep(u, "check", "clone") /\ UNCHANGED <<held, found>>
     ELSE UserDone(u, "check")
  /\ UNCHANGED <<generation, owner, alloc, aliases, is_disposed, runner, spawn_pc, closer,
                 dispatcher>>

\* Mutant: the generation is not read again under the slot's mutex.
CloneOwner_NoRecheck(u) ==
  LET i == held[u].index IN
  /\ IF owner[i] # Nobody
     THEN /\ UserStep(u, "clone", "apply")
          /\ found' = [found EXCEPT ![u] = owner[i]] /\ UNCHANGED held
     ELSE UserDone(u, "clone")
  /\ UNCHANGED <<generation, owner, alloc, aliases, is_disposed, runner, spawn_pc, closer,
                 dispatcher>>

CloneOwner(u) ==
  LET i == held[u].index IN
  /\ IF generation[i] = held[u].generation /\ owner[i] # Nobody
     THEN /\ UserStep(u, "clone", "apply")
          /\ found' = [found EXCEPT ![u] = owner[i]] /\ UNCHANGED held
     ELSE UserDone(u, "clone")
  /\ UNCHANGED <<generation, owner, alloc, aliases, is_disposed, runner, spawn_pc, closer,
                 dispatcher>>

\* ActorDispatcher::schedule
Push(a) ==
  scheduled_actors' = IF home[a] \in stopped THEN scheduled_actors
                      ELSE [scheduled_actors EXCEPT ![home[a]] = Append(@, a)]

\* is_scheduled is set, and whoever sets it schedules the runner
ScheduleOnce(a) ==
  /\ is_scheduled' = [is_scheduled EXCEPT ![a] = TRUE]
  /\ IF is_scheduled[a] THEN UNCHANGED scheduled_actors ELSE Push(a)

Killed(a) == [lifecycle EXCEPT ![a] = IF @ = "running" THEN "killing" ELSE @]

\* Mutant: the runner is marked as scheduled and not handed to its dispatcher.
Kill_NotScheduled(a) ==
  /\ lifecycle' = Killed(a)
  /\ is_scheduled' = [is_scheduled EXCEPT ![a] = @ \/ lifecycle[a] = "running"]
  /\ UNCHANGED scheduled_actors

\* ActorRunner::kill.  Its two atomic operations are one step: what another
\* thread does between them it may as well do before or after both.
Kill(a) ==
  /\ lifecycle' = Killed(a)
  /\ IF lifecycle[a] = "running" THEN ScheduleOnce(a)
     ELSE UNCHANGED <<is_scheduled, scheduled_actors>>

ApplyKill(u) ==
  /\ UserDone(u, "apply")
  /\ Kill(found[u])
  /\ UNCHANGED <<generation, owner, alloc, aliases, is_disposed, handle, home, suspended,
                 spawn_pc, closer, dispatcher>>

\* enqueue_only: the look at lifecycle_state, then the mailbox, which may be
\* full, and the schedule of a runner that is not scheduled
ApplyPost(u) ==
  /\ "post" \in Environment
  /\ \/ /\ UserStep(u, "apply", "enqueue") /\ UNCHANGED <<held, found>>
        /\ lifecycle[found[u]] = "running"
     \/ UserDone(u, "apply") /\ lifecycle[found[u]] # "running"
  /\ UNCHANGED <<generation, owner, alloc, aliases, is_disposed, runner, spawn_pc, closer,
                 dispatcher>>

Enqueue(u) ==
  /\ UserDone(u, "enqueue")
  /\ ScheduleOnce(found[u]) \/ UNCHANGED <<is_scheduled, scheduled_actors>>
  /\ UNCHANGED <<generation, owner, alloc, aliases, is_disposed, lifecycle, handle, home,
                 suspended, spawn_pc, closer, dispatcher>>

-----------------------------------------------------------------------------
(* ActorRunner::execute, on the actor's dispatcher *)

\* No actor of dispatcher d is inside dispose or shutdown_timeout.
Unblocked(d) ==
  \A c \in Closers : CalledOn[c] = d => close_pc[c] \in {"idle", "done", "panicked"}

RunStep(d, from, to) == run_pc[d] = from /\ run_pc' = [run_pc EXCEPT ![d] = to]
RunDone(d, from) == RunStep(d, from, "idle") /\ executing' = [executing EXCEPT ![d] = Nobody]

\* The dispatcher takes the next runner.  One that is stopped, which execute would
\* leave alone, is not met here: is_scheduled of a finalized actor stays set, and
\* the entries that wakes leave behind are ActorRunner's.
Execute(d) ==
  /\ d \notin stopped
  /\ disp_pc[d] = "idle" /\ scheduled_actors[d] # << >>
  /\ RunStep(d, "idle", "start")
  /\ executing' = [executing EXCEPT ![d] = Head(scheduled_actors[d])]
  /\ scheduled_actors' = [scheduled_actors EXCEPT ![d] = Tail(@)]
  /\ UNCHANGED <<generation, owner, alloc, aliases, is_disposed, lifecycle, handle, home,
                 is_scheduled, suspended, spawn_pc, user, closer, disp_pc, current,
                 stopped>>

\* A running actor receives its mail until none is left, a receive is pending
\* or one panics.  In the first case execute looks at lifecycle_state again.
Receive(d) ==
  LET a == executing[d] IN
  /\ Unblocked(d)
  /\ run_pc[d] = "start" /\ lifecycle[a] = "running"
  /\ \/ /\ RunStep(d, "start", "unschedule")
        /\ UNCHANGED <<executing, lifecycle, is_scheduled, suspended, scheduled_actors>>
     \/ /\ "pending" \in Environment
        /\ RunDone(d, "start")
        /\ suspended' = suspended \cup {a}
        /\ UNCHANGED <<lifecycle, is_scheduled, scheduled_actors>>
     \/ /\ "panic" \in Environment
        /\ Kill(a)
        /\ UNCHANGED <<execution, suspended>>
  /\ UNCHANGED <<generation, owner, alloc, aliases, is_disposed, handle, home, spawn_pc, user,
                 closer, disp_pc, current, stopped>>

\* A pending receive is ready, or has panicked, which kills the actor: either
\* way the runner is scheduled again.
Resume(a) ==
  /\ a \in suspended
  /\ suspended' = suspended \ {a}
  /\ UNCHANGED lifecycle \/ ("panic" \in Environment /\ lifecycle' = Killed(a))
  /\ Push(a)
  /\ UNCHANGED <<generation, owner, alloc, aliases, is_disposed, handle, home, is_scheduled,
                 spawn_pc, user, closer, dispatcher>>

\* The store to is_scheduled, and the look for mail that came meanwhile.  A kill
\* that falls between execute's look at lifecycle_state and the store is lost.
Unschedule(d) ==
  /\ RunStep(d, "unschedule", "peek")
  /\ is_scheduled' = [is_scheduled EXCEPT ![executing[d]] = FALSE]
  /\ UNCHANGED <<generation, owner, alloc, aliases, is_disposed, lifecycle, handle, home,
                 suspended, scheduled_actors, spawn_pc, user, closer, disp_pc, current, stopped,
                 executing>>

Peek(d) ==
  /\ RunDone(d, "peek")
  /\ ScheduleOnce(executing[d]) \/ UNCHANGED <<is_scheduled, scheduled_actors>>
  /\ UNCHANGED <<generation, owner, alloc, aliases, is_disposed, lifecycle, handle, home,
                 suspended, spawn_pc, user, closer, disp_pc, current, stopped>>

-----------------------------------------------------------------------------
(* ActorRunner::finalize_kill and ActorSystem::finalize_kill with
   ActorRegistry::remove; a poisoned lock or a panic in on_kill ends the
   dispatcher's thread *)

DispStep(d, from, to) == disp_pc[d] = from /\ disp_pc' = [disp_pc EXCEPT ![d] = to]

\* ActorRunner::finalize_kill up to its call of on_finalize; an on_kill that
\* panics ends the thread, since nothing catches it
Finalize(d) ==
  LET a == executing[d] IN
  /\ RunDone(d, "start") /\ Unblocked(d)
  /\ lifecycle[a] = "killing"
  /\ lifecycle' = [lifecycle EXCEPT ![a] = "stopped"]
  /\ current' = [current EXCEPT ![d] = a]
  /\ \/ DispStep(d, "idle", "remove")
     \/ "on_kill" \in Environment /\ DispStep(d, "idle", "dead")
  /\ UNCHANGED <<generation, owner, alloc, aliases, is_disposed, handle, home, is_scheduled,
                 suspended, scheduled_actors, spawn_pc, user, closer, stopped>>

RemoveGeneration(d) ==
  LET h == handle[current[d]] IN
  /\ disp_pc[d] = "remove"
  /\ AllocFree
  /\ \/ /\ ~ alloc_poisoned /\ generation[h.index] = h.generation
        /\ DispStep(d, "remove", "take")
        /\ generation' = [generation EXCEPT ![h.index] = NextGeneration(@)]
        /\ alloc_lock' = d
     \/ /\ alloc_poisoned \/ generation[h.index] # h.generation
        /\ DispStep(d, "remove", IF alloc_poisoned THEN "dead" ELSE "idle")
        /\ UNCHANGED <<generation, alloc_lock>>
  /\ UNCHANGED <<owner, free, next_unused, live, alloc_poisoned, aliases, is_disposed,
                 runner, spawn_pc, user, closer, current, stopped, execution>>

RemoveOwner(d) ==
  LET a == current[d]
      i == handle[a].index IN
  /\ disp_pc[d] = "take"
  /\ DispStep(d, "take", IF owner[i] # Nobody /\ HasAlias(a) THEN "unalias" ELSE "idle")
  /\ owner' = [owner EXCEPT ![i] = Nobody]
  /\ alloc_lock' = Nobody
  /\ free' = IF owner[i] # Nobody THEN Append(free, i) ELSE free
  /\ live' = IF owner[i] # Nobody THEN live - 1 ELSE live
  /\ UNCHANGED <<generation, next_unused, alloc_poisoned, aliases, is_disposed, runner,
                 spawn_pc, user, closer, current, stopped, execution>>

RemoveAlias(d) ==
  /\ DispStep(d, "unalias", IF alias_poisoned THEN "dead" ELSE "idle")
  /\ alias_to_handle' = IF alias_poisoned THEN alias_to_handle
                        ELSE [al \in DOMAIN alias_to_handle \ {AliasOf[current[d]]} |->
                                alias_to_handle[al]]
  /\ UNCHANGED <<generation, owner, alloc, alias_poisoned, is_disposed, runner, spawn_pc,
                 user, closer, current, stopped, execution>>

-----------------------------------------------------------------------------
(* dispose and shutdown_timeout *)

\* an actor calls it in a receive
MayClose(c) ==
  LET d == CalledOn[c] IN
  d # Nobody =>
    /\ run_pc[d] = "start" /\ Unblocked(d)
    /\ lifecycle[executing[d]] = "running"

CloseStep(c, from, to) == close_pc[c] = from /\ close_pc' = [close_pc EXCEPT ![c] = to]

\* Mutant: a second call finds the shutdown begun and does not wait for it.
BeginShutdown_SecondStops(c) ==
  /\ MayClose(c)
  /\ CloseStep(c, "idle", IF is_disposed THEN "stop" ELSE "scan")
  /\ is_disposed' = TRUE
  /\ in_time' = IF is_disposed THEN in_time ELSE {a \in Actors : spawn_pc[a] = "done"}
  /\ UNCHANGED <<generation, owner, alloc, aliases, runner, spawn_pc, user, scanned,
                 to_kill, dispatcher>>

\* AskSystem::stop, which follows the swap, touches none of this state
BeginShutdown(c) ==
  /\ MayClose(c)
  /\ CloseStep(c, "idle", IF is_disposed THEN "wait" ELSE "scan")
  /\ is_disposed' = TRUE
  /\ in_time' = IF is_disposed THEN in_time ELSE {a \in Actors : spawn_pc[a] = "done"}
  /\ UNCHANGED <<generation, owner, alloc, aliases, runner, spawn_pc, user, scanned,
                 to_kill, dispatcher>>

\* snapshot_live: one slot after the other, under the alloc mutex
SnapshotLive(c) ==
  /\ alloc_lock \in {Nobody, c}
  /\ \/ /\ ~ alloc_poisoned /\ scanned < next_unused
        /\ CloseStep(c, "scan", "scan")
        /\ to_kill' = to_kill \cup ({owner[scanned]} \ {Nobody})
        /\ scanned' = scanned + 1
        /\ alloc_lock' = c
     \/ /\ alloc_poisoned \/ scanned >= next_unused
        /\ CloseStep(c, "scan", IF alloc_poisoned THEN "panicked" ELSE "kill")
        /\ alloc_lock' = Nobody
        /\ UNCHANGED <<scanned, to_kill>>
  /\ UNCHANGED <<generation, owner, free, next_unused, live, alloc_poisoned, aliases,
                 is_disposed, runner, spawn_pc, user, in_time, dispatcher>>

KillSnapshot(c) ==
  /\ \/ \E a \in to_kill :
          Kill(a) /\ to_kill' = to_kill \ {a} /\ CloseStep(c, "kill", "kill")
     \/ /\ to_kill = {}
        /\ CloseStep(c, "kill", "wait")
        /\ UNCHANGED <<lifecycle, is_scheduled, scheduled_actors, to_kill>>
  /\ UNCHANGED <<generation, owner, alloc, aliases, is_disposed, handle, home,
                 suspended, spawn_pc, user, scanned, in_time, dispatcher>>

WaitLive(c) ==
  /\ AllocFree
  /\ alloc_poisoned \/ live = 0
  /\ CloseStep(c, "wait", IF alloc_poisoned THEN "panicked" ELSE "stop")
  /\ UNCHANGED <<generation, owner, alloc, aliases, is_disposed, runner, spawn_pc, user,
                 scanned, to_kill, in_time, dispatcher>>

\* shutdown_timeout returns Err at its deadline; it may be called again
TimedOut(c) ==
  /\ AllocFree /\ ~ alloc_poisoned /\ live # 0
  /\ CloseStep(c, "wait", "idle")
  /\ UNCHANGED <<generation, owner, alloc, aliases, is_disposed, runner, spawn_pc, user,
                 scanned, to_kill, in_time, dispatcher>>

\* stop_dispatchers: each dispose joins the thread, unless it is its own
Joined(c, d) ==
  CalledOn[c] = d \/ (run_pc[d] = "idle" /\ disp_pc[d] \in {"idle", "dead"})

StopDispatchers(c) ==
  /\ \A d \in stopped : Joined(c, d)
  /\ \/ \E d \in Dispatchers \ stopped :
          stopped' = stopped \cup {d} /\ CloseStep(c, "stop", "stop")
     \/ stopped = Dispatchers /\ CloseStep(c, "stop", "done") /\ UNCHANGED stopped
  /\ UNCHANGED <<generation, owner, alloc, aliases, is_disposed, runner, spawn_pc, user,
                 scanned, to_kill, in_time, disp_pc, current, execution>>

-----------------------------------------------------------------------------
Spawn(a) ==
  AliasRead(a) \/ Reserve(a) \/ ReservePanics(a) \/ AliasWrite(a) \/ Commit(a)

Use(u) ==
  CheckGeneration(u) \/ CloneOwner(u) \/ ApplyKill(u) \/ ApplyPost(u) \/ Enqueue(u)

Run(d) == Execute(d) \/ Receive(d) \/ Unschedule(d) \/ Peek(d)

FinalizeKill(d) == Finalize(d) \/ RemoveGeneration(d) \/ RemoveOwner(d) \/ RemoveAlias(d)

Dispatch(d) == Run(d) \/ FinalizeKill(d)

Close(c) == SnapshotLive(c) \/ KillSnapshot(c) \/ WaitLive(c) \/ StopDispatchers(c)

Next ==
  \/ \E a \in Actors : ThrowIfDisposed(a) \/ Spawn(a) \/ Resume(a)
  \/ \E u \in Users : \/ Use(u)
                      \/ \E a \in Actors : UseSpawned(u, a)
                      \/ \E al \in DOMAIN alias_to_handle : TryGetActorRefByAlias(u, al)
  \/ \E d \in Dispatchers : Dispatch(d)
  \/ \E c \in Closers : BeginShutdown(c) \/ Close(c) \/ TimedOut(c)

Spec == Init /\ [][Next]_vars

\* Threads go on with what they started and dispatchers execute what is
\* scheduled; nobody has to spawn, use a handle or begin a shutdown, and no
\* receive has to become ready.
Fairness ==
  /\ \A a \in Actors : WF_vars(Spawn(a))
  /\ \A u \in Users : WF_vars(Use(u))
  /\ \A d \in Dispatchers : WF_vars(Dispatch(d))
  /\ \A c \in Closers : WF_vars(Close(c))

FairSpec == Spec /\ Fairness

-----------------------------------------------------------------------------
(* Properties *)

\* the actors reserve has returned a handle for, and those that still hold a slot
Born(a) == spawn_pc[a] \in {"alias_write", "commit", "done", "leaked"}
Holding == {a \in Actors : Born(a) /\ (spawn_pc[a] = "done" => owner[handle[a].index] = a)}

\* Every slot below next_unused is on the free list once or held by one actor,
\* never both, and live counts the held ones, however reserve, commit, remove
\* and failing spawns interleave.
SlotsAccounted ==
  /\ live = Cardinality(Holding)
  /\ \A i \in Slots :
       Cardinality({k \in DOMAIN free : free[k] = i})
         + Cardinality({a \in Holding : handle[a].index = i}) = IF i < next_unused THEN 1 ELSE 0

\* A slot is reused under another generation: no two actors have one handle.
HandlesUnique == \A a, b \in Actors : (Born(a) /\ Born(b) /\ handle[a] = handle[b]) => a = b

\* A post or a kill reaches the actor its handle was made for, never one that
\* has taken over the slot while the call was under way.
HandleReachesOwnActor ==
  \A u \in Users : found[u] # Nobody => handle[found[u]] = held[u]

\* finalize_kill of actor a has got past the removal of its name
NameRemoved(a) ==
  /\ lifecycle[a] = "stopped"
  /\ \A d \in Dispatchers : current[d] = a => disp_pc[d] = "idle"

\* A name leads to the actor that was spawned under it until finalize_kill
\* removes it: no other spawn takes the name over, and no other actor's
\* finalization removes it.
AliasFindsActor ==
  \A a \in Actors :
    (HasAlias(a) /\ spawn_pc[a] \in {"commit", "done"} /\ ~ NameRemoved(a)) =>
      /\ AliasOf[a] \in DOMAIN alias_to_handle
      /\ alias_to_handle[AliasOf[a]] = handle[a]

\* No dispatcher is stopped before every actor that was spawned when shutdown
\* began has been finalized and removed, whichever of several calls of dispose
\* and shutdown_timeout stops it.
ShutdownFinalizesActors ==
  stopped # {} =>
    \A a \in in_time : lifecycle[a] = "stopped" /\ owner[handle[a].index] # a

\* something outside the shutdown has gone wrong: a spawn lost its slot, came
\* too late for the snapshot, or a poisoned lock or on_kill ended a dispatcher
Disturbed ==
  \/ \E a \in Actors : spawn_pc[a] = "leaked" \/ (Born(a) /\ a \notin in_time)
  \/ \E d \in Dispatchers : disp_pc[d] = "dead"

\* an actor waits for all actors to be finalized, itself included
SelfWait == \E c \in Closers : CalledOn[c] # Nobody /\ close_pc[c] = "wait"

\* a kill that execute missed: the actor is left for good, unless a post that
\* saw it running schedules it
KillLost(a) == lifecycle[a] = "killing" /\ ~ is_scheduled[a]

Waiting == {c \in Closers : close_pc[c] = "wait"}

\* Every call of dispose gets past its wait for the actors, which it does once,
\* however their kills race the execution of mail, other kills and posts: unless
\* it is disturbed from outside, an actor keeps waiting for itself, a receive
\* stays pending for ever or a kill is lost for ever.
ShutdownCompletes ==
  \/ Waiting # {} ~> (Waiting = {} \/ Disturbed)
  \/ []<>SelfWait
  \/ \E a \in Actors : <>[](a \in suspended) \/ <>[]KillLost(a)
=============================================================================
