--------------------------- MODULE ActorRunnerInv ---------------------------
(***************************************************************************)
(* The safety invariants of one actor's runner, for any posters, killers,  *)
(* wakers, mails and mailbox capacity, as long as no waker of the actor    *)
(* runs on the thread of a dispatcher other than its own (WokenAtHome).    *)
(* Without that condition they do not hold: two dispatchers may then       *)
(* execute the runner at the same time.                                    *)
(*                                                                         *)
(* RunnerInv is inductive.  It says where the owner's thread may be while  *)
(* a receive is pending and after the actor was stopped, and for every     *)
(* mark that makes a caller go away without scheduling anything            *)
(* (is_scheduled, is_poll_scheduled) which step to come the mark stands    *)
(* for.  This module proves the parts about types, the pending receive     *)
(* and the end of the actor; ActorRunnerProofs proves the rest.            *)
(***************************************************************************)
EXTENDS ActorRunner, TLAPS

\* The wakers of the actor run on its own dispatcher or outside of dispatchers.
WokenAtHome == \A w \in Wakers : Home[w] \in {Owner, NoDispatcher}

PosterLabels == {"idle", "post_claim", "post_ready", "post_load", "post_swap", "post_push"}
KillerLabels == {"idle", "kill_swap", "kill_push"}
WakerLabels == {"idle", "wake_load", "wake_mark", "wake_push"}

\* where the owner's thread is when the future of a receive has been polled to
\* its end, and when it kills the actor after a panic
PolledLabels == {"ready_active", "ready_poll", "ready_push", "failed_active", "failed_poll",
                 "reschedule"}
PanicLabels == {"kill_cas", "kill_swap", "kill_push"}
PollLabels == {"arm_active", "arm_poll", "poll_clear", "poll_lock", "poll_check",
               "poll_return"}
EntryLabels == {"idle", "pending_load", "lifecycle_load"}
OwnerLabels == MailboxLabels \cup FinalizeLabels \cup PolledLabels \cup PanicLabels
                 \cup PollLabels \cup EntryLabels

Entry == [item : Items, ready : BOOLEAN]

\* Every thread is where its code may be; only the owner executes the runner.
PcOK ==
  /\ pc \in [Threads -> PosterLabels \cup KillerLabels \cup WakerLabels \cup OwnerLabels]
  /\ \A p \in Posters : pc[p] \in PosterLabels
  /\ \A k \in Killers : pc[k] \in KillerLabels
  /\ \A w \in Wakers : pc[w] \in WakerLabels
  /\ pc[Owner] \in OwnerLabels
  /\ \A d \in Dispatchers \ {Owner} : pc[d] = "idle"

\* Every variable has its type; no dispatcher but the owner has the runner in
\* its queue or is left as the one to wake it on.
TypeOK ==
  /\ lifecycle_state \in {"running", "killing", "stopped"}
  /\ is_scheduled \in BOOLEAN /\ is_active \in BOOLEAN /\ is_poll_scheduled \in BOOLEAN
  /\ slot \in BOOLEAN /\ slot_lock \in {Owner, NoDispatcher}
  /\ mailbox \in Seq(Entry)
  /\ queue \in [Dispatchers -> Nat]
  /\ \A d \in Dispatchers \ {Owner} : queue[d] = 0
  /\ fired \subseteq Wakers
  /\ registered \in [Wakers -> {Owner, NoDispatcher}]
  /\ PcOK
  /\ item \in [Posters \cup Dispatchers -> Items \cup {NoItem}]
  /\ \A p \in Posters : pc[p] \in {"post_claim", "post_ready"} => item[p] \in Items
  /\ target \in [Wakers -> {Owner}]
  /\ caller \in [Dispatchers -> {"pending", "loop"}]
  /\ unsent \subseteq Items
  /\ killed \in Nat

\* The future, the flag that announces it and its mutex, against where the
\* owner's thread is
PendingInv ==
  /\ slot => pc[Owner] \in PollLabels \cup {"idle", "pending_load"}
  /\ pc[Owner] \in PollLabels => slot
  /\ slot => is_active \/ pc[Owner] = "arm_active"
  /\ is_active => slot \/ pc[Owner] \in {"ready_active", "failed_active"}
  /\ slot_lock = Owner <=> pc[Owner] \in {"poll_check", "poll_return"}

\* finalize_kill is entered once, and nothing of the actor runs after it.
KillInv ==
  /\ pc[Owner] = "fin_swap" => lifecycle_state = "killing"
  /\ pc[Owner] \in FinalizeLabels \ {"fin_swap"} => lifecycle_state = "stopped" /\ killed = 0
  /\ lifecycle_state = "stopped" =>
       /\ ~ slot
       /\ \/ pc[Owner] \in FinalizeLabels \ {"fin_swap"}
          \/ pc[Owner] \in EntryLabels /\ killed = 1
  /\ lifecycle_state # "stopped" => killed = 0

\* A queue entry of the runner, now or soon: execute will begin again.
EntryToCome ==
  \/ queue[Owner] > 0 \/ pc[Owner] = "pending_load"
  \/ \E w \in Wakers : pc[w] = "wake_push"

\* While a receive is pending:
\* an event that has not happened has a waker left behind once the future has
\* been polled; a mark that refuses wakes stands for a poll that will clear it;
\* and when all events have happened a poll is to come.
WakeInv ==
  slot =>
    /\ pc[Owner] \in {"poll_return", "idle", "pending_load"} =>
         \A w \in Wakers \ fired : registered[w] = Owner
    /\ is_poll_scheduled =>
         EntryToCome \/ pc[Owner] \in {"arm_active", "arm_poll", "poll_clear"}
    /\ \/ fired # Wakers \/ EntryToCome
       \/ pc[Owner] \in PollLabels \ {"poll_return"}
       \/ \E w \in Wakers : pc[w] \in {"wake_load", "wake_mark"}

\* where execute has begun and not yet given up its right to the mailbox
RunLabels == OwnerLabels \ ((FinalizeLabels \ {"fin_swap"}) \cup {"idle", "peek", "exit_swap"})

\* The mailbox will be looked at, after the pending receive if there is one.
RunToCome ==
  \/ slot \/ lifecycle_state = "stopped" \/ queue[Owner] > 0 \/ pc[Owner] \in RunLabels
  \/ \E p \in Posters : pc[p] = "post_push"
  \/ \E k \in Killers : pc[k] = "kill_push"

HeadReady == mailbox # << >> /\ mailbox[1].ready

\* is_scheduled stands for a look at the mailbox, and a mail that can be taken
\* is going to be seen: by that look, by the poster that has not read
\* is_scheduled yet, or by the last look of the execution that is ending.
ScheduleInv ==
  /\ is_scheduled => RunToCome
  /\ HeadReady => \/ RunToCome \/ pc[Owner] \in {"peek", "exit_swap"}
                  \/ \E p \in Posters : pc[p] \in {"post_load", "post_swap"}

\* Each mail is in one place, and one that is not ready has a poster that is
\* about to make it ready.
MailInv ==
  /\ \A k \in 1 .. Len(mailbox) :
       /\ mailbox[k].item \notin unsent
       /\ ~ mailbox[k].ready =>
            \E p \in Posters : pc[p] = "post_ready" /\ item[p] = mailbox[k].item
       /\ \A l \in 1 .. Len(mailbox) : mailbox[k].item = mailbox[l].item => k = l
  /\ \A p \in Posters : pc[p] = "post_claim" =>
       /\ item[p] \notin unsent
       /\ \A k \in 1 .. Len(mailbox) : mailbox[k].item # item[p]
       /\ \A q \in Posters : pc[q] = "post_claim" /\ item[q] = item[p] => p = q

RunnerInv == TypeOK /\ PendingInv /\ KillInv /\ WakeInv /\ ScheduleInv /\ MailInv

-----------------------------------------------------------------------------
\* The four kinds of threads are different threads.
LEMMA Members ==
  /\ Owner \in Dispatchers /\ Owner \in Threads /\ Owner # NoDispatcher
  /\ Dispatchers \subseteq Threads
  /\ \A p \in Posters : p \in Threads /\ p # Owner /\ p \notin Killers /\ p \notin Wakers
                          /\ p \notin Dispatchers
  /\ \A k \in Killers : k \in Threads /\ k # Owner /\ k \notin Wakers /\ k \notin Dispatchers
  /\ \A w \in Wakers : w \in Threads /\ w # Owner /\ w \notin Dispatchers
  /\ Owner \notin Killers
BY RunnerAssumption DEF Threads

\* Only the owner executes the runner.
LEMMA OwnerOnly ==
  ASSUME TypeOK, NEW d \in Dispatchers, Running(d) \/ PollPanics(d)
  PROVE  d = Owner
<1> SUFFICES ASSUME d # Owner PROVE FALSE
  OBVIOUS
<1>1. pc[d] = "idle" /\ ~ (queue[d] > 0) /\ d \notin Killers
  BY SMTT(30), Members, RunnerAssumption DEF TypeOK, PcOK
<1>2. ~ (PollClear(d) \/ PollLock(d) \/ PollPending(d) \/ PollReady(d) \/ PollReturn(d)
           \/ PollPanics(d) \/ PollEnds(d) \/ Execute(d) \/ PendingLoad(d))
  BY ZenonT(30), <1>1 DEF PollClear, PollLock, PollPending, PollReady, PollReturn, PollPanics,
                          PollEnds, Execute, PendingLoad, PollFinished, StoreActive,
                          StorePollIdle, ScheduleSelf, Step
<1>3. ~ (LifecycleLoad(d) \/ Dequeue(d) \/ RunningLoad(d) \/ ReceiveReturns(d) \/ Arm(d)
           \/ KillCas(d) \/ KillGoesOn(d))
  BY ZenonT(30), <1>1 DEF LifecycleLoad, Dequeue, RunningLoad, ReceiveReturns, Arm, ArmSlot,
                          KillCas, KillGoesOn, KillSwap, KillPush, StoreActive, StorePollIdle,
                          Step
<1>4. ~ (ExitLoad(d) \/ Unschedule(d) \/ PeekAgain(d) \/ ExitSwap(d)
           \/ ScheduleSelf(d, "exit_push") \/ FinalizeKill(d))
  BY ZenonT(30), <1>1 DEF ExitLoad, Unschedule, PeekAgain, ExitSwap, ScheduleSelf,
                          FinalizeKill, FinSwap, FinDrain, FinSlot, OnKill, StoreActive,
                          StorePollIdle, Step
<1> QED
  BY <1>2, <1>3, <1>4 DEF Running

\* Nothing is pending or scheduled at first.
LEMMA InitHolds == Init => RunnerInv
<1> SUFFICES ASSUME Init PROVE RunnerInv
  OBVIOUS
<1> USE Members DEF Init, Box!Init
<1>1. PcOK
  BY ZenonT(30), RunnerAssumption
     DEF PcOK, PosterLabels, KillerLabels, WakerLabels, OwnerLabels, EntryLabels
<1>2. mailbox \in Seq(Entry)
  OBVIOUS
<1>3. TypeOK
  BY ZenonT(30), <1>1, <1>2, RunnerAssumption DEF TypeOK
<1>4. PendingInv /\ KillInv
  BY ZenonT(30) DEF PendingInv, KillInv, PollLabels, FinalizeLabels, EntryLabels
<1>5. WakeInv /\ ScheduleInv /\ MailInv
  BY SMTT(30) DEF WakeInv, ScheduleInv, MailInv, HeadReady
<1> QED
  BY <1>3, <1>4, <1>5 DEF RunnerInv

-----------------------------------------------------------------------------
(* What a step does to pc *)

\* A step moves one thread.
LEMMA Moved ==
  ASSUME PcOK, NEW t \in Threads, NEW from, NEW to, Step(t, from, to)
  PROVE  /\ pc[t] = from /\ pc'[t] = to
         /\ \A u \in Threads : u # t => pc'[u] = pc[u]
BY DEF PcOK, Step

\* A poster keeps to its labels,
LEMMA PosterMoves ==
  ASSUME PcOK, NEW p \in Posters, NEW from, NEW to \in PosterLabels, Step(p, from, to)
  PROVE  PcOK'
BY Members DEF PcOK, Step

\* and so do a killer,
LEMMA KillerMoves ==
  ASSUME PcOK, NEW k \in Killers, NEW from, NEW to \in KillerLabels, Step(k, from, to)
  PROVE  PcOK'
BY Members DEF PcOK, Step

\* a waker
LEMMA WakerMoves ==
  ASSUME PcOK, NEW w \in Wakers, NEW from, NEW to \in WakerLabels, Step(w, from, to)
  PROVE  PcOK'
BY Members DEF PcOK, Step

\* and the owner.
LEMMA OwnerMoves ==
  ASSUME PcOK, NEW from, NEW to \in OwnerLabels, Step(Owner, from, to)
  PROVE  PcOK'
BY Members DEF PcOK, Step

-----------------------------------------------------------------------------
(* The types *)

\* Taking the first mail out of the mailbox,
LEMMA TakeMail ==
  ASSUME TypeOK, Box!Take
  PROVE  /\ mailbox' \in Seq(Entry) /\ mailbox[1].item \in Items
         /\ Len(mailbox') = Len(mailbox) - 1 /\ Len(mailbox) \in Nat \ {0}
         /\ \A k \in 1 .. Len(mailbox') : mailbox'[k] = mailbox[k + 1]
<1>1. mailbox \in Seq(Entry) /\ mailbox # << >> /\ mailbox' = Tail(mailbox)
  BY ZenonT(30) DEF TypeOK, Box!Take, Box!HeadReady
<1>2. mailbox[1] \in Entry
  BY <1>1
<1>3. mailbox[1].item \in Items
  BY <1>2 DEF Entry
<1> QED
  BY <1>1, <1>3

\* claiming a place for one
LEMMA ClaimMail ==
  ASSUME TypeOK, NEW x \in Items, Box!Claim(x)
  PROVE  /\ mailbox' \in Seq(Entry) /\ Len(mailbox') = Len(mailbox) + 1 /\ Len(mailbox) \in Nat
         /\ mailbox'[Len(mailbox')].item = x /\ ~ mailbox'[Len(mailbox')].ready
         /\ \A k \in 1 .. Len(mailbox) : mailbox'[k] = mailbox[k]
<1>1. [item |-> x, ready |-> FALSE] \in Entry
  BY DEF Entry
<1>2. mailbox \in Seq(Entry) /\ mailbox' = Append(mailbox, [item |-> x, ready |-> FALSE])
  BY ZenonT(30) DEF TypeOK, Box!Claim, Box!Claimed
<1> QED
  BY <1>1, <1>2

\* and making it ready
LEMMA ReadyMail ==
  ASSUME TypeOK, NEW k \in DOMAIN mailbox, Box!MakeReady(k)
  PROVE  /\ mailbox' \in Seq(Entry) /\ Len(mailbox') = Len(mailbox) /\ Len(mailbox) \in Nat
         /\ k \in 1 .. Len(mailbox) /\ mailbox'[k].ready
         /\ \A j \in 1 .. Len(mailbox) : mailbox'[j].item = mailbox[j].item
         /\ \A j \in 1 .. Len(mailbox) : j # k => mailbox'[j] = mailbox[j]
<1>1. /\ mailbox \in Seq(Entry) /\ k \in 1 .. Len(mailbox) /\ Len(mailbox) \in Nat
      /\ mailbox' = [mailbox EXCEPT ![k] = [item |-> mailbox[k].item, ready |-> TRUE]]
  BY SMTT(30) DEF TypeOK, Box!MakeReady, Box!MadeReady
<1>2. mailbox[k] \in Entry
  BY <1>1
<1>3. [item |-> mailbox[k].item, ready |-> TRUE] \in Entry
  BY <1>2 DEF Entry
<1>4. mailbox' \in Seq(Entry) /\ Len(mailbox') = Len(mailbox)
  BY <1>1, <1>3
<1> QED
  BY <1>1, <1>4

\* The owner's queue gets one more entry.
LEMMA Scheduled ==
  ASSUME TypeOK, Schedule(Owner)
  PROVE  /\ queue' \in [Dispatchers -> Nat] /\ queue'[Owner] > 0
         /\ \A d \in Dispatchers \ {Owner} : queue'[d] = 0
BY SMTT(30), Members DEF TypeOK, Schedule

\* The posters keep the types.
LEMMA PosterTypes ==
  ASSUME TypeOK, NEW p \in Posters, Post(p) \/ \E x \in Items : PostCheck(p, x)
  PROVE  TypeOK'
<1> USE Members
<1>0. PcOK
  BY DEF TypeOK
<1>1. PcOK'
  BY ZenonT(30), <1>0, PosterMoves DEF Post, PostCheck, PostClaim, PostReady, PostLoad,
                                       PostSwap, PostPush, PosterLabels
<1>2. ASSUME NEW x \in Items, PostCheck(p, x) PROVE TypeOK'
  BY SMTT(30), <1>1, <1>2 DEF TypeOK, PostCheck, Step, driver, mail, events
<1>3. CASE PostClaim(p)
  <2>1. mailbox' \in Seq(Entry)
    BY ZenonT(30), <1>3, ClaimMail DEF TypeOK, PostClaim, mail, Step
  <2>2. \A q \in Posters : pc'[q] \in {"post_claim", "post_ready"} => item[q] \in Items
    BY ZenonT(30), <1>0, <1>3 DEF TypeOK, PostClaim, PcOK, Step
  <2> QED
    BY ZenonT(30), <1>1, <1>3, <2>1, <2>2 DEF TypeOK, PostClaim, driver, events, locals, history
<1>4. CASE PostReady(p)
  <2>1. mailbox' \in Seq(Entry)
    BY <1>4, ReadyMail DEF PostReady
  <2>2. \A q \in Posters : pc'[q] \in {"post_claim", "post_ready"} => item[q] \in Items
    BY ZenonT(30), <1>0, <1>4 DEF TypeOK, PostReady, PcOK, Step
  <2> QED
    BY ZenonT(30), <1>1, <1>4, <2>1, <2>2 DEF TypeOK, PostReady, driver, events, locals, history
<1>5. CASE PostLoad(p)
  BY ZenonT(30), <1>1, <1>5 DEF TypeOK, PcOK, PostLoad, Step, driver, mail, events, locals,
                                history
<1>6. CASE PostSwap(p)
  BY ZenonT(30), <1>1, <1>6 DEF TypeOK, PcOK, PostSwap, Step, driver, mail, events, locals,
                                history
<1>7. CASE PostPush(p)
  <2>1. /\ queue' \in [Dispatchers -> Nat]
        /\ \A d \in Dispatchers \ {Owner} : queue'[d] = 0
    BY <1>7, Scheduled DEF PostPush
  <2> QED
    BY ZenonT(30), <1>1, <1>7, <2>1 DEF TypeOK, PcOK, PostPush, Step, driver, mail, events,
                                        locals, history
<1> QED
  BY <1>2, <1>3, <1>4, <1>5, <1>6, <1>7 DEF Post

\* kill, called by a killer or by the owner after a panic
LEMMA KillTypes ==
  ASSUME TypeOK, NEW t \in Killers \cup {Owner}, KillCas(t) \/ KillGoesOn(t)
  PROVE  TypeOK'
<1> USE Members DEF KillGoesOn
<1>0. PcOK /\ t \in Threads
  BY DEF TypeOK
<1>1. PcOK'
  <2>1. CASE t \in Killers
    BY ZenonT(30), <1>0, <2>1, KillerMoves DEF KillCas, KillSwap, KillPush, AfterKill,
                                               KillerLabels
  <2>2. CASE t = Owner
    <3>1. AfterKill(t) \in {"reschedule", "exit_load"}
      BY <2>2 DEF AfterKill
    <3> QED
      BY ZenonT(30), <1>0, <2>2, <3>1, OwnerMoves DEF KillCas, KillSwap, KillPush, OwnerLabels,
                                                      PolledLabels, MailboxLabels, PanicLabels
  <2> QED
    BY <2>1, <2>2
<1>2. \A p \in Posters : pc'[p] = pc[p]
  BY ZenonT(30), <1>0, Moved DEF KillCas, KillSwap, KillPush
<1>3. CASE KillCas(t)
  BY ZenonT(30), <1>1, <1>2, <1>3 DEF TypeOK, KillCas, driver, mail, events, locals, history
<1>4. CASE KillSwap(t)
  BY ZenonT(30), <1>1, <1>2, <1>4 DEF TypeOK, KillSwap, driver, mail, events, locals
<1>5. CASE KillPush(t)
  <2>1. /\ queue' \in [Dispatchers -> Nat]
        /\ \A d \in Dispatchers \ {Owner} : queue'[d] = 0
    BY <1>5, Scheduled DEF KillPush
  <2> QED
    BY ZenonT(30), <1>1, <1>2, <1>5, <2>1 DEF TypeOK, KillPush, driver, mail, events, locals,
                                              history
<1> QED
  BY <1>3, <1>4, <1>5

\* A waker that does not run on another dispatcher's thread schedules the owner.
LEMMA WakerTypes ==
  ASSUME WokenAtHome, TypeOK, NEW w \in Wakers, Fire(w) \/ Wake(w)
  PROVE  TypeOK'
<1> USE Members DEF Wake
<1>0. PcOK
  BY DEF TypeOK
<1>1. PcOK'
  BY ZenonT(30), <1>0, WakerMoves DEF Fire, WakeLoad, WakeMark, WakePush, WakerLabels
<1>2. \A p \in Posters : pc'[p] = pc[p]
  BY ZenonT(30), <1>0, Moved DEF Fire, WakeLoad, WakeMark, WakePush
<1>3. CASE Fire(w)
  <2>1. target' \in [Wakers -> {Owner}]
    BY ZenonT(30), <1>3 DEF TypeOK, Fire, WokenAtHome
  <2>2. registered' \in [Wakers -> {Owner, NoDispatcher}] /\ fired' \subseteq Wakers
    BY <1>3 DEF TypeOK, Fire
  <2> QED
    BY ZenonT(30), <1>1, <1>2, <1>3, <2>1, <2>2 DEF TypeOK, Fire, driver, mail, history
<1>4. CASE WakeLoad(w)
  BY ZenonT(30), <1>1, <1>2, <1>4 DEF TypeOK, WakeLoad, driver, mail, events, locals, history
<1>5. CASE WakeMark(w)
  BY ZenonT(30), <1>1, <1>2, <1>5 DEF TypeOK, WakeMark, mail, events, locals, history
<1>6. CASE WakePush(w)
  <2>1. target[w] = Owner
    BY DEF TypeOK
  <2>2. /\ queue' \in [Dispatchers -> Nat]
        /\ \A d \in Dispatchers \ {Owner} : queue'[d] = 0
    BY <1>6, <2>1, Scheduled DEF WakePush
  <2> QED
    BY ZenonT(30), <1>1, <1>2, <1>6, <2>2 DEF TypeOK, WakePush, driver, mail, events, locals,
                                              history
<1> QED
  BY <1>3, <1>4, <1>5, <1>6

\* Every step of the owner but those of kill is one of these.
OwnerSteps ==
  \/ Execute(Owner) \/ PendingLoad(Owner) \/ PollClear(Owner) \/ PollLock(Owner)
  \/ PollPending(Owner) \/ PollReady(Owner) \/ PollPanics(Owner) \/ PollReturn(Owner)
  \/ PollEnds(Owner) \/ LifecycleLoad(Owner) \/ Dequeue(Owner) \/ RunningLoad(Owner)
  \/ ReceiveReturns(Owner) \/ Arm(Owner) \/ ExitLoad(Owner) \/ Unschedule(Owner)
  \/ PeekAgain(Owner) \/ ExitSwap(Owner) \/ ScheduleSelf(Owner, "exit_push")
  \/ FinalizeKill(Owner)

\* The owner keeps to its labels and moves nobody else.
LEMMA OwnerPc ==
  ASSUME TypeOK, OwnerSteps
  PROVE  PcOK' /\ \A t \in Threads : t # Owner => pc'[t] = pc[t]
<1> USE Members, OwnerMoves, Moved
    DEF OwnerLabels, MailboxLabels, FinalizeLabels, PolledLabels, PanicLabels, PollLabels,
        EntryLabels
<1>0. PcOK
  BY DEF TypeOK
<1>1. CASE Execute(Owner) \/ PendingLoad(Owner) \/ PollClear(Owner) \/ PollLock(Owner)
  BY ZenonT(30), <1>0, <1>1 DEF Execute, PendingLoad, PollClear, PollLock
<1>2. CASE PollPending(Owner) \/ PollReady(Owner) \/ PollPanics(Owner) \/ PollReturn(Owner)
  BY ZenonT(30), <1>0, <1>2 DEF PollPending, PollReady, PollPanics, PollReturn, PollFinished
<1>3. CASE PollEnds(Owner)
  BY ZenonT(30), <1>0, <1>3 DEF PollEnds, StoreActive, StorePollIdle, ScheduleSelf
<1>4. CASE LifecycleLoad(Owner) \/ Dequeue(Owner) \/ RunningLoad(Owner)
  BY ZenonT(30), <1>0, <1>4 DEF LifecycleLoad, Dequeue, RunningLoad
<1>5. CASE ReceiveReturns(Owner) \/ Arm(Owner)
  BY ZenonT(30), <1>0, <1>5 DEF ReceiveReturns, Arm, ArmSlot, StoreActive, StorePollIdle
<1>6. CASE ExitLoad(Owner) \/ Unschedule(Owner) \/ PeekAgain(Owner) \/ ExitSwap(Owner)
             \/ ScheduleSelf(Owner, "exit_push")
  BY ZenonT(30), <1>0, <1>6 DEF ExitLoad, Unschedule, PeekAgain, ExitSwap, ScheduleSelf
<1>7. CASE FinalizeKill(Owner)
  BY ZenonT(30), <1>0, <1>7 DEF FinalizeKill, FinSwap, FinDrain, FinSlot, OnKill, StoreActive,
                                StorePollIdle
<1> QED
  BY ZenonT(30), <1>1, <1>2, <1>3, <1>4, <1>5, <1>6, <1>7 DEF OwnerSteps

\* The owner keeps the types.
LEMMA OwnerTypes ==
  ASSUME TypeOK, OwnerSteps
  PROVE  TypeOK'
<1> USE Members
<1>1. PcOK' /\ \A p \in Posters : pc'[p] = pc[p]
  BY OwnerPc
<1>2. CASE Execute(Owner)
  <2>1. /\ queue' \in [Dispatchers -> Nat]
        /\ \A d \in Dispatchers \ {Owner} : queue'[d] = 0
    BY SMTT(30), <1>2 DEF TypeOK, Execute
  <2> QED
    BY ZenonT(30), <1>1, <1>2, <2>1 DEF TypeOK, Execute, driver, mail, events, locals, history
<1>3. CASE PendingLoad(Owner) \/ PollClear(Owner) \/ PollLock(Owner)
  BY ZenonT(30), <1>1, <1>3 DEF TypeOK, PendingLoad, PollClear, PollLock, driver, mail, events,
                                locals, history
<1>4. CASE PollPending(Owner)
  BY ZenonT(30), <1>1, <1>4 DEF TypeOK, PollPending, driver, mail, locals, history
<1>5. CASE PollReady(Owner) \/ PollPanics(Owner) \/ PollReturn(Owner)
  BY ZenonT(30), <1>1, <1>5 DEF TypeOK, PollReady, PollPanics, PollReturn, PollFinished, mail,
                                events, locals, history
<1>6. ASSUME NEW from, NEW to, NEW b \in BOOLEAN,
             StoreActive(Owner, from, to, b) \/ StorePollIdle(Owner, from, to)
      PROVE  TypeOK'
  BY ZenonT(30), <1>1, <1>6 DEF TypeOK, StoreActive, StorePollIdle, mail, events, locals,
                                history
<1>7. ASSUME NEW from, ScheduleSelf(Owner, from) PROVE TypeOK'
  <2>1. /\ queue' \in [Dispatchers -> Nat]
        /\ \A d \in Dispatchers \ {Owner} : queue'[d] = 0
    BY <1>7, Scheduled DEF ScheduleSelf
  <2> QED
    BY ZenonT(30), <1>1, <1>7, <2>1 DEF TypeOK, ScheduleSelf, driver, mail, events, locals,
                                        history
<1>8. CASE PollEnds(Owner)
  BY ZenonT(30), <1>6, <1>7, <1>8 DEF PollEnds
<1>9. CASE LifecycleLoad(Owner) \/ RunningLoad(Owner) \/ ReceiveReturns(Owner)
  BY ZenonT(30), <1>1, <1>9 DEF TypeOK, LifecycleLoad, RunningLoad, ReceiveReturns, driver,
                                mail, events, locals, history
<1>10. CASE Dequeue(Owner)
  <2>1. mailbox' \in Seq(Entry) /\ item' \in [Posters \cup Dispatchers -> Items \cup {NoItem}]
    BY ZenonT(30), <1>10, TakeMail DEF TypeOK, Dequeue, mail
  <2>2. \A p \in Posters : item'[p] = item[p]
    BY <1>10 DEF TypeOK, Dequeue
  <2> QED
    BY ZenonT(30), <1>1, <1>10, <2>1, <2>2 DEF TypeOK, Dequeue, driver, events, history
<1>11. CASE ArmSlot(Owner)
  BY ZenonT(30), <1>1, <1>11 DEF TypeOK, ArmSlot, mail, locals, history
<1>12. CASE Arm(Owner)
  BY ZenonT(30), <1>6, <1>11, <1>12 DEF Arm
<1>13. CASE ExitLoad(Owner) \/ Unschedule(Owner) \/ PeekAgain(Owner) \/ ExitSwap(Owner)
  BY ZenonT(30), <1>1, <1>13 DEF TypeOK, ExitLoad, Unschedule, PeekAgain, ExitSwap, driver,
                                 mail, events, locals, history
<1>14. CASE FinSwap(Owner) \/ FinSlot(Owner)
  BY ZenonT(30), <1>1, <1>14 DEF TypeOK, FinSwap, FinSlot, driver, mail, events, locals, history
<1>15. CASE OnKill(Owner)
  BY SMTT(30), <1>1, <1>15 DEF TypeOK, OnKill, driver, mail, events, locals
<1>16. CASE FinDrain(Owner)
  <2>1. mailbox' \in Seq(Entry)
    BY ZenonT(30), <1>16, TakeMail DEF TypeOK, FinDrain, mail
  <2> QED
    BY ZenonT(30), <1>1, <1>16, <2>1 DEF TypeOK, FinDrain, driver, events, locals, history
<1>17. CASE FinalizeKill(Owner)
  BY ZenonT(30), <1>6, <1>14, <1>16, <1>17, <1>15 DEF FinalizeKill
<1> QED
  BY <1>2, <1>3, <1>4, <1>5, <1>7, <1>8, <1>9, <1>10, <1>12, <1>13, <1>17 DEF OwnerSteps

\* The steps of the system, with the owner for the dispatchers
LEMMA NextCases ==
  ASSUME TypeOK, [Next]_vars
  PROVE  \/ \E p \in Posters : Post(p) \/ \E x \in Items : PostCheck(p, x)
         \/ \E t \in Killers \cup {Owner} : KillCas(t) \/ KillGoesOn(t)
         \/ \E w \in Wakers : Fire(w) \/ Wake(w)
         \/ OwnerSteps
         \/ UNCHANGED vars
<1>1. ASSUME NEW d \in Dispatchers, Running(d) \/ PollPanics(d)
      PROVE  OwnerSteps \/ KillCas(Owner) \/ KillGoesOn(Owner)
  <2>1. d = Owner
    BY <1>1, OwnerOnly
  <2> QED
    BY <1>1, <2>1 DEF Running, OwnerSteps
<1> QED
  BY <1>1 DEF Next

\* TypeOK is inductive for an actor that is woken at home.
LEMMA TypeStep == WokenAtHome /\ TypeOK /\ [Next]_vars => TypeOK'
<1> SUFFICES ASSUME WokenAtHome, TypeOK, [Next]_vars PROVE TypeOK'
  OBVIOUS
<1>1. CASE UNCHANGED vars
  BY ZenonT(30), <1>1 DEF TypeOK, PcOK, vars, driver, mail, events, locals, history
<1> QED
  BY <1>1, NextCases, PosterTypes, KillTypes, WakerTypes, OwnerTypes

-----------------------------------------------------------------------------
(* The pending receive *)

\* The other threads leave alone what the owner alone writes.
LEMMA OthersLeave ==
  ASSUME TypeOK,
         \/ \E p \in Posters : Post(p) \/ \E x \in Items : PostCheck(p, x)
         \/ \E k \in Killers : KillCas(k) \/ KillGoesOn(k)
         \/ \E w \in Wakers : Fire(w) \/ Wake(w)
         \/ UNCHANGED vars
  PROVE  pc'[Owner] = pc[Owner] /\ UNCHANGED <<slot, is_active, slot_lock, killed>>
<1> USE Members, Moved
<1>0. PcOK
  BY DEF TypeOK
<1>1. ASSUME NEW p \in Posters, Post(p) \/ \E x \in Items : PostCheck(p, x)
      PROVE  pc'[Owner] = pc[Owner] /\ UNCHANGED <<slot, is_active, slot_lock, killed>>
  BY ZenonT(30), <1>0, <1>1 DEF Post, PostCheck, PostClaim, PostReady, PostLoad, PostSwap,
                                PostPush, driver, history
<1>2. ASSUME NEW k \in Killers, KillCas(k) \/ KillGoesOn(k)
      PROVE  pc'[Owner] = pc[Owner] /\ UNCHANGED <<slot, is_active, slot_lock, killed>>
  BY ZenonT(30), <1>0, <1>2 DEF KillCas, KillGoesOn, KillSwap, KillPush, driver, history
<1>3. ASSUME NEW w \in Wakers, Fire(w) \/ Wake(w)
      PROVE  pc'[Owner] = pc[Owner] /\ UNCHANGED <<slot, is_active, slot_lock, killed>>
  BY ZenonT(30), <1>0, <1>3 DEF Fire, Wake, WakeLoad, WakeMark, WakePush, driver, history
<1>4. CASE UNCHANGED vars
  BY ZenonT(30), <1>4 DEF vars, driver, history
<1> QED
  BY <1>1, <1>2, <1>3, <1>4

\* The owner's thread is the only one that touches the future and its mutex.
LEMMA PendingStep ==
  ASSUME TypeOK, PendingInv, [Next]_vars
  PROVE  PendingInv'
<1> USE Members, Moved DEF PollLabels
<1>0. PcOK /\ slot \in BOOLEAN /\ is_active \in BOOLEAN
  BY ZenonT(30) DEF TypeOK
<1>1. ASSUME pc'[Owner] = pc[Owner], UNCHANGED <<slot, is_active, slot_lock>>
      PROVE  PendingInv'
  BY <1>1 DEF PendingInv
<1>2. CASE Execute(Owner) \/ PendingLoad(Owner) \/ PollClear(Owner)
  BY SMTT(30), <1>0, <1>2 DEF PendingInv, Execute, PendingLoad, PollClear, driver
<1>3. CASE PollLock(Owner)
  BY <1>0, <1>3 DEF PendingInv, PollLock
<1>4. CASE PollPending(Owner) \/ PollReturn(Owner)
  BY SMTT(30), <1>0, <1>4 DEF PendingInv, PollPending, PollReturn, driver
<1>5. CASE PollReady(Owner) \/ PollPanics(Owner)
  BY SMTT(30), <1>0, <1>5 DEF PendingInv, PollReady, PollPanics, PollFinished
<1>6. CASE PollEnds(Owner)
  BY SMTT(30), <1>0, <1>6 DEF PendingInv, PollEnds, StoreActive, StorePollIdle, ScheduleSelf,
                              driver
<1>7. CASE LifecycleLoad(Owner) \/ Dequeue(Owner) \/ RunningLoad(Owner) \/ ReceiveReturns(Owner)
  BY SMTT(30), <1>0, <1>7 DEF PendingInv, LifecycleLoad, Dequeue, RunningLoad, ReceiveReturns,
                              driver
<1>8. CASE Arm(Owner)
  BY SMTT(30), <1>0, <1>8 DEF PendingInv, Arm, ArmSlot, StoreActive, StorePollIdle
<1>9. CASE ExitLoad(Owner) \/ Unschedule(Owner) \/ PeekAgain(Owner) \/ ExitSwap(Owner)
             \/ ScheduleSelf(Owner, "exit_push")
  BY SMTT(30), <1>0, <1>9 DEF PendingInv, ExitLoad, Unschedule, PeekAgain, ExitSwap,
                              ScheduleSelf, driver
<1>10. CASE FinalizeKill(Owner)
  BY SMTT(30), <1>0, <1>10 DEF PendingInv, FinalizeKill, FinSwap, FinDrain, FinSlot, OnKill,
                               StoreActive, StorePollIdle, driver
<1>11. CASE KillCas(Owner) \/ KillGoesOn(Owner)
  BY SMTT(30), <1>0, <1>11 DEF PendingInv, KillCas, KillGoesOn, KillSwap, KillPush, AfterKill,
                               driver
<1>12. CASE OwnerSteps
  BY ZenonT(30), <1>2, <1>3, <1>4, <1>5, <1>6, <1>7, <1>8, <1>9, <1>10, <1>12 DEF OwnerSteps
<1> QED
  BY ZenonT(30), <1>1, <1>11, <1>12, NextCases, OthersLeave

-----------------------------------------------------------------------------
(* The end of the actor *)

\* The swap of lifecycle_state in finalize_kill succeeds once.
LEMMA KillStep ==
  ASSUME TypeOK, PendingInv, KillInv, [Next]_vars
  PROVE  KillInv'
<1> USE Members, Moved DEF FinalizeLabels, EntryLabels
<1>0. PcOK /\ killed \in Nat /\ lifecycle_state \in {"running", "killing", "stopped"}
  BY DEF TypeOK
<1>1. ASSUME pc'[Owner] = pc[Owner], UNCHANGED <<slot, killed>>,
             \/ UNCHANGED lifecycle_state
             \/ lifecycle_state = "running" /\ lifecycle_state' = "killing"
      PROVE  KillInv'
  BY <1>0, <1>1 DEF KillInv
<1>2. CASE Execute(Owner) \/ PendingLoad(Owner) \/ PollClear(Owner) \/ PollLock(Owner)
             \/ PollPending(Owner) \/ PollReturn(Owner)
  BY SMTT(30), <1>0, <1>2 DEF PendingInv, PollLabels, KillInv, Execute, PendingLoad, PollClear,
                              PollLock, PollPending, PollReturn, driver, history
<1>3. CASE PollReady(Owner) \/ PollPanics(Owner) \/ PollEnds(Owner)
  BY SMTT(30), <1>0, <1>3 DEF KillInv, PollReady, PollPanics, PollFinished, PollEnds,
                              StoreActive, StorePollIdle, ScheduleSelf, driver, history
<1>4. CASE LifecycleLoad(Owner) \/ Dequeue(Owner) \/ RunningLoad(Owner) \/ ReceiveReturns(Owner)
  BY SMTT(30), <1>0, <1>4 DEF KillInv, LifecycleLoad, Dequeue, RunningLoad, ReceiveReturns,
                              driver, history
<1>5. CASE Arm(Owner)
  <2>1. /\ pc[Owner] \in {"arm_slot", "arm_active", "arm_poll"}
        /\ pc'[Owner] \in {"arm_active", "arm_poll", "poll_clear"}
        /\ UNCHANGED <<lifecycle_state, killed>>
    <3>1. CASE ArmSlot(Owner)
      BY <1>0, <3>1 DEF ArmSlot, history
    <3>2. CASE StoreActive(Owner, "arm_active", "arm_poll", TRUE)
      BY <1>0, <3>2 DEF StoreActive, history
    <3>3. CASE StorePollIdle(Owner, "arm_poll", "poll_clear")
      BY <1>0, <3>3 DEF StorePollIdle, history
    <3> QED
      BY ZenonT(30), <1>5, <3>1, <3>2, <3>3 DEF Arm
  <2> QED
    BY <2>1 DEF KillInv
<1>6. CASE ExitLoad(Owner) \/ Unschedule(Owner) \/ PeekAgain(Owner) \/ ExitSwap(Owner)
             \/ ScheduleSelf(Owner, "exit_push")
  <2>1. CASE ExitLoad(Owner)
    BY SMTT(30), <1>0, <2>1 DEF KillInv, ExitLoad, driver, history
  <2>2. CASE Unschedule(Owner) \/ PeekAgain(Owner)
    BY SMTT(30), <1>0, <2>2 DEF KillInv, Unschedule, PeekAgain, driver, history
  <2>3. CASE ExitSwap(Owner) \/ ScheduleSelf(Owner, "exit_push")
    BY SMTT(30), <1>0, <2>3 DEF KillInv, ExitSwap, ScheduleSelf, driver, history
  <2> QED
    BY ZenonT(30), <1>6, <2>1, <2>2, <2>3
<1>7. CASE FinSwap(Owner)
  BY SMTT(30), <1>0, <1>7 DEF PendingInv, PollLabels, KillInv, FinSwap, driver, history
<1>8. CASE FinalizeKill(Owner) /\ ~ FinSwap(Owner)
  <2>1. CASE FinDrain(Owner) \/ FinSlot(Owner)
    BY SMTT(30), <1>0, <2>1 DEF KillInv, FinDrain, FinSlot, driver, history
  <2>2. CASE OnKill(Owner)
    BY SMTT(30), <1>0, <2>2 DEF KillInv, OnKill, driver, history
  <2>3. CASE FinalizeKill(Owner) /\ ~ FinSwap(Owner) /\ ~ FinDrain(Owner) /\ ~ FinSlot(Owner)
               /\ ~ OnKill(Owner)
    BY SMTT(30), <1>0, <2>3 DEF KillInv, FinalizeKill, StoreActive, StorePollIdle, history
  <2> QED
    BY ZenonT(30), <1>8, <2>1, <2>2, <2>3
<1>9. CASE KillCas(Owner) \/ KillGoesOn(Owner)
  <2>1. CASE KillCas(Owner)
    BY SMTT(30), <1>0, <2>1 DEF KillInv, KillCas, AfterKill, driver, history
  <2>2. CASE KillGoesOn(Owner)
    BY SMTT(30), <1>0, <2>2 DEF KillInv, KillGoesOn, KillSwap, KillPush, AfterKill, driver, history
  <2> QED
    BY ZenonT(30), <1>9, <2>1, <2>2
<1>10. CASE OwnerSteps
  BY ZenonT(30), <1>2, <1>3, <1>4, <1>5, <1>6, <1>7, <1>8, <1>10 DEF OwnerSteps
<1>11. \/ \E p \in Posters : Post(p) \/ \E x \in Items : PostCheck(p, x)
       \/ \E k \in Killers : KillCas(k) \/ KillGoesOn(k)
       \/ \E w \in Wakers : Fire(w) \/ Wake(w)
       \/ UNCHANGED vars
       => \/ UNCHANGED lifecycle_state
          \/ lifecycle_state = "running" /\ lifecycle_state' = "killing"
  BY ZenonT(30) DEF Post, PostCheck, PostClaim, PostReady, PostLoad, PostSwap, PostPush,
                    KillCas, KillGoesOn, KillSwap, KillPush, Fire, Wake, WakeLoad, WakeMark,
                    WakePush, vars
<1> QED
  BY ZenonT(30), <1>1, <1>9, <1>10, <1>11, NextCases, OthersLeave

=============================================================================
