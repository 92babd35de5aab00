-------------------------- MODULE ActorRunnerProofs -------------------------
(***************************************************************************)
(* No wake is lost, no mail is stranded: the second half of the proof that *)
(* RunnerInv of ActorRunnerInv is inductive, and what follows from it.     *)
(***************************************************************************)
EXTENDS ActorRunnerInv, TLAPS

-----------------------------------------------------------------------------
(* Each mail is in one place *)

\* Steps that do not post keep MailInv: they leave the mailbox or take its head.
LEMMA MailKept ==
  ASSUME TypeOK, MailInv, UNCHANGED unsent,
         \A p \in Posters : pc'[p] = pc[p] /\ item'[p] = item[p],
         UNCHANGED mailbox \/ Box!Take
  PROVE  MailInv'
<1>1. CASE UNCHANGED mailbox
  BY SMTT(30), <1>1 DEF MailInv
<1>2. CASE Box!Take
  <2>1. /\ Len(mailbox') = Len(mailbox) - 1 /\ Len(mailbox) \in Nat \ {0}
        /\ \A k \in 1 .. Len(mailbox') : mailbox'[k] = mailbox[k + 1]
    BY <1>2, TakeMail
  <2>2. \A k \in 1 .. Len(mailbox') : k + 1 \in 1 .. Len(mailbox) /\ k \in Nat
    BY <2>1
  <2>3. \A k \in 1 .. Len(mailbox') :
          /\ mailbox'[k].item \notin unsent'
          /\ ~ mailbox'[k].ready =>
               \E p \in Posters : pc'[p] = "post_ready" /\ item'[p] = mailbox'[k].item
    <3> TAKE k \in 1 .. Len(mailbox')
    <3>1. k + 1 \in 1 .. Len(mailbox) /\ mailbox'[k] = mailbox[k + 1]
      BY ZenonT(30), <2>1, <2>2
    <3>2. /\ mailbox[k + 1].item \notin unsent
          /\ ~ mailbox[k + 1].ready =>
               \E p \in Posters : pc[p] = "post_ready" /\ item[p] = mailbox[k + 1].item
      BY <3>1 DEF MailInv
    <3> QED
      BY ZenonT(30), <3>1, <3>2
  <2>4. \A k, l \in 1 .. Len(mailbox') : mailbox'[k].item = mailbox'[l].item => k = l
    <3> SUFFICES ASSUME NEW k \in 1 .. Len(mailbox'), NEW l \in 1 .. Len(mailbox'),
                        mailbox'[k].item = mailbox'[l].item
                 PROVE  k = l
      OBVIOUS
    <3>1. k + 1 = l + 1
      BY SMTT(30), <2>1, <2>2 DEF MailInv
    <3> QED
      BY <2>2, <3>1
  <2>5. \A p \in Posters : pc'[p] = "post_claim" =>
          /\ item'[p] \notin unsent'
          /\ \A k \in 1 .. Len(mailbox') : mailbox'[k].item # item'[p]
          /\ \A q \in Posters : pc'[q] = "post_claim" /\ item'[q] = item'[p] => p = q
    <3>1. \A p \in Posters : pc[p] = "post_claim" =>
            /\ item[p] \notin unsent
            /\ \A k \in 1 .. Len(mailbox) : mailbox[k].item # item[p]
            /\ \A q \in Posters : pc[q] = "post_claim" /\ item[q] = item[p] => p = q
      BY ZenonT(30) DEF MailInv
    <3> QED
      BY SMTT(30), <2>1, <2>2, <3>1
  <2> QED
    BY <2>3, <2>4, <2>5 DEF MailInv
<1> QED
  BY ZenonT(30), <1>1, <1>2

\* A poster claims a place for a mail that nobody else has, and makes it ready.
LEMMA PosterMails ==
  ASSUME TypeOK, MailInv, NEW p \in Posters, Post(p) \/ \E x \in Items : PostCheck(p, x)
  PROVE  MailInv'
<1> USE Members, Moved
<1>0. PcOK
  BY ZenonT(30) DEF TypeOK
<1>1. ASSUME NEW x \in Items, PostCheck(p, x) PROVE MailInv'
  <2>1. /\ x \in unsent /\ unsent' = unsent \ {x} /\ item'[p] = x /\ UNCHANGED mailbox
        /\ pc[p] = "idle" /\ pc'[p] \in {"idle", "post_claim"}
        /\ \A q \in Posters : q # p => pc'[q] = pc[q] /\ item'[q] = item[q]
    BY ZenonT(30), <1>0, <1>1 DEF TypeOK, PostCheck, mail
  <2> QED
    BY SMTT(30), <2>1 DEF MailInv
<1>2. CASE PostClaim(p)
  <2>1. /\ pc[p] = "post_claim" /\ UNCHANGED <<item, unsent>> /\ item[p] \in Items
        /\ \A q \in Posters : q # p => pc'[q] = pc[q]
    BY SMTT(30), <1>0, <1>2 DEF TypeOK, PostClaim, locals, history
  <2>2. CASE UNCHANGED mail /\ pc'[p] = "idle"
    BY SMTT(30), <2>1, <2>2 DEF MailInv, mail
  <2>3. CASE Box!Claim(item[p]) /\ pc'[p] = "post_ready"
    <3>1. /\ Len(mailbox') = Len(mailbox) + 1 /\ Len(mailbox) \in Nat
          /\ mailbox'[Len(mailbox')].item = item[p]
          /\ \A k \in 1 .. Len(mailbox) : mailbox'[k] = mailbox[k]
      BY ZenonT(30), <2>1, <2>3, ClaimMail
    <3>2. \A k \in 1 .. Len(mailbox') : k \in 1 .. Len(mailbox) \/ k = Len(mailbox')
      BY <3>1
    <3>3. \A k \in 1 .. Len(mailbox') : mailbox'[k].item \notin unsent
      BY <2>1, <3>1, <3>2 DEF MailInv
    <3>4. \A k \in 1 .. Len(mailbox') : ~ mailbox'[k].ready =>
            \E q \in Posters : pc'[q] = "post_ready" /\ item[q] = mailbox'[k].item
      BY SMTT(30), <2>1, <2>3, <3>1, <3>2 DEF MailInv
    <3>5. \A k, l \in 1 .. Len(mailbox') : mailbox'[k].item = mailbox'[l].item => k = l
      BY SMTT(30), <2>1, <3>1, <3>2 DEF MailInv
    <3>6. \A q \in Posters : pc'[q] = "post_claim" =>
            /\ q # p /\ item[q] \notin unsent
            /\ \A k \in 1 .. Len(mailbox') : mailbox'[k].item # item[q]
            /\ \A r \in Posters : pc'[r] = "post_claim" /\ item[r] = item[q] => q = r
      BY SMTT(30), <2>1, <2>3, <3>1, <3>2 DEF MailInv
    <3> QED
      BY ZenonT(30), <2>1, <3>3, <3>4, <3>5, <3>6 DEF MailInv
  <2> QED
    BY ZenonT(30), <1>0, <1>2, <2>2, <2>3 DEF PostClaim
<1>3. CASE PostReady(p)
  <2>1. /\ pc[p] = "post_ready" /\ pc'[p] = "post_load" /\ UNCHANGED <<item, unsent>>
        /\ \A q \in Posters : q # p => pc'[q] = pc[q]
    BY ZenonT(30), <1>0, <1>3 DEF PostReady, locals, history
  <2>2. PICK k \in DOMAIN mailbox : mailbox[k].item = item[p] /\ Box!MakeReady(k)
    BY ZenonT(30), <1>3 DEF PostReady
  <2>3. /\ Len(mailbox') = Len(mailbox) /\ k \in 1 .. Len(mailbox) /\ mailbox'[k].ready
        /\ \A j \in 1 .. Len(mailbox) : mailbox'[j].item = mailbox[j].item
        /\ \A j \in 1 .. Len(mailbox) : j # k => mailbox'[j] = mailbox[j]
    BY ZenonT(30), <2>2, ReadyMail
  <2>4. ASSUME NEW j \in 1 .. Len(mailbox), ~ mailbox'[j].ready
        PROVE  \E q \in Posters : pc'[q] = "post_ready" /\ item[q] = mailbox'[j].item
    <3>1. j # k /\ ~ mailbox[j].ready
      BY ZenonT(30), <2>3, <2>4
    <3>2. PICK q \in Posters : pc[q] = "post_ready" /\ item[q] = mailbox[j].item
      BY ZenonT(30), <3>1 DEF MailInv
    <3>3. q # p
      BY SMTT(30), <2>2, <2>3, <3>1, <3>2 DEF MailInv
    <3> QED
      BY ZenonT(30), <2>1, <2>3, <3>2, <3>3
  <2> QED
    BY SMTT(30), <2>1, <2>3, <2>4 DEF MailInv
<1>4. CASE PostLoad(p) \/ PostSwap(p) \/ PostPush(p)
  <2>1. /\ pc[p] \notin {"post_claim", "post_ready"} /\ pc'[p] # "post_claim"
        /\ UNCHANGED <<mailbox, item, unsent>>
        /\ \A q \in Posters : q # p => pc'[q] = pc[q]
    <3>1. CASE PostLoad(p)
      BY <1>0, <3>1 DEF PostLoad, mail, locals, history
    <3>2. CASE PostSwap(p)
      BY <1>0, <3>2 DEF PostSwap, mail, locals, history
    <3>3. CASE PostPush(p)
      BY <1>0, <3>3 DEF PostPush, mail, locals, history
    <3> QED
      BY <1>4, <3>1, <3>2, <3>3
  <2> QED
    BY SMTT(30), <2>1 DEF MailInv
<1> QED
  BY <1>1, <1>2, <1>3, <1>4 DEF Post

\* Every step keeps MailInv.
LEMMA MailStep ==
  ASSUME TypeOK, MailInv, [Next]_vars
  PROVE  MailInv'
<1> USE Members, Moved
<1>0. PcOK
  BY DEF TypeOK
<1>1. ASSUME NEW t \in Killers \cup {Owner}, KillCas(t) \/ KillGoesOn(t) PROVE MailInv'
  BY ZenonT(30), <1>0, <1>1, MailKept DEF KillCas, KillGoesOn, KillSwap, KillPush, mail,
                                          locals, history
<1>2. ASSUME NEW w \in Wakers, Fire(w) \/ Wake(w) PROVE MailInv'
  BY ZenonT(30), <1>0, <1>2, MailKept DEF Fire, Wake, WakeLoad, WakeMark, WakePush, mail,
                                          locals, history
<1>3. CASE OwnerSteps
  <2>1. \A p \in Posters : pc'[p] = pc[p]
    BY <1>3, OwnerPc
  <2>2. CASE Dequeue(Owner)
    <3>1. \A p \in Posters : item'[p] = item[p]
      BY <2>2 DEF TypeOK, Dequeue
    <3> QED
      BY ZenonT(30), <2>1, <2>2, <3>1, MailKept DEF Dequeue, mail, history
  <2>3. CASE FinalizeKill(Owner)
    BY ZenonT(30), <2>1, <2>3, MailKept DEF FinalizeKill, FinSwap, FinDrain, FinSlot, OnKill,
                                            StoreActive, StorePollIdle, mail, locals, history
  <2>4. CASE OwnerSteps /\ ~ Dequeue(Owner) /\ ~ FinalizeKill(Owner)
    <3>1. UNCHANGED <<mailbox, item, unsent>>
      BY ZenonT(30), <2>4 DEF OwnerSteps, Execute, PendingLoad, PollClear, PollLock,
                              PollPending, PollReady, PollPanics, PollReturn, PollEnds,
                              PollFinished, LifecycleLoad, RunningLoad, ReceiveReturns, Arm,
                              ArmSlot, ExitLoad, Unschedule, PeekAgain, ExitSwap, ScheduleSelf,
                              StoreActive, StorePollIdle, mail, locals, history
    <3> QED
      BY <2>1, <3>1, MailKept
  <2> QED
    BY ZenonT(30), <1>3, <2>2, <2>3, <2>4
<1>4. CASE UNCHANGED vars
  BY ZenonT(30), <1>4, MailKept DEF vars, mail, locals, history
<1> QED
  BY ZenonT(30), <1>1, <1>2, <1>3, <1>4, NextCases, PosterMails

-----------------------------------------------------------------------------
(* No wake is lost *)

\* Posters and killers never take an entry to come away.
LEMMA WakeKept ==
  ASSUME TypeOK, WakeInv, pc'[Owner] = pc[Owner],
         UNCHANGED <<slot, fired, registered, is_poll_scheduled>>,
         queue[Owner] > 0 => queue'[Owner] > 0,
         \A w \in Wakers : pc'[w] = pc[w]
  PROVE  WakeInv'
BY DEF WakeInv, EntryToCome

\* A waker that goes away leaves a queue entry, or a mark that stands for one.
LEMMA WakerWakes ==
  ASSUME TypeOK, PendingInv, WakeInv, NEW w \in Wakers, Fire(w) \/ Wake(w)
  PROVE  WakeInv'
<1> USE Members, Moved DEF PollLabels
<1>0. PcOK /\ slot \in BOOLEAN
  BY DEF TypeOK
<1>1. SUFFICES ASSUME slot PROVE WakeInv'
  BY ZenonT(30), OthersLeave DEF WakeInv
<1>2. pc[Owner] \in PollLabels \cup {"idle", "pending_load"} /\ pc'[Owner] = pc[Owner]
  BY ZenonT(30), <1>1, OthersLeave DEF PendingInv
<1>3. CASE Fire(w)
  <2>1. /\ queue' = queue /\ is_poll_scheduled' = is_poll_scheduled
        /\ fired' = fired \cup {w} /\ pc[w] = "idle"
        /\ pc'[w] = IF registered[w] = NoDispatcher THEN "idle" ELSE "wake_load"
        /\ \A v \in Wakers : v # w => pc'[v] = pc[v] /\ registered'[v] = registered[v]
    BY SMTT(30), <1>0, <1>3 DEF TypeOK, Fire, driver
  <2>2. EntryToCome => EntryToCome'
    BY <1>2, <2>1 DEF EntryToCome
  <2>3. w \notin fired
    BY ZenonT(30), <1>3 DEF Fire
  <2>4. pc[Owner] \in {"poll_return", "idle", "pending_load"} => pc'[w] = "wake_load"
    BY <1>1, <2>1, <2>3 DEF WakeInv
  <2>5. pc[Owner] \in {"poll_return", "idle", "pending_load"} =>
          \A v \in Wakers \ fired' : registered'[v] = Owner
    BY <1>1, <2>1 DEF WakeInv
  <2> QED
    BY <1>1, <1>2, <2>1, <2>2, <2>4, <2>5 DEF WakeInv
<1>4. CASE WakeLoad(w)
  <2>1. /\ queue' = queue /\ UNCHANGED <<is_poll_scheduled, fired, registered, is_active>>
        /\ pc[w] = "wake_load" /\ pc'[w] = IF is_active THEN "wake_mark" ELSE "idle"
        /\ \A v \in Wakers : v # w => pc'[v] = pc[v]
    BY ZenonT(30), <1>0, <1>4 DEF WakeLoad, driver, events
  <2>2. EntryToCome => EntryToCome'
    BY <1>2, <2>1 DEF EntryToCome
  <2>3. pc[Owner] = "arm_active" \/ is_active
    BY <1>1 DEF PendingInv
  <2> QED
    BY <1>1, <1>2, <2>1, <2>2, <2>3 DEF WakeInv
<1>5. CASE WakeMark(w)
  <2>1. /\ queue' = queue /\ UNCHANGED <<fired, registered>>
        /\ pc[w] = "wake_mark" /\ pc'[w] = IF is_poll_scheduled THEN "idle" ELSE "wake_push"
        /\ \A v \in Wakers : v # w => pc'[v] = pc[v]
    BY <1>0, <1>5 DEF WakeMark, events
  <2>2. EntryToCome => EntryToCome'
    BY <1>2, <2>1 DEF EntryToCome
  <2>3. ~ is_poll_scheduled => EntryToCome'
    BY <2>1 DEF EntryToCome
  <2> QED
    BY <1>1, <1>2, <2>1, <2>2, <2>3 DEF WakeInv
<1>6. CASE WakePush(w)
  <2>1. target[w] = Owner
    BY DEF TypeOK
  <2>2. queue'[Owner] > 0
    BY <1>6, <2>1, Scheduled DEF WakePush
  <2>3. EntryToCome'
    BY <2>2 DEF EntryToCome
  <2>4. UNCHANGED <<fired, registered>>
    BY <1>6 DEF WakePush, events
  <2> QED
    BY <1>1, <1>2, <2>3, <2>4 DEF WakeInv
<1> QED
  BY <1>3, <1>4, <1>5, <1>6 DEF Wake

\* The owner's steps, for the labels at which a receive may be pending
LEMMA OwnerWakes ==
  ASSUME TypeOK, PendingInv, WakeInv, PendingInv',
         OwnerSteps \/ KillCas(Owner) \/ KillGoesOn(Owner)
  PROVE  WakeInv'
<1> USE Members, Moved DEF PollLabels
<1>0. PcOK /\ slot \in BOOLEAN
  BY DEF TypeOK
<1>1. SUFFICES ASSUME slot' PROVE WakeInv'
  BY DEF WakeInv
<1>2. \A w \in Wakers : pc'[w] = pc[w]
  BY ZenonT(30), <1>0, OwnerPc DEF KillCas, KillGoesOn, KillSwap, KillPush
<1>3. CASE Execute(Owner)
  <2>1. pc'[Owner] = "pending_load" /\ pc[Owner] = "idle"
        /\ UNCHANGED <<slot, fired, registered, is_poll_scheduled>>
    BY ZenonT(30), <1>0, <1>3 DEF Execute, driver, events
  <2>2. EntryToCome'
    BY <2>1 DEF EntryToCome
  <2> QED
    BY <1>1, <2>1, <2>2 DEF WakeInv
<1>4. CASE PendingLoad(Owner)
  <2>1. pc[Owner] = "pending_load" /\ UNCHANGED <<slot, is_active>>
    BY <1>0, <1>4 DEF PendingLoad, driver
  <2>2. pc'[Owner] = "poll_clear"
    BY <1>0, <1>1, <1>4, <2>1 DEF PendingLoad, PendingInv
  <2> QED
    BY <2>2 DEF WakeInv
<1>5. CASE PollClear(Owner) \/ PollLock(Owner) \/ StorePollIdle(Owner, "arm_poll", "poll_clear")
  <2>1. pc[Owner] \in PollLabels
    BY ZenonT(30), <1>0, <1>5 DEF PollClear, PollLock, StorePollIdle
  <2>2. \/ pc'[Owner] \in {"poll_lock", "poll_clear"} /\ ~ is_poll_scheduled'
        \/ pc[Owner] = "poll_lock" /\ pc'[Owner] = "poll_check"
             /\ UNCHANGED <<is_poll_scheduled, queue, slot>>
    BY SMTT(30), <1>0, <1>5, <2>1 DEF PollClear, PollLock, StorePollIdle, PendingInv
  <2>3. CASE pc'[Owner] \in {"poll_lock", "poll_clear"} /\ ~ is_poll_scheduled'
    BY ZenonT(30), <2>3 DEF WakeInv
  <2>4. CASE pc[Owner] = "poll_lock" /\ pc'[Owner] = "poll_check"
               /\ UNCHANGED <<is_poll_scheduled, queue, slot>>
    <3>1. EntryToCome => EntryToCome'
      BY <1>2, <2>4 DEF EntryToCome
    <3> QED
      BY <1>1, <2>4, <3>1 DEF WakeInv
  <2> QED
    BY ZenonT(30), <2>2, <2>3, <2>4
<1>6. CASE PollPending(Owner)
  <2>1. /\ pc[Owner] = "poll_check" /\ pc'[Owner] = "poll_return"
        /\ UNCHANGED <<slot, fired, is_poll_scheduled, queue>> /\ fired # Wakers
        /\ \A w \in Wakers \ fired : registered'[w] = Owner
    BY ZenonT(30), <1>0, <1>6 DEF PollPending, driver
  <2>2. EntryToCome => EntryToCome'
    BY ZenonT(30), <1>2, <2>1 DEF EntryToCome
  <2> QED
    BY ZenonT(30), <1>1, <2>1, <2>2 DEF WakeInv
<1>7. CASE PollReturn(Owner)
  <2>1. /\ pc[Owner] = "poll_return" /\ pc'[Owner] = "idle"
        /\ UNCHANGED <<slot, fired, registered, is_poll_scheduled, queue>>
    BY ZenonT(30), <1>0, <1>7 DEF PollReturn, events
  <2>2. EntryToCome => EntryToCome'
    BY <1>2, <2>1 DEF EntryToCome
  <2> QED
    BY ZenonT(30), <1>1, <1>2, <2>1, <2>2 DEF WakeInv
<1>8. CASE ArmSlot(Owner) \/ StoreActive(Owner, "arm_active", "arm_poll", TRUE)
  <2>1. pc'[Owner] \in {"arm_active", "arm_poll"}
    BY <1>0, <1>8 DEF ArmSlot, StoreActive
  <2> QED
    BY <2>1 DEF WakeInv
<1>9. CASE PollReady(Owner) \/ PollPanics(Owner) \/ PollEnds(Owner)
  <2>1. \/ ~ slot'
        \/ UNCHANGED slot /\ pc[Owner] \in {"ready_active", "ready_poll", "ready_push",
                                            "failed_active", "failed_poll", "reschedule"}
    BY ZenonT(30), <1>0, <1>9 DEF PollReady, PollPanics, PollEnds, PollFinished, StoreActive,
                                  StorePollIdle, ScheduleSelf, driver
  <2> QED
    BY ZenonT(30), <1>1, <2>1 DEF PendingInv
<1>10. CASE \/ LifecycleLoad(Owner) \/ Dequeue(Owner) \/ RunningLoad(Owner)
            \/ ReceiveReturns(Owner) \/ KillCas(Owner) \/ KillGoesOn(Owner)
  <2>1. UNCHANGED slot /\ pc[Owner] \notin PollLabels \cup {"idle", "pending_load"}
    BY SMTT(30), <1>0, <1>10 DEF LifecycleLoad, Dequeue, RunningLoad, ReceiveReturns, KillCas,
                                 KillGoesOn, KillSwap, KillPush, driver
  <2> QED
    BY ZenonT(30), <1>1, <2>1 DEF PendingInv
<1>11. CASE \/ ExitLoad(Owner) \/ Unschedule(Owner) \/ PeekAgain(Owner) \/ ExitSwap(Owner)
            \/ ScheduleSelf(Owner, "exit_push") \/ FinalizeKill(Owner)
  <2>1. \/ ~ slot'
        \/ UNCHANGED slot /\ pc[Owner] \notin PollLabels \cup {"idle", "pending_load"}
    <3>1. CASE FinalizeKill(Owner)
      BY SMTT(30), <1>0, <3>1 DEF FinalizeKill, FinSwap, FinDrain, FinSlot, OnKill, StoreActive,
                                  StorePollIdle, driver
    <3>2. CASE ExitLoad(Owner)
      BY SMTT(30), <1>0, <3>2 DEF ExitLoad, driver
    <3>3. CASE Unschedule(Owner) \/ PeekAgain(Owner) \/ ExitSwap(Owner)
      BY SMTT(30), <1>0, <3>3 DEF Unschedule, PeekAgain, ExitSwap, driver
    <3>4. CASE ScheduleSelf(Owner, "exit_push")
      BY SMTT(30), <1>0, <3>4 DEF ScheduleSelf, driver
    <3> QED
      BY ZenonT(30), <1>11, <3>1, <3>2, <3>3, <3>4
  <2> QED
    BY ZenonT(30), <1>1, <2>1 DEF PendingInv
<1> QED
  BY ZenonT(30), <1>3, <1>4, <1>5, <1>6, <1>7, <1>8, <1>9, <1>10, <1>11 DEF OwnerSteps, Arm

\* Every step keeps WakeInv.
LEMMA WakeStep ==
  ASSUME TypeOK, PendingInv, WakeInv, PendingInv', [Next]_vars
  PROVE  WakeInv'
<1> USE Members, Moved
<1>0. PcOK
  BY DEF TypeOK
<1>1. ASSUME NEW p \in Posters, Post(p) \/ \E x \in Items : PostCheck(p, x) PROVE WakeInv'
  <2>1. pc'[Owner] = pc[Owner] /\ UNCHANGED slot
    BY <1>1, OthersLeave
  <2>2. UNCHANGED <<fired, registered, is_poll_scheduled>> /\ \A w \in Wakers : pc'[w] = pc[w]
    BY ZenonT(30), <1>0, <1>1 DEF Post, PostCheck, PostClaim, PostReady, PostLoad, PostSwap,
                                  PostPush, driver, events
  <2>3. queue[Owner] > 0 => queue'[Owner] > 0
    BY ZenonT(30), <1>1, Scheduled DEF Post, PostCheck, PostClaim, PostReady, PostLoad,
                                       PostSwap, PostPush
  <2> QED
    BY ZenonT(30), <2>1, <2>2, <2>3, WakeKept
<1>2. ASSUME NEW k \in Killers, KillCas(k) \/ KillGoesOn(k) PROVE WakeInv'
  <2>1. pc'[Owner] = pc[Owner] /\ UNCHANGED slot
    BY <1>2, OthersLeave
  <2>2. UNCHANGED <<fired, registered, is_poll_scheduled>> /\ \A w \in Wakers : pc'[w] = pc[w]
    BY ZenonT(30), <1>0, <1>2 DEF KillCas, KillGoesOn, KillSwap, KillPush, driver, events
  <2>3. queue[Owner] > 0 => queue'[Owner] > 0
    BY ZenonT(30), <1>2, Scheduled DEF KillCas, KillGoesOn, KillSwap, KillPush
  <2> QED
    BY ZenonT(30), <2>1, <2>2, <2>3, WakeKept
<1>3. CASE UNCHANGED vars
  BY ZenonT(30), <1>3, WakeKept DEF vars, driver, events
<1> QED
  BY ZenonT(30), <1>1, <1>2, <1>3, NextCases, WakerWakes, OwnerWakes

-----------------------------------------------------------------------------
(* No mail is stranded *)

\* A poster that goes away leaves is_scheduled set or the runner scheduled.
LEMMA PosterSchedules ==
  ASSUME TypeOK, ScheduleInv, NEW p \in Posters, Post(p) \/ \E x \in Items : PostCheck(p, x)
  PROVE  ScheduleInv'
<1> USE Members, Moved
<1>0. PcOK
  BY ZenonT(30) DEF TypeOK
<1>1. pc'[Owner] = pc[Owner] /\ UNCHANGED slot
  BY OthersLeave
<1>2. lifecycle_state' = lifecycle_state /\ \A k \in Killers : pc'[k] = pc[k]
  BY ZenonT(30), <1>0 DEF Post, PostCheck, PostClaim, PostReady, PostLoad, PostSwap, PostPush
<1>3. CASE \E x \in Items : PostCheck(p, x)
  <2>1. /\ UNCHANGED <<is_scheduled, mailbox, queue>>
        /\ pc[p] = "idle" /\ \A q \in Posters : q # p => pc'[q] = pc[q]
    BY ZenonT(30), <1>0, <1>3 DEF PostCheck, mail
  <2> QED
    BY ZenonT(30), <1>1, <1>2, <2>1 DEF ScheduleInv, RunToCome, HeadReady
<1>4. CASE PostClaim(p)
  <2>1. /\ UNCHANGED <<is_scheduled, queue>>
        /\ pc[p] = "post_claim" /\ \A q \in Posters : q # p => pc'[q] = pc[q]
    BY ZenonT(30), <1>0, <1>4 DEF PostClaim
  <2>2. HeadReady' => HeadReady
    <3>1. item[p] \in Items /\ mailbox \in Seq(Entry)
      BY ZenonT(30), <2>1 DEF TypeOK
    <3>2. CASE Box!Claim(item[p])
      BY SMTT(30), <3>1, <3>2, ClaimMail DEF HeadReady
    <3>3. CASE UNCHANGED mail
      BY ZenonT(30), <3>3 DEF HeadReady, mail
    <3> QED
      BY ZenonT(30), <1>4, <3>2, <3>3 DEF PostClaim
  <2> QED
    BY ZenonT(30), <1>1, <1>2, <2>1, <2>2 DEF ScheduleInv, RunToCome
<1>5. CASE PostReady(p)
  <2>1. /\ UNCHANGED <<is_scheduled, queue>>
        /\ pc[p] = "post_ready" /\ pc'[p] = "post_load"
        /\ \A q \in Posters : q # p => pc'[q] = pc[q]
    BY ZenonT(30), <1>0, <1>5 DEF PostReady
  <2> QED
    BY ZenonT(30), <1>1, <1>2, <2>1 DEF ScheduleInv, RunToCome
<1>6. CASE PostLoad(p)
  <2>1. /\ UNCHANGED <<is_scheduled, mailbox, queue>>
        /\ pc[p] = "post_load" /\ pc'[p] = IF is_scheduled THEN "idle" ELSE "post_swap"
        /\ \A q \in Posters : q # p => pc'[q] = pc[q]
    BY ZenonT(30), <1>0, <1>6 DEF PostLoad, mail
  <2>2. RunToCome => RunToCome'
    BY ZenonT(30), <1>1, <1>2, <2>1 DEF RunToCome
  <2> QED
    BY ZenonT(30), <1>1, <2>1, <2>2 DEF ScheduleInv, HeadReady
<1>7. CASE PostSwap(p)
  <2>1. /\ UNCHANGED <<mailbox, queue>>
        /\ pc[p] = "post_swap" /\ pc'[p] = IF is_scheduled THEN "idle" ELSE "post_push"
        /\ \A q \in Posters : q # p => pc'[q] = pc[q]
    BY ZenonT(30), <1>0, <1>7 DEF PostSwap, mail
  <2>2. RunToCome'
    BY ZenonT(30), <1>1, <1>2, <2>1 DEF ScheduleInv, RunToCome
  <2> QED
    BY ZenonT(30), <2>2 DEF ScheduleInv
<1>8. CASE PostPush(p)
  <2>1. queue'[Owner] > 0
    BY <1>8, Scheduled DEF PostPush
  <2> QED
    BY ZenonT(30), <2>1 DEF ScheduleInv, RunToCome
<1> QED
  BY ZenonT(30), <1>3, <1>4, <1>5, <1>6, <1>7, <1>8 DEF Post

\* So does kill, called by a killer or by the owner.
LEMMA KillSchedules ==
  ASSUME TypeOK, ScheduleInv, NEW t \in Killers \cup {Owner}, KillCas(t) \/ KillGoesOn(t)
  PROVE  ScheduleInv'
<1> USE Members, Moved DEF KillGoesOn
<1>0. PcOK /\ t \in Threads
  BY DEF TypeOK
<1>1. UNCHANGED <<slot, mailbox>> /\ \A p \in Posters : pc'[p] = pc[p]
  BY ZenonT(30), <1>0 DEF KillCas, KillSwap, KillPush, driver, mail
<1>2. lifecycle_state = "stopped" => lifecycle_state' = "stopped"
  BY ZenonT(30) DEF KillCas, KillSwap, KillPush
<1>3. queue[Owner] > 0 => queue'[Owner] > 0
  BY ZenonT(30), Scheduled DEF KillCas, KillSwap, KillPush
<1>4. CASE t \in Killers
  <2>1. pc'[Owner] = pc[Owner] /\ \A k \in Killers : k # t => pc'[k] = pc[k]
    BY ZenonT(30), <1>0, <1>4 DEF KillCas, KillSwap, KillPush
  <2>2. RunToCome => RunToCome'
    <3>1. pc[t] = "kill_push" => queue'[Owner] > 0
      BY SMTT(30), <1>0, <1>4, Scheduled DEF KillCas, KillSwap, KillPush
    <3> QED
      BY ZenonT(30), <1>1, <1>2, <1>3, <2>1, <3>1 DEF RunToCome
  <2>3. is_scheduled' => is_scheduled \/ pc'[t] = "kill_push"
    BY ZenonT(30), <1>0, <1>4 DEF KillCas, KillSwap, KillPush
  <2>4. pc'[t] = "kill_push" => RunToCome'
    BY ZenonT(30), <1>4 DEF RunToCome
  <2> QED
    BY <1>1, <2>1, <2>2, <2>3, <2>4 DEF ScheduleInv, HeadReady
<1>5. CASE t = Owner
  <2>1. pc'[Owner] \in RunLabels
    BY SMTT(30), <1>0, <1>5 DEF KillCas, KillSwap, KillPush, AfterKill, RunLabels, OwnerLabels,
                                PanicLabels, PolledLabels, MailboxLabels, FinalizeLabels
  <2> QED
    BY ZenonT(30), <2>1 DEF ScheduleInv, RunToCome
<1> QED
  BY ZenonT(30), <1>4, <1>5

\* Wakers only add queue entries.
LEMMA WakerSchedules ==
  ASSUME TypeOK, ScheduleInv, NEW w \in Wakers, Fire(w) \/ Wake(w)
  PROVE  ScheduleInv'
<1> USE Members, Moved
<1>0. PcOK /\ target[w] = Owner
  BY ZenonT(30) DEF TypeOK
<1>1. pc'[Owner] = pc[Owner] /\ UNCHANGED slot
  BY OthersLeave
<1>2. /\ UNCHANGED <<lifecycle_state, is_scheduled, mailbox>>
      /\ \A t \in Posters \cup Killers : pc'[t] = pc[t]
  BY ZenonT(30), <1>0 DEF Fire, Wake, WakeLoad, WakeMark, WakePush, mail
<1>3. queue[Owner] > 0 => queue'[Owner] > 0
  BY ZenonT(30), <1>0, Scheduled DEF Fire, Wake, WakeLoad, WakeMark, WakePush
<1> QED
  BY ZenonT(30), <1>1, <1>2, <1>3 DEF ScheduleInv, RunToCome, HeadReady

\* execute gives the right up by clearing is_scheduled, and then looks again.
LEMMA OwnerSchedules ==
  ASSUME TypeOK, PendingInv, KillInv, ScheduleInv, OwnerSteps
  PROVE  ScheduleInv'
<1> USE Members, Moved
<1>0. PcOK /\ mailbox \in Seq(Entry) /\ lifecycle_state \in {"running", "killing", "stopped"}
  BY ZenonT(30) DEF TypeOK
<1>1. ASSUME RunToCome' PROVE ScheduleInv'
  BY ZenonT(30), <1>1 DEF ScheduleInv
<1>2. ASSUME pc'[Owner] \in RunLabels \/ queue'[Owner] > 0 \/ slot' \/ lifecycle_state' = "stopped"
      PROVE  ScheduleInv'
  BY ZenonT(30), <1>1, <1>2 DEF RunToCome
<1>3. CASE Execute(Owner) \/ PendingLoad(Owner) \/ PollClear(Owner) \/ PollLock(Owner)
             \/ PollPending(Owner) \/ PollReady(Owner) \/ PollPanics(Owner)
  <2>1. pc'[Owner] \in RunLabels
    BY SMTT(30), <1>0, <1>3 DEF Execute, PendingLoad, PollClear, PollLock, PollPending,
                                PollReady, PollPanics, PollFinished, RunLabels, OwnerLabels,
                                EntryLabels, PollLabels, PolledLabels, FinalizeLabels,
                                MailboxLabels
  <2> QED
    BY ZenonT(30), <1>2, <2>1
<1>4. CASE PollReturn(Owner)
  <2>1. slot'
    BY ZenonT(30), <1>0, <1>4 DEF PollReturn, PendingInv, PollLabels
  <2> QED
    BY <1>2, <2>1
<1>5. ASSUME NEW from, ScheduleSelf(Owner, from) PROVE ScheduleInv'
  BY ZenonT(30), <1>2, <1>5, Scheduled DEF ScheduleSelf
<1>6. CASE PollEnds(Owner) /\ ~ \E from \in {"ready_push", "reschedule"} : ScheduleSelf(Owner, from)
  <2>1. pc'[Owner] \in {"ready_poll", "ready_push", "failed_poll", "kill_cas"}
    BY ZenonT(30), <1>0, <1>6 DEF PollEnds, StoreActive, StorePollIdle
  <2>2. pc'[Owner] \in RunLabels
    BY ZenonT(30), <2>1 DEF RunLabels, OwnerLabels, PolledLabels, PanicLabels, FinalizeLabels
  <2> QED
    BY <1>2, <2>2
<1>7. CASE LifecycleLoad(Owner)
  <2>1. \/ pc'[Owner] \in {"fin_swap", "dequeue"}
        \/ lifecycle_state' = "stopped"
    BY <1>0, <1>7 DEF LifecycleLoad
  <2>2. pc'[Owner] \in {"fin_swap", "dequeue"} => pc'[Owner] \in RunLabels
    BY ZenonT(30) DEF RunLabels, OwnerLabels, MailboxLabels, FinalizeLabels
  <2> QED
    BY <1>2, <2>1, <2>2
<1>8. CASE Dequeue(Owner) \/ RunningLoad(Owner) \/ ReceiveReturns(Owner) \/ ExitLoad(Owner)
  <2>1. pc'[Owner] \in {"running_load", "exit_load", "receive", "dequeue", "arm_slot", "kill_cas",
                        "fin_swap", "unschedule"}
    BY ZenonT(30), <1>0, <1>8 DEF Dequeue, RunningLoad, ReceiveReturns, ExitLoad
  <2>2. pc'[Owner] \in RunLabels
    BY ZenonT(30), <2>1 DEF RunLabels, OwnerLabels, MailboxLabels, PanicLabels, FinalizeLabels
  <2> QED
    BY <1>2, <2>2
<1>9. CASE Arm(Owner)
  <2>1. pc'[Owner] \in {"arm_active", "arm_poll", "poll_clear"}
    BY ZenonT(30), <1>0, <1>9 DEF Arm, ArmSlot, StoreActive, StorePollIdle
  <2>2. pc'[Owner] \in RunLabels
    BY ZenonT(30), <2>1 DEF RunLabels, OwnerLabels, PollLabels, FinalizeLabels
  <2> QED
    BY <1>2, <2>2
<1>10. CASE Unschedule(Owner)
  <2>1. ~ is_scheduled' /\ pc'[Owner] = "peek"
    BY ZenonT(30), <1>0, <1>10 DEF Unschedule
  <2> QED
    BY ZenonT(30), <2>1 DEF ScheduleInv
<1>11. CASE PeekAgain(Owner) \/ ExitSwap(Owner)
  <2>1. /\ UNCHANGED <<slot, lifecycle_state, queue, mailbox>> /\ pc[Owner] \in {"peek", "exit_swap"}
        /\ \A t \in Threads : t # Owner => pc'[t] = pc[t]
    BY ZenonT(30), <1>0, <1>11 DEF PeekAgain, ExitSwap, driver, mail
  <2>2. RunToCome => RunToCome'
    BY ZenonT(30), <2>1 DEF RunToCome, RunLabels
  <2>3. CASE PeekAgain(Owner)
    <3>1. /\ is_scheduled' = is_scheduled
          /\ HeadReady => pc'[Owner] = "exit_swap"
      BY ZenonT(30), <1>0, <2>3 DEF PeekAgain, HeadReady, Box!HeadReady
    <3> QED
      BY <2>1, <2>2, <3>1 DEF ScheduleInv, HeadReady
  <2>4. CASE ExitSwap(Owner)
    <3>1. is_scheduled \/ pc'[Owner] = "exit_push"
      BY <1>0, <2>4 DEF ExitSwap
    <3>2. pc'[Owner] = "exit_push" => pc'[Owner] \in RunLabels
      BY ZenonT(30) DEF RunLabels, OwnerLabels, MailboxLabels, FinalizeLabels
    <3>3. CASE is_scheduled
      BY ZenonT(30), <1>1, <2>2, <3>3 DEF ScheduleInv
    <3> QED
      BY ZenonT(30), <1>2, <3>1, <3>2, <3>3
  <2> QED
    BY <1>11, <2>3, <2>4
<1>12. CASE FinalizeKill(Owner)
  <2>1. lifecycle_state' = "stopped"
    BY SMTT(30), <1>0, <1>12 DEF FinalizeKill, FinSwap, FinDrain, FinSlot, OnKill, StoreActive,
                                 StorePollIdle, KillInv, FinalizeLabels
  <2> QED
    BY ZenonT(30), <1>2, <2>1
<1> QED
  BY ZenonT(30), <1>3, <1>4, <1>5, <1>6, <1>7, <1>8, <1>9, <1>10, <1>11, <1>12 DEF OwnerSteps

\* Every step keeps ScheduleInv.
LEMMA ScheduleStep ==
  ASSUME TypeOK, PendingInv, KillInv, ScheduleInv, [Next]_vars
  PROVE  ScheduleInv'
<1>1. CASE UNCHANGED vars
  BY ZenonT(30), <1>1 DEF ScheduleInv, RunToCome, HeadReady, vars, driver, mail
<1> QED
  BY <1>1, NextCases, PosterSchedules, KillSchedules, WakerSchedules, OwnerSchedules

-----------------------------------------------------------------------------
\* RunnerInv holds in every reachable state of an actor that is woken at home.
THEOREM RunnerInvariant == WokenAtHome => (Spec => []RunnerInv)
<1> SUFFICES ASSUME WokenAtHome PROVE Spec => []RunnerInv
  OBVIOUS
<1>1. Init => RunnerInv
  BY InitHolds
<1>2. RunnerInv /\ [Next]_vars => RunnerInv'
  BY TypeStep, PendingStep, KillStep, WakeStep, ScheduleStep, MailStep DEF RunnerInv
<1> QED
  BY <1>1, <1>2, PTL DEF Spec

\* The actor is entered by one dispatcher at a time: on_receive, the poll of its
\* future and on_kill never overlap.
THEOREM ActorEnteredOnce == WokenAtHome => (Spec => []OneActorCall)
<1> SUFFICES ASSUME WokenAtHome PROVE Spec => []OneActorCall
  OBVIOUS
<1>1. RunnerInv => OneActorCall
  <2> SUFFICES ASSUME RunnerInv PROVE OneActorCall
    OBVIOUS
  <2>1. Inside \subseteq {Owner}
    BY ZenonT(30) DEF RunnerInv, TypeOK, PcOK, Inside
  <2> QED
    BY <2>1 DEF OneActorCall
<1> QED
  BY <1>1, RunnerInvariant, PTL

\* While a receive is pending execute neither processes the mailbox nor
\* finalizes the actor.
THEOREM PendingStopsActor == WokenAtHome => (Spec => []PendingReceiveStopsActor)
<1> SUFFICES ASSUME WokenAtHome PROVE Spec => []PendingReceiveStopsActor
  OBVIOUS
<1>1. RunnerInv => PendingReceiveStopsActor
  BY ZenonT(30) DEF RunnerInv, TypeOK, PcOK, PendingInv, PollLabels, PendingReceiveStopsActor,
                    MailboxLabels, FinalizeLabels
<1> QED
  BY <1>1, RunnerInvariant, PTL

\* finalize_kill calls on_kill once, and the actor is never entered after it.
THEOREM ActorKilledOnce == WokenAtHome => (Spec => []KilledOnce)
<1> SUFFICES ASSUME WokenAtHome PROVE Spec => []KilledOnce
  OBVIOUS
<1>1. RunnerInv => KilledOnce
  BY SMTT(30) DEF RunnerInv, TypeOK, PcOK, KillInv, EntryLabels, FinalizeLabels, KilledOnce,
                  Inside
<1> QED
  BY <1>1, RunnerInvariant, PTL

\* Whatever races with execute's last steps, when nothing is under way a running
\* actor has an empty mailbox or a pending receive, and is_scheduled is clear.
THEOREM NoMailStranded == WokenAtHome => (Spec => []MailNotStranded)
<1> SUFFICES ASSUME WokenAtHome PROVE Spec => []MailNotStranded
  OBVIOUS
<1>1. RunnerInv => MailNotStranded
  <2> SUFFICES ASSUME RunnerInv, Quiescent, lifecycle_state = "running", ~ slot
               PROVE  mailbox = << >> /\ ~ is_scheduled
    BY ZenonT(30) DEF MailNotStranded
  <2>1. /\ \A t \in Threads : pc[t] = "idle"
        /\ ~ (queue[Owner] > 0)
    BY SMTT(30), Members DEF Quiescent
  <2>2. ~ RunToCome
    BY ZenonT(30), <2>1, Members DEF RunToCome, RunLabels
  <2>3. ~ is_scheduled /\ ~ HeadReady
    BY ZenonT(30), <2>1, <2>2, Members DEF RunnerInv, ScheduleInv
  <2>4. mailbox # << >> => 1 \in 1 .. Len(mailbox)
    BY SMTT(30) DEF RunnerInv, TypeOK
  <2>5. mailbox # << >> => mailbox[1].ready
    BY <2>1, <2>4, Members DEF RunnerInv, MailInv
  <2> QED
    BY <2>3, <2>5 DEF HeadReady
<1> QED
  BY <1>1, RunnerInvariant, PTL

\* When nothing is under way a pending receive waits for an event that has not
\* happened: no wake was refused without a poll to come.
THEOREM NoWakeLost == WokenAtHome => (Spec => []WakeNotLost)
<1> SUFFICES ASSUME WokenAtHome PROVE Spec => []WakeNotLost
  OBVIOUS
<1>1. RunnerInv => WakeNotLost
  <2> SUFFICES ASSUME RunnerInv, Quiescent, slot PROVE fired # Wakers
    BY ZenonT(30) DEF WakeNotLost
  <2>1. /\ \A t \in Threads : pc[t] = "idle"
        /\ ~ (queue[Owner] > 0)
    BY SMTT(30), Members DEF Quiescent
  <2> QED
    BY ZenonT(30), <2>1, Members DEF RunnerInv, WakeInv, EntryToCome, PollLabels
<1> QED
  BY <1>1, RunnerInvariant, PTL

=============================================================================
