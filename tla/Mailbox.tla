------------------------------ MODULE Mailbox -------------------------------
(***************************************************************************)
(* What an actor's mailbox promises to the threads that post into it and   *)
(* to the dispatcher that drains it, without saying how.                   *)
(*                                                                         *)
(* The mailbox is a bounded FIFO queue with one consumer.  An entry is     *)
(* claimed (its place in the order is fixed, it counts against the         *)
(* capacity) before it is ready (the consumer can see it).  A ready entry  *)
(* behind an entry that is not ready stays invisible: this is the gap that *)
(* every user of the mailbox has to live with, and the reason why          *)
(* try_dequeue may answer None on a mailbox that is not empty.             *)
(*                                                                         *)
(* MpscBoundedQueue implements this specification; ActorRunner uses the    *)
(* operators below as its mailbox.                                         *)
(***************************************************************************)
EXTENDS Naturals, Sequences

CONSTANTS
  Items,      \* what can be posted
  Capacity    \* how many entries may be outstanding

VARIABLES
  entries,    \* the outstanding entries, oldest first
  delivered   \* history: the items handed to the consumer, in order

Entry == [item : Items, ready : BOOLEAN]

\* The entries after a producer has claimed the next place for item x.
Claimed(es, x) == Append(es, [item |-> x, ready |-> FALSE])

\* The entries after the producer of entry k has made it visible.
MadeReady(es, k) == [es EXCEPT ![k] = [item |-> @.item, ready |-> TRUE]]

\* Whether the consumer sees an entry (try_peek).
HeadReady(es) == es # << >> /\ es[1].ready

-----------------------------------------------------------------------------

Init ==
  /\ entries = << >>
  /\ delivered = << >>

Claim(x) ==
  /\ Len(entries) < Capacity
  /\ entries' = Claimed(entries, x)
  /\ UNCHANGED delivered

MakeReady(k) ==
  /\ ~ entries[k].ready
  /\ entries' = MadeReady(entries, k)
  /\ UNCHANGED delivered

Take ==
  /\ HeadReady(entries)
  /\ delivered' = Append(delivered, entries[1].item)
  /\ entries' = Tail(entries)

Next ==
  \/ \E x \in Items : Claim(x)
  \/ \E k \in DOMAIN entries : MakeReady(k)
  \/ Take

Spec == Init /\ [][Next]_<<entries, delivered>>

=============================================================================
