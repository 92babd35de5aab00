-------------------------- MODULE MpscBoundedQueue --------------------------
(***************************************************************************)
(* The mailbox of an actor: a lock-free bounded ring buffer with many      *)
(* producers and one consumer (queues/mpsc_bounded_queue.rs).              *)
(*                                                                         *)
(* Every atomic access of the code is one action, so that every            *)
(* interleaving of try_enqueue calls with each other and with try_dequeue  *)
(* is a behaviour.  The two plain accesses to a slot's data (the write of  *)
(* the producer, the assume_init_read of the consumer) are actions of      *)
(* their own: they are not synchronised by anything but the sequence       *)
(* numbers, which is what SlotsExclusive is about.                         *)
(*                                                                         *)
(* Positions are i64 in the code and natural numbers here: 2^63 posts are  *)
(* out of reach.  An item is a value that is moved, so it is posted at     *)
(* most once; the set Items bounds a run.                                  *)
(***************************************************************************)
EXTENDS Integers, Sequences, FiniteSets

CONSTANTS
  Producers,  \* threads that call try_enqueue
  Items,      \* the values that are posted
  Uninit,     \* the content of a slot that holds no item
  Capacity    \* normalized_capacity: a power of two, at least 2

\* MpscBoundedQueue::new panics below 2 (capacity 1 would let a producer take
\* the slot of an unread item: its sequence number is already the next
\* position).  That the capacity is a power of two only makes
\* `position & index_mask` equal to position % Capacity.
ASSUME CapacityAssumption == Capacity \in Nat /\ Capacity >= 2
ASSUME UninitAssumption == Uninit \notin Items

VARIABLES
  producer_index, consumer_index,
  sequence,   \* Slot::sequence of each slot
  data,       \* Slot::data of each slot, Uninit when it owns no item
  ppc,        \* where each producer is in try_enqueue
  position,   \* try_enqueue's local position
  item,       \* try_enqueue's local item
  cpc,        \* where the consumer is in try_dequeue
  taken,      \* try_dequeue's local item
  unsent,     \* the items no producer has posted yet
  claimed,    \* history: the items in the order of their positions
  delivered   \* history: the items the consumer has dequeued, in order

shared == <<producer_index, consumer_index, sequence, data>>
history == <<unsent, claimed, delivered>>
vars == <<shared, ppc, position, item, cpc, taken, history>>

SlotIndices == 0 .. Capacity - 1

\* position as usize & index_mask
SlotIndex(q) == q % Capacity

Init ==
  /\ producer_index = 0
  /\ consumer_index = 0
  /\ sequence = [s \in SlotIndices |-> s]
  /\ data = [s \in SlotIndices |-> Uninit]
  /\ ppc = [p \in Producers |-> "idle"]
  /\ position = [p \in Producers |-> 0]
  /\ item = [p \in Producers |-> Uninit]
  /\ cpc = "idle"
  /\ taken = Uninit
  /\ unsent = Items
  /\ claimed = << >>
  /\ delivered = << >>

ProducerGoto(p, label) == ppc' = [ppc EXCEPT ![p] = label]

-----------------------------------------------------------------------------
(* try_enqueue *)

TryEnqueue(p, x) ==
  /\ ppc[p] = "idle"
  /\ x \in unsent
  /\ unsent' = unsent \ {x}
  /\ item' = [item EXCEPT ![p] = x]
  /\ ProducerGoto(p, "load_position")
  /\ UNCHANGED <<shared, position, cpc, taken, claimed, delivered>>

LoadPosition(p) ==
  /\ ppc[p] = "load_position"
  /\ position' = [position EXCEPT ![p] = producer_index]
  /\ ProducerGoto(p, "load_sequence")
  /\ UNCHANGED <<shared, item, cpc, taken, history>>

\* Mutant: the full test lets a producer one lap ahead of the consumer through.
EnqueueDifference_NoLapTest(p) ==
  IF sequence[SlotIndex(position[p])] - position[p] < 0 THEN 0
  ELSE sequence[SlotIndex(position[p])] - position[p]

\* sequence - position, of the slot the producer is looking at
EnqueueDifference(p) == sequence[SlotIndex(position[p])] - position[p]

\* Free slot: try to claim it.  Slot of the previous lap: refuse the item, which
\* is dropped.  Slot already claimed by another producer: start again.
LoadSequence(p) ==
  /\ ppc[p] = "load_sequence"
  /\ \/ EnqueueDifference(p) = 0 /\ ProducerGoto(p, "compare_exchange")
     \/ EnqueueDifference(p) < 0 /\ ProducerGoto(p, "idle")
     \/ EnqueueDifference(p) > 0 /\ ProducerGoto(p, "load_position")
  /\ UNCHANGED <<shared, position, item, cpc, taken, history>>

CompareExchange(p) ==
  /\ ppc[p] = "compare_exchange"
  /\ \/ /\ producer_index = position[p]
        /\ producer_index' = position[p] + 1
        /\ claimed' = Append(claimed, item[p])
        /\ ProducerGoto(p, "write")
     \/ /\ producer_index # position[p]
        /\ ProducerGoto(p, "load_position")
        /\ UNCHANGED <<producer_index, claimed>>
  /\ UNCHANGED <<consumer_index, sequence, data, position, item, cpc, taken,
                 unsent, delivered>>

WriteItem(p) ==
  /\ ppc[p] = "write"
  /\ data' = [data EXCEPT ![SlotIndex(position[p])] = item[p]]
  /\ ProducerGoto(p, "publish")
  /\ UNCHANGED <<producer_index, consumer_index, sequence, position, item, cpc,
                 taken, history>>

\* Mutant: the publication stores the position instead of its successor.
Publish_NoIncrement(p) ==
  /\ ppc[p] = "publish"
  /\ sequence' = [sequence EXCEPT ![SlotIndex(position[p])] = position[p]]
  /\ ProducerGoto(p, "idle")
  /\ UNCHANGED <<producer_index, consumer_index, data, position, item, cpc,
                 taken, history>>

Publish(p) ==
  /\ ppc[p] = "publish"
  /\ sequence' = [sequence EXCEPT ![SlotIndex(position[p])] = position[p] + 1]
  /\ ProducerGoto(p, "idle")
  /\ UNCHANGED <<producer_index, consumer_index, data, position, item, cpc,
                 taken, history>>

-----------------------------------------------------------------------------
(* try_dequeue and try_peek *)

\* difference == 0 in try_dequeue and in try_peek
Peek == sequence[SlotIndex(consumer_index)] = consumer_index + 1

\* Answering None leaves the queue as it is.
TryDequeue ==
  /\ cpc = "idle"
  /\ Peek
  /\ cpc' = "read"
  /\ UNCHANGED <<shared, ppc, position, item, taken, history>>

\* assume_init_read moves the item out of the slot
ReadItem ==
  /\ cpc = "read"
  /\ taken' = data[SlotIndex(consumer_index)]
  /\ data' = [data EXCEPT ![SlotIndex(consumer_index)] = Uninit]
  /\ cpc' = "release"
  /\ UNCHANGED <<producer_index, consumer_index, sequence, ppc, position, item,
                 history>>

\* Mutant: the slot is released for the lap that has just ended.
ReleaseSlot_SameLap ==
  /\ cpc = "release"
  /\ sequence' = [sequence EXCEPT ![SlotIndex(consumer_index)] = consumer_index]
  /\ delivered' = Append(delivered, taken)
  /\ cpc' = "advance"
  /\ UNCHANGED <<producer_index, consumer_index, data, ppc, position, item,
                 taken, unsent, claimed>>

ReleaseSlot ==
  /\ cpc = "release"
  /\ sequence' = [sequence EXCEPT ![SlotIndex(consumer_index)] =
                    consumer_index + Capacity]
  /\ delivered' = Append(delivered, taken)
  /\ cpc' = "advance"
  /\ UNCHANGED <<producer_index, consumer_index, data, ppc, position, item,
                 taken, unsent, claimed>>

AdvanceConsumer ==
  /\ cpc = "advance"
  /\ consumer_index' = consumer_index + 1
  /\ cpc' = "idle"
  /\ UNCHANGED <<producer_index, sequence, data, ppc, position, item, taken,
                 history>>

-----------------------------------------------------------------------------

Enqueuing(p) ==
  \/ LoadPosition(p) \/ LoadSequence(p) \/ CompareExchange(p)
  \/ WriteItem(p) \/ Publish(p)

Dequeuing == TryDequeue \/ ReadItem \/ ReleaseSlot \/ AdvanceConsumer

Next ==
  \/ \E p \in Producers : Enqueuing(p) \/ \E x \in Items : TryEnqueue(p, x)
  \/ Dequeuing

Spec == Init /\ [][Next]_vars

\* A thread inside try_enqueue keeps running, and so does the dispatcher that
\* drains the mailbox; nobody is obliged to post.
Fairness ==
  /\ \A p \in Producers : WF_vars(Enqueuing(p))
  /\ WF_vars(Dequeuing)

FairSpec == Spec /\ Fairness

-----------------------------------------------------------------------------
(* Properties *)

\* Every variable keeps its type: a cell holds an item or nothing, and indices
\* and sequence numbers stay natural numbers.
TypeOK ==
  /\ producer_index \in Nat
  /\ consumer_index \in Nat
  /\ sequence \in [SlotIndices -> Nat]
  /\ data \in [SlotIndices -> Items \cup {Uninit}]
  /\ ppc \in [Producers -> {"idle", "load_position", "load_sequence",
                            "compare_exchange", "write", "publish"}]
  /\ position \in [Producers -> Nat]
  /\ item \in [Producers -> Items \cup {Uninit}]
  /\ cpc \in {"idle", "read", "release", "advance"}
  /\ taken \in Items \cup {Uninit}
  /\ unsent \subseteq Items
  /\ claimed \in Seq(Items)
  /\ delivered \in Seq(Items)

\* The slot a producer has claimed and not published yet.
Owns(p, s) == ppc[p] \in {"write", "publish"} /\ SlotIndex(position[p]) = s

\* The unsynchronised accesses to a slot's data never meet.  A slot has one
\* writer at a time; the writer finds the slot empty, so no unread item is
\* overwritten; the consumer reads a slot only when it holds an item, so
\* assume_init_read never reads uninitialized memory, and no producer is in it.
SlotsExclusive ==
  /\ \A p, q \in Producers : \A s \in SlotIndices :
       Owns(p, s) /\ Owns(q, s) => p = q
  /\ \A p \in Producers : ppc[p] = "write" => data[SlotIndex(position[p])] = Uninit
  /\ cpc = "read" => /\ data[SlotIndex(consumer_index)] # Uninit
                     /\ \A p \in Producers : ~ Owns(p, SlotIndex(consumer_index))

\* What the consumer has dequeued is exactly the first part of what was
\* claimed, in claim order: nothing is lost, duplicated or overtaken between
\* compare_exchange and try_dequeue.
FifoDelivery ==
  /\ Len(delivered) <= Len(claimed)
  /\ \A k \in 1 .. Len(delivered) : delivered[k] = claimed[k]

\* try_enqueue refuses an item (difference < 0) only at an instant at which all
\* slots are taken, even though it compares a sequence number it has just read
\* with a producer index it read earlier.
RefusedOnlyWhenFull ==
  [][\A p \in Producers :
       ppc[p] = "load_sequence" /\ ppc'[p] = "idle"
         => producer_index = Len(delivered) + Capacity]_vars

\* Every claimed item reaches the consumer: no interleaving of claims,
\* publications and reads leaves a slot that is never read again.
ClaimedIsDelivered ==
  \A k \in 1 .. Cardinality(Items) : Len(claimed) >= k ~> Len(delivered) >= k

-----------------------------------------------------------------------------
(* The inductive invariant behind the properties above.  The positions from
   Released to Released + Capacity - 1 use every slot once; producer_index
   splits them into the claimed and the free ones. *)

\* How many positions have given their slot back.
Released == IF cpc = "advance" THEN consumer_index + 1 ELSE consumer_index

Counters ==
  /\ Released <= producer_index
  /\ producer_index <= Released + Capacity
  /\ Len(claimed) = producer_index
  /\ Len(delivered) = Released

FreeSlots ==
  \A q \in producer_index .. Released + Capacity - 1 :
    /\ sequence[SlotIndex(q)] = q
    /\ data[SlotIndex(q)] = Uninit

\* A claimed position is being filled or holds its item, until the consumer has
\* moved the item out.
ClaimedSlot(q) ==
  /\ sequence[SlotIndex(q)] \in {q, q + 1}
  /\ sequence[SlotIndex(q)] = q + 1 /\ ~ (cpc = "release" /\ q = consumer_index)
       => data[SlotIndex(q)] = claimed[q + 1]

ClaimedSlots == \A q \in Released .. producer_index - 1 : ClaimedSlot(q)

\* A producer that is about to claim looks at a free slot unless its position is
\* outdated, and a producer that has claimed owns its position.
ProducerLocal(p) ==
  /\ ppc[p] # "idle" => item[p] \in Items
  /\ ppc[p] \in {"load_sequence", "compare_exchange"} => position[p] <= producer_index
  /\ ppc[p] = "compare_exchange" /\ position[p] = producer_index
       => producer_index < Released + Capacity
  /\ ppc[p] \in {"write", "publish"} =>
       /\ position[p] \in Released .. producer_index - 1
       /\ sequence[SlotIndex(position[p])] = position[p]
       /\ claimed[position[p] + 1] = item[p]
       /\ data[SlotIndex(position[p])] = IF ppc[p] = "write" THEN Uninit ELSE item[p]

ProducerLocals == \A p \in Producers : ProducerLocal(p)

OnePositionOneProducer ==
  \A p, q \in Producers :
    /\ ppc[p] \in {"write", "publish"}
    /\ ppc[q] \in {"write", "publish"}
    /\ position[p] = position[q]
    => p = q

ConsumerLocals ==
  /\ cpc \in {"read", "release"} =>
       /\ consumer_index < producer_index
       /\ sequence[SlotIndex(consumer_index)] = consumer_index + 1
  /\ cpc = "release" => /\ taken = claimed[consumer_index + 1]
                        /\ data[SlotIndex(consumer_index)] = Uninit

\* The ring is consistent: sequence numbers, slot contents, indices, the locals of
\* the calls in progress and the history agree with each other.
RingInv ==
  /\ TypeOK
  /\ Counters
  /\ FreeSlots
  /\ ClaimedSlots
  /\ ProducerLocals
  /\ OnePositionOneProducer
  /\ ConsumerLocals
  /\ FifoDelivery

-----------------------------------------------------------------------------
(* The queue implements Mailbox: an entry is claimed by the successful
   compare_exchange, ready once its sequence number is published, and taken
   when its slot is released. *)

EntryAt(q) ==
  [item |-> claimed[q + 1], ready |-> sequence[SlotIndex(q)] = q + 1]

Entries ==
  [k \in 1 .. Len(claimed) - Len(delivered) |-> EntryAt(Len(delivered) + k - 1)]

Abstract == INSTANCE Mailbox WITH entries <- Entries

\* Seen through Entries, every step of the queue is a step of the abstract
\* mailbox or changes nothing.
ImplementsMailbox == Abstract!Spec

=============================================================================
