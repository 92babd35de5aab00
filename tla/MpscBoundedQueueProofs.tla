---------------------- MODULE MpscBoundedQueueProofs ------------------------
(***************************************************************************)
(* Proofs about MpscBoundedQueue, for every number of producers, every     *)
(* capacity of at least two and every set of items: RingInv is inductive,  *)
(* the invariants follow from it, and the queue implements Mailbox.        *)
(***************************************************************************)
EXTENDS MpscBoundedQueue, TLAPS

-----------------------------------------------------------------------------
(* Arithmetic of the ring: which positions share a slot. *)

\* Division with remainder, for the slot of a position.
LEMMA SlotIndexDivision ==
  ASSUME NEW q \in Nat
  PROVE  /\ q \div Capacity \in Nat
         /\ SlotIndex(q) \in SlotIndices
         /\ q = Capacity * (q \div Capacity) + SlotIndex(q)
BY CapacityAssumption DEF SlotIndex, SlotIndices

\* One more lap is at least one more capacity.
LEMMA LapsApart ==
  ASSUME NEW a \in Nat, NEW b \in Nat, a < b
  PROVE  Capacity * a + Capacity <= Capacity * b
<1> DEFINE c == b - a - 1
<1>1. c \in Nat /\ b = a + 1 + c
  OBVIOUS
<1> HIDE DEF c
<1>2. Capacity * c >= 0
  BY <1>1, CapacityAssumption
<1>3. Capacity * (a + 1 + c) = Capacity * a + Capacity + Capacity * c
  BY <1>1, CapacityAssumption
<1> QED
  BY <1>1, <1>2, <1>3, CapacityAssumption

\* Lap and slot determine the position.
LEMMA LapAndSlotUnique ==
  ASSUME NEW a \in Nat, NEW b \in Nat,
         NEW x \in SlotIndices, NEW y \in SlotIndices,
         Capacity * a + x = Capacity * b + y
  PROVE  a = b /\ x = y
<1>1. Capacity * a \in Nat /\ Capacity * b \in Nat
  BY CapacityAssumption
<1>2. ASSUME a < b PROVE FALSE
  BY <1>1, <1>2, LapsApart, CapacityAssumption DEF SlotIndices
<1>3. ASSUME b < a PROVE FALSE
  BY <1>1, <1>3, LapsApart, CapacityAssumption DEF SlotIndices
<1>4. a = b
  BY <1>2, <1>3
<1> QED
  BY <1>1, <1>4, CapacityAssumption DEF SlotIndices

\* A position and the one a lap later use the same slot.
LEMMA SlotIndexNextLap ==
  ASSUME NEW q \in Nat
  PROVE  SlotIndex(q + Capacity) = SlotIndex(q)
<1> DEFINE a == q \div Capacity
           b == (q + Capacity) \div Capacity
<1>0. q + Capacity \in Nat
  BY CapacityAssumption
<1>1. /\ a \in Nat /\ b \in Nat
      /\ q = Capacity * a + SlotIndex(q)
      /\ q + Capacity = Capacity * b + SlotIndex(q + Capacity)
      /\ SlotIndex(q) \in SlotIndices
      /\ SlotIndex(q + Capacity) \in SlotIndices
  BY <1>0, SlotIndexDivision
<1> HIDE DEF a, b
<1>2. Capacity * (a + 1) = Capacity * a + Capacity
  BY <1>1, CapacityAssumption
<1>3. Capacity * a \in Nat /\ Capacity * b \in Nat
  BY <1>1, CapacityAssumption
<1>4. Capacity * (a + 1) + SlotIndex(q) = Capacity * b + SlotIndex(q + Capacity)
  BY SMTT(30), <1>1, <1>2, <1>3, CapacityAssumption DEF SlotIndices
<1> QED
  BY <1>1, <1>4, LapAndSlotUnique

\* Positions less than a lap apart use different slots.
LEMMA SlotIndexInjective ==
  ASSUME NEW q \in Nat, NEW r \in Nat, q < r, r < q + Capacity
  PROVE  SlotIndex(q) # SlotIndex(r)
<1> DEFINE a == q \div Capacity
           b == r \div Capacity
<1>1. /\ a \in Nat /\ b \in Nat
      /\ q = Capacity * a + SlotIndex(q)
      /\ r = Capacity * b + SlotIndex(r)
      /\ SlotIndex(q) \in SlotIndices
      /\ SlotIndex(r) \in SlotIndices
  BY SlotIndexDivision
<1> HIDE DEF a, b
<1>2. Capacity * a \in Nat /\ Capacity * b \in Nat
  BY <1>1, CapacityAssumption
<1>3. ASSUME a < b PROVE Capacity * a + Capacity <= Capacity * b
  BY <1>1, <1>3, LapsApart
<1>4. ASSUME b < a PROVE Capacity * b + Capacity <= Capacity * a
  BY <1>1, <1>4, LapsApart
<1>5. CASE a = b
  BY <1>1, <1>2, <1>5, CapacityAssumption DEF SlotIndices
<1>6. CASE a < b
  BY <1>1, <1>2, <1>3, <1>6, CapacityAssumption DEF SlotIndices
<1>7. CASE b < a
  BY <1>1, <1>2, <1>4, <1>7, CapacityAssumption DEF SlotIndices
<1> QED
  BY <1>1, <1>5, <1>6, <1>7

\* The positions of one lap use every slot at most once.
LEMMA WindowInjective ==
  ASSUME NEW lo \in Nat,
         NEW q \in lo .. lo + Capacity - 1, NEW r \in lo .. lo + Capacity - 1,
         SlotIndex(q) = SlotIndex(r)
  PROVE  q = r
<1>0. q \in Nat /\ r \in Nat /\ q < r + Capacity /\ r < q + Capacity
  BY CapacityAssumption
<1>1. ~ (q < r)
  BY <1>0, SlotIndexInjective
<1>2. ~ (r < q)
  BY <1>0, SlotIndexInjective
<1> QED
  BY <1>0, <1>1, <1>2

\* The slot of a position given by its lap and its place in the lap.
LEMMA SlotIndexOfLap ==
  ASSUME NEW a \in Nat, NEW x \in SlotIndices
  PROVE  Capacity * a + x \in Nat /\ SlotIndex(Capacity * a + x) = x
<1> DEFINE q == Capacity * a + x
<1>1. Capacity * a \in Nat
  BY CapacityAssumption
<1>2. q \in Nat
  BY <1>1, CapacityAssumption DEF SlotIndices
<1>3. /\ q \div Capacity \in Nat
      /\ SlotIndex(q) \in SlotIndices
      /\ q = Capacity * (q \div Capacity) + SlotIndex(q)
  BY <1>2, SlotIndexDivision
<1>4. Capacity * a + x = Capacity * (q \div Capacity) + SlotIndex(q)
  BY <1>3
<1>5. SlotIndex(q) = x
  BY ONLY <1>3, <1>4, LapAndSlotUnique, a \in Nat, x \in SlotIndices
<1> QED
  BY <1>2, <1>5

\* The positions of one lap use every slot.
LEMMA WindowCovers ==
  ASSUME NEW lo \in Nat, NEW q \in Nat
  PROVE  \E r \in lo .. lo + Capacity - 1 : SlotIndex(r) = SlotIndex(q)
<1> DEFINE a == lo \div Capacity
           x == SlotIndex(q)
<1>1. /\ a \in Nat
      /\ SlotIndex(lo) \in SlotIndices /\ x \in SlotIndices
      /\ lo = Capacity * a + SlotIndex(lo)
  BY SlotIndexDivision
<1> HIDE DEF a, x
<1>2. /\ Capacity * a \in Nat
      /\ Capacity * (a + 1) = Capacity * a + Capacity
  BY <1>1, CapacityAssumption
<1>3. CASE SlotIndex(lo) <= x
  <2>1. Capacity * a + x \in lo .. lo + Capacity - 1
    BY <1>1, <1>2, <1>3, CapacityAssumption DEF SlotIndices
  <2> QED
    BY <1>1, <2>1, SlotIndexOfLap DEF x
<1>4. CASE x < SlotIndex(lo)
  <2>1. Capacity * (a + 1) + x \in lo .. lo + Capacity - 1
    BY <1>1, <1>2, <1>4, CapacityAssumption DEF SlotIndices
  <2>2. a + 1 \in Nat
    BY <1>1
  <2> QED
    BY <1>1, <2>1, <2>2, SlotIndexOfLap DEF x
<1> QED
  BY <1>1, <1>3, <1>4, CapacityAssumption DEF SlotIndices

-----------------------------------------------------------------------------
(* The ring invariant is inductive. *)

\* A new queue satisfies the ring invariant.
LEMMA InitEstablishesRingInv == Init => RingInv
<1> SUFFICES ASSUME Init PROVE RingInv
  OBVIOUS
<1> USE CapacityAssumption, UninitAssumption DEF Init
<1>1. TypeOK
  BY DEF TypeOK, SlotIndices
<1>2. Counters /\ ClaimedSlots /\ FifoDelivery
  BY DEF Counters, Released, ClaimedSlots, FifoDelivery, TypeOK
<1>3. FreeSlots
  <2> SUFFICES ASSUME NEW q \in 0 .. Capacity - 1
               PROVE  SlotIndex(q) = q /\ SlotIndex(q) \in SlotIndices
    BY DEF FreeSlots, Released
  <2>1. SlotIndex(q) \in SlotIndices
    BY SlotIndexDivision
  <2>2. SlotIndex(q) = q
    BY DEF SlotIndex
  <2> QED BY <2>1, <2>2
<1>4. ProducerLocals /\ OnePositionOneProducer /\ ConsumerLocals
  BY DEF ProducerLocals, ProducerLocal, OnePositionOneProducer, ConsumerLocals
<1> QED
  BY <1>1, <1>2, <1>3, <1>4 DEF RingInv

\* A call of try_enqueue touches no slot yet.
LEMMA TryEnqueuePreservesRingInv ==
  ASSUME RingInv, NEW p \in Producers, NEW x \in Items, TryEnqueue(p, x)
  PROVE  RingInv'
<1> USE DEF RingInv, TryEnqueue, ProducerGoto, shared
<1>1. TypeOK'
  BY DEF TypeOK
<1>2. (Counters /\ FreeSlots /\ ClaimedSlots /\ ConsumerLocals /\ FifoDelivery)'
  BY DEF Counters, Released, FreeSlots, ClaimedSlots, ClaimedSlot,
         ConsumerLocals, FifoDelivery
<1>3. (ProducerLocals /\ OnePositionOneProducer)'
  BY DEF ProducerLocals, ProducerLocal, OnePositionOneProducer, Released, TypeOK
<1> QED
  BY <1>1, <1>2, <1>3

\* The position a producer reads is one the counter has reached.
LEMMA LoadPositionPreservesRingInv ==
  ASSUME RingInv, NEW p \in Producers, LoadPosition(p)
  PROVE  RingInv'
<1> USE DEF RingInv, LoadPosition, ProducerGoto, shared, history
<1>1. TypeOK'
  BY DEF TypeOK
<1>2. (Counters /\ FreeSlots /\ ClaimedSlots /\ ConsumerLocals /\ FifoDelivery)'
  BY DEF Counters, Released, FreeSlots, ClaimedSlots, ClaimedSlot,
         ConsumerLocals, FifoDelivery
<1>3. (ProducerLocals /\ OnePositionOneProducer)'
  BY DEF ProducerLocals, ProducerLocal, OnePositionOneProducer, Released, TypeOK
<1> QED
  BY <1>1, <1>2, <1>3

\* A producer that finds its slot free at an up to date position has found a
\* position of the current lap: a full ring would show the number of the oldest
\* claimed position or its successor, and a lap is longer than that.
LEMMA LoadSequencePreservesRingInv ==
  ASSUME RingInv, NEW p \in Producers, LoadSequence(p)
  PROVE  RingInv'
<1> USE DEF RingInv, LoadSequence, ProducerGoto, shared, history
<1>1. TypeOK'
  BY ZenonT(60) DEF TypeOK
<1>2. (Counters /\ FreeSlots /\ ClaimedSlots /\ ConsumerLocals /\ FifoDelivery)'
  BY SMTT(30) DEF Counters, Released, FreeSlots, ClaimedSlots, ClaimedSlot,
         ConsumerLocals, FifoDelivery
<1>3. EnqueueDifference(p) = 0 /\ position[p] = producer_index
        => producer_index < Released + Capacity
  <2> SUFFICES ASSUME EnqueueDifference(p) = 0, position[p] = producer_index,
                      producer_index = Released + Capacity
               PROVE  FALSE
    BY CapacityAssumption DEF Counters, TypeOK, Released
  <2>1. Released \in Nat /\ Released \in Released .. producer_index - 1
    BY CapacityAssumption DEF Released, TypeOK
  <2>2. SlotIndex(producer_index) = SlotIndex(Released)
    BY <2>1, SlotIndexNextLap
  <2>3. SlotIndex(Released) \in SlotIndices
    BY <2>1, SlotIndexDivision
  <2>4. sequence[SlotIndex(Released)] = producer_index
    BY <2>2, <2>3 DEF EnqueueDifference, TypeOK
  <2>5. sequence[SlotIndex(Released)] \in {Released, Released + 1}
    BY <2>1 DEF ClaimedSlots, ClaimedSlot
  <2> QED
    BY <2>1, <2>4, <2>5, CapacityAssumption
<1>4. PICK l \in {"idle", "load_position", "compare_exchange"} :
        /\ ppc' = [ppc EXCEPT ![p] = l]
        /\ l = "compare_exchange" => EnqueueDifference(p) = 0
  OBVIOUS
<1>5. ProducerLocals'
  <2> SUFFICES ASSUME NEW r \in Producers
               PROVE  ProducerLocal(r)'
    BY DEF ProducerLocals
  <2>1. ProducerLocal(r) /\ ProducerLocal(p)
    BY DEF ProducerLocals
  <2>2. CASE r = p
    BY <1>3, <1>4, <2>1, <2>2 DEF ProducerLocal, Released, TypeOK
  <2>3. CASE r # p
    BY <1>4, <2>1, <2>3 DEF ProducerLocal, Released, TypeOK
  <2> QED
    BY <2>2, <2>3
<1>6. OnePositionOneProducer'
  BY <1>4 DEF OnePositionOneProducer, TypeOK
<1> QED
  BY <1>1, <1>2, <1>5, <1>6

\* The claimed position moves from the free to the claimed part of the lap; its
\* slot is empty and nobody else's.
LEMMA CompareExchangePreservesRingInv ==
  ASSUME RingInv, NEW p \in Producers, CompareExchange(p)
  PROVE  RingInv'
<1> USE DEF RingInv, ProducerGoto
<1>1. CASE producer_index # position[p]
  <2>0. /\ ppc' = [ppc EXCEPT ![p] = "load_position"]
        /\ UNCHANGED <<shared, position, item, cpc, taken, history>>
    BY <1>1 DEF CompareExchange, shared, history
  <2> USE <2>0 DEF shared, history
  <2>1. TypeOK'
    BY DEF TypeOK
  <2>2. (Counters /\ FreeSlots /\ ClaimedSlots /\ ConsumerLocals /\ FifoDelivery)'
    BY DEF Counters, Released, FreeSlots, ClaimedSlots, ClaimedSlot,
         ConsumerLocals, FifoDelivery
  <2>3. (ProducerLocals /\ OnePositionOneProducer)'
    BY DEF CompareExchange, ProducerLocals, ProducerLocal, OnePositionOneProducer,
           Released, TypeOK
  <2> QED
    BY <2>1, <2>2, <2>3
<1>2. CASE producer_index = position[p]
  <2>0. /\ ppc[p] = "compare_exchange"
        /\ ppc' = [ppc EXCEPT ![p] = "write"]
        /\ producer_index' = producer_index + 1
        /\ claimed' = Append(claimed, item[p])
        /\ UNCHANGED <<consumer_index, sequence, data, position, item, cpc, taken,
                       unsent, delivered>>
        /\ Released' = Released
    BY <1>2 DEF CompareExchange, Released
  <2> USE <2>0
  <2>1. /\ producer_index \in Nat /\ Released \in Nat
        /\ item[p] \in Items
        /\ Released <= producer_index
        /\ producer_index < Released + Capacity
        /\ producer_index \in producer_index .. Released + Capacity - 1
    BY <1>2, CapacityAssumption DEF TypeOK, ProducerLocals, ProducerLocal, Counters, Released
  <2>2. /\ sequence[SlotIndex(producer_index)] = producer_index
        /\ data[SlotIndex(producer_index)] = Uninit
    BY <2>1 DEF FreeSlots
  <2>3. /\ Len(claimed') = producer_index'
        /\ claimed'[producer_index + 1] = item[p]
        /\ \A k \in 1 .. producer_index : claimed'[k] = claimed[k]
    BY <2>1 DEF TypeOK, Counters
  <2>4. TypeOK'
    BY <2>1 DEF TypeOK
  <2>5. Counters'
    BY <2>1, <2>3, CapacityAssumption DEF Counters
  <2>6. FreeSlots'
    BY SMTT(30), <2>1, CapacityAssumption DEF FreeSlots
  <2>7. ClaimedSlots'
    <3> SUFFICES ASSUME NEW q \in Released .. producer_index
                 PROVE  ClaimedSlot(q)'
      BY <2>1 DEF ClaimedSlots
    <3>1. CASE q = producer_index
      BY <3>1, <2>1, <2>2 DEF ClaimedSlot
    <3>2. CASE q \in Released .. producer_index - 1
      BY SMTT(30), <3>2, <2>1, <2>3 DEF ClaimedSlots, ClaimedSlot
    <3> QED
      BY <3>1, <3>2, <2>1
  <2>8. ProducerLocals'
    <3> SUFFICES ASSUME NEW r \in Producers
                 PROVE  ProducerLocal(r)'
      BY DEF ProducerLocals
    <3>1. ProducerLocal(r)
      BY DEF ProducerLocals
    <3>2. CASE r = p
      BY <1>2, <2>1, <2>2, <2>3, <3>2 DEF ProducerLocal, TypeOK
    <3>3. CASE r # p
      <4>1. ppc'[r] = ppc[r] /\ position[r] \in Nat
        BY <3>3 DEF TypeOK
      <4> QED
        BY <2>1, <2>3, <3>1, <4>1 DEF ProducerLocal
    <3> QED
      BY <3>2, <3>3
  <2>9. OnePositionOneProducer'
    BY SMTT(30), <1>2, <2>1 DEF OnePositionOneProducer, ProducerLocals, ProducerLocal, TypeOK
  <2>10. ConsumerLocals'
    BY SMTT(30), <2>1, <2>3 DEF ConsumerLocals, TypeOK
  <2>11. FifoDelivery'
    <3>1. Len(delivered) = Released /\ Len(claimed) = producer_index
      BY DEF Counters
    <3> QED
      BY SMTT(30), <2>1, <2>3, <3>1 DEF FifoDelivery
  <2> QED
    BY <2>4, <2>5, <2>6, <2>7, <2>8, <2>9, <2>10, <2>11
<1> QED
  BY <1>1, <1>2

\* Facts about a producer that has claimed a position, used by the two steps it
\* takes there: its slot is in range, and no other position of the lap has it.
LEMMA ClaimedPositionOwnsSlot ==
  ASSUME RingInv, NEW p \in Producers, ppc[p] \in {"write", "publish"}
  PROVE  /\ position[p] \in Nat /\ Released \in Nat /\ producer_index \in Nat
         /\ position[p] \in Released .. producer_index - 1
         /\ SlotIndex(position[p]) \in SlotIndices
         /\ \A q \in Released .. Released + Capacity - 1 :
              SlotIndex(q) = SlotIndex(position[p]) => q = position[p]
         /\ \A r \in Producers \ {p} :
              ppc[r] \in {"write", "publish"} =>
                /\ position[r] # position[p]
                /\ SlotIndex(position[r]) # SlotIndex(position[p])
<1> USE DEF RingInv
<1>1. /\ position[p] \in Nat /\ Released \in Nat /\ producer_index \in Nat
      /\ position[p] \in Released .. producer_index - 1
      /\ position[p] \in Released .. Released + Capacity - 1
  BY CapacityAssumption DEF TypeOK, Released, ProducerLocals, ProducerLocal, Counters
<1>2. SlotIndex(position[p]) \in SlotIndices
  BY <1>1, SlotIndexDivision
<1>3. \A q \in Released .. Released + Capacity - 1 :
        SlotIndex(q) = SlotIndex(position[p]) => q = position[p]
  BY <1>1, WindowInjective
<1>4. ASSUME NEW r \in Producers \ {p}, ppc[r] \in {"write", "publish"}
      PROVE  position[r] # position[p] /\ SlotIndex(position[r]) # SlotIndex(position[p])
  <2>1. position[r] # position[p]
    BY <1>4 DEF OnePositionOneProducer
  <2>2. position[r] \in Released .. Released + Capacity - 1
    BY <1>1, <1>4, CapacityAssumption DEF ProducerLocals, ProducerLocal, Counters
  <2> QED
    BY <1>3, <2>1, <2>2
<1> QED
  BY <1>1, <1>2, <1>3, <1>4

\* The item goes into a slot that only its claimant uses.
LEMMA WriteItemPreservesRingInv ==
  ASSUME RingInv, NEW p \in Producers, WriteItem(p)
  PROVE  RingInv'
<1> DEFINE s == SlotIndex(position[p])
<1>0. /\ ppc[p] = "write"
      /\ ppc' = [ppc EXCEPT ![p] = "publish"]
      /\ data' = [data EXCEPT ![s] = item[p]]
      /\ UNCHANGED <<producer_index, consumer_index, sequence, position, item, cpc,
                     taken, history>>
      /\ Released' = Released
  BY DEF WriteItem, ProducerGoto, Released
<1>1. /\ position[p] \in Nat /\ Released \in Nat /\ producer_index \in Nat
      /\ position[p] \in Released .. producer_index - 1
      /\ s \in SlotIndices
      /\ \A q \in Released .. Released + Capacity - 1 :
           SlotIndex(q) = s => q = position[p]
      /\ \A r \in Producers \ {p} :
           ppc[r] \in {"write", "publish"} => SlotIndex(position[r]) # s
  BY <1>0, ClaimedPositionOwnsSlot
<1>2. /\ sequence[s] = position[p]
      /\ item[p] \in Items
      /\ claimed[position[p] + 1] = item[p]
  BY <1>0 DEF RingInv, ProducerLocals, ProducerLocal
<1>3. \A q \in Released .. Released + Capacity - 1 :
        q # position[p] => data'[SlotIndex(q)] = data[SlotIndex(q)]
  <2> SUFFICES ASSUME NEW q \in Released .. Released + Capacity - 1, q # position[p]
               PROVE  data'[SlotIndex(q)] = data[SlotIndex(q)]
    OBVIOUS
  <2>1. SlotIndex(q) \in SlotIndices /\ SlotIndex(q) # s
    BY <1>1, SlotIndexDivision
  <2> QED
    BY <1>0, <2>1 DEF RingInv, TypeOK
<1>4. data'[s] = item[p]
  BY <1>0, <1>1 DEF RingInv, TypeOK
<1> HIDE DEF s
<1> USE DEF RingInv
<1>5. TypeOK'
  BY <1>0, <1>1, <1>2 DEF TypeOK, history
<1>6. Counters' /\ FifoDelivery'
  BY <1>0 DEF Counters, FifoDelivery, history
<1>7. FreeSlots'
  BY SMTT(30), <1>0, <1>1, <1>3, CapacityAssumption DEF FreeSlots, Counters
<1>8. ClaimedSlots'
  <2> SUFFICES ASSUME NEW q \in Released .. producer_index - 1
               PROVE  ClaimedSlot(q)'
    BY <1>0 DEF ClaimedSlots
  <2>1. ClaimedSlot(q)
    BY DEF ClaimedSlots
  <2>2. CASE q = position[p]
    BY SMTT(30), <1>0, <1>1, <1>2, <2>2 DEF ClaimedSlot, s
  <2>3. CASE q # position[p]
    <3>1. q \in Released .. Released + Capacity - 1
      BY <1>1, CapacityAssumption DEF Counters
    <3> QED
      BY <1>0, <1>3, <2>1, <2>3, <3>1 DEF ClaimedSlot, history
  <2> QED
    BY <2>2, <2>3
<1>9. ProducerLocals'
  <2> SUFFICES ASSUME NEW r \in Producers
               PROVE  ProducerLocal(r)'
    BY DEF ProducerLocals
  <2>1. ProducerLocal(r)
    BY DEF ProducerLocals
  <2>2. CASE r = p
    BY <1>0, <1>1, <1>2, <1>4, <2>2 DEF ProducerLocal, TypeOK, history, s
  <2>3. CASE r # p
    <3>1. ppc'[r] = ppc[r]
      BY <1>0, <2>3 DEF TypeOK
    <3>2. ppc[r] \in {"write", "publish"}
            => data'[SlotIndex(position[r])] = data[SlotIndex(position[r])]
      <4> SUFFICES ASSUME ppc[r] \in {"write", "publish"}
                   PROVE  data'[SlotIndex(position[r])] = data[SlotIndex(position[r])]
        OBVIOUS
      <4>1. position[r] \in Released .. Released + Capacity - 1
        BY <2>1, <1>1, CapacityAssumption DEF ProducerLocal, Counters
      <4>2. position[r] # position[p]
        BY <1>0, <2>3 DEF OnePositionOneProducer
      <4> QED
        BY <1>3, <4>1, <4>2
    <3> QED
      BY <1>0, <2>1, <3>1, <3>2 DEF ProducerLocal, history
  <2> QED
    BY <2>2, <2>3
<1>10. OnePositionOneProducer'
  BY <1>0 DEF OnePositionOneProducer, TypeOK
<1>11. ConsumerLocals'
  <2> SUFFICES ASSUME cpc \in {"read", "release"}
               PROVE  /\ consumer_index \in Released .. Released + Capacity - 1
                      /\ consumer_index # position[p]
    BY <1>0, <1>3 DEF ConsumerLocals, history
  <2>1. consumer_index = Released
    BY DEF Released
  <2>2. sequence[SlotIndex(consumer_index)] = consumer_index + 1
    BY DEF ConsumerLocals
  <2> QED
    BY <1>1, <1>2, <2>1, <2>2, CapacityAssumption DEF s
<1> QED
  BY <1>5, <1>6, <1>7, <1>8, <1>9, <1>10, <1>11

\* The store of the sequence makes the claimed slot a ready one.
LEMMA PublishPreservesRingInv ==
  ASSUME RingInv, NEW p \in Producers, Publish(p)
  PROVE  RingInv'
<1> DEFINE s == SlotIndex(position[p])
<1>0. /\ ppc[p] = "publish"
      /\ ppc' = [ppc EXCEPT ![p] = "idle"]
      /\ sequence' = [sequence EXCEPT ![s] = position[p] + 1]
      /\ UNCHANGED <<producer_index, consumer_index, data, position, item, cpc,
                     taken, history>>
      /\ Released' = Released
  BY DEF Publish, ProducerGoto, Released
<1>1. /\ position[p] \in Nat /\ Released \in Nat /\ producer_index \in Nat
      /\ position[p] \in Released .. producer_index - 1
      /\ s \in SlotIndices
      /\ \A q \in Released .. Released + Capacity - 1 :
           SlotIndex(q) = s => q = position[p]
  BY <1>0, ClaimedPositionOwnsSlot
<1>2. /\ sequence[s] = position[p]
      /\ claimed[position[p] + 1] = item[p]
      /\ data[s] = item[p]
  BY <1>0 DEF RingInv, ProducerLocals, ProducerLocal
<1>3. \A q \in Released .. Released + Capacity - 1 :
        q # position[p] => sequence'[SlotIndex(q)] = sequence[SlotIndex(q)]
  <2> SUFFICES ASSUME NEW q \in Released .. Released + Capacity - 1, q # position[p]
               PROVE  sequence'[SlotIndex(q)] = sequence[SlotIndex(q)]
    OBVIOUS
  <2>1. SlotIndex(q) \in SlotIndices /\ SlotIndex(q) # s
    BY <1>1, SlotIndexDivision
  <2> QED
    BY <1>0, <2>1 DEF RingInv, TypeOK
<1>4. sequence'[s] = position[p] + 1
  BY <1>0, <1>1 DEF RingInv, TypeOK
<1> HIDE DEF s
<1> USE DEF RingInv
<1>5. TypeOK'
  BY <1>0, <1>1 DEF TypeOK, history
<1>6. Counters' /\ FifoDelivery'
  BY <1>0 DEF Counters, FifoDelivery, history
<1>7. FreeSlots'
  BY <1>0, <1>1, <1>3, CapacityAssumption DEF FreeSlots, Counters
<1>8. ClaimedSlots'
  <2> SUFFICES ASSUME NEW q \in Released .. producer_index - 1
               PROVE  ClaimedSlot(q)'
    BY <1>0 DEF ClaimedSlots
  <2>1. ClaimedSlot(q)
    BY DEF ClaimedSlots
  <2>2. CASE q = position[p]
    BY <1>0, <1>1, <1>2, <1>4, <2>2 DEF ClaimedSlot, s, history
  <2>3. CASE q # position[p]
    <3>1. q \in Released .. Released + Capacity - 1
      BY <1>1, CapacityAssumption DEF Counters
    <3> QED
      BY <1>0, <1>3, <2>1, <2>3, <3>1 DEF ClaimedSlot, history
  <2> QED
    BY <2>2, <2>3
<1>9. ProducerLocals'
  <2> SUFFICES ASSUME NEW r \in Producers
               PROVE  ProducerLocal(r)'
    BY DEF ProducerLocals
  <2>1. ProducerLocal(r)
    BY DEF ProducerLocals
  <2>2. CASE r = p
    BY <1>0, <2>2 DEF ProducerLocal, TypeOK
  <2>3. CASE r # p
    <3>1. ppc'[r] = ppc[r]
      BY <1>0, <2>3 DEF TypeOK
    <3>2. ppc[r] \in {"write", "publish"}
            => sequence'[SlotIndex(position[r])] = sequence[SlotIndex(position[r])]
      <4> SUFFICES ASSUME ppc[r] \in {"write", "publish"}
                   PROVE  /\ position[r] \in Released .. Released + Capacity - 1
                          /\ position[r] # position[p]
        BY <1>3
      <4>1. position[r] \in Released .. Released + Capacity - 1
        BY <2>1, <1>1, CapacityAssumption DEF ProducerLocal, Counters
      <4>2. position[r] # position[p]
        BY <1>0, <2>3 DEF OnePositionOneProducer
      <4> QED
        BY <4>1, <4>2
    <3> QED
      BY <1>0, <2>1, <3>1, <3>2 DEF ProducerLocal, history
  <2> QED
    BY <2>2, <2>3
<1>10. OnePositionOneProducer'
  BY <1>0 DEF OnePositionOneProducer, TypeOK
<1>11. ConsumerLocals'
  <2> SUFFICES ASSUME cpc \in {"read", "release"}
               PROVE  /\ consumer_index \in Released .. Released + Capacity - 1
                      /\ consumer_index # position[p]
    BY <1>0, <1>3 DEF ConsumerLocals, history
  <2>1. consumer_index = Released
    BY DEF Released
  <2>2. sequence[SlotIndex(consumer_index)] = consumer_index + 1
    BY DEF ConsumerLocals
  <2> QED
    BY SMTT(30), <1>1, <1>2, <2>1, <2>2, CapacityAssumption DEF s
<1> QED
  BY <1>5, <1>6, <1>7, <1>8, <1>9, <1>10, <1>11

\* A head with a published sequence number is a claimed position: a free slot
\* shows its own position, and a lap is longer than one.
LEMMA PeekedIsClaimed ==
  ASSUME RingInv, cpc = "idle", Peek
  PROVE  consumer_index < producer_index
<1> USE DEF RingInv
<1> SUFFICES ASSUME consumer_index >= producer_index
             PROVE  FALSE
  BY DEF TypeOK
<1>1. consumer_index \in producer_index .. Released + Capacity - 1
  BY CapacityAssumption DEF TypeOK, Released
<1>2. sequence[SlotIndex(consumer_index)] = consumer_index
  BY <1>1 DEF FreeSlots
<1> QED
  BY <1>2 DEF Peek, TypeOK

\* Looking at the head slot changes nothing in the ring.
LEMMA TryDequeuePreservesRingInv ==
  ASSUME RingInv, TryDequeue
  PROVE  RingInv'
<1> USE DEF RingInv, TryDequeue, shared, history
<1>1. consumer_index < producer_index
  BY PeekedIsClaimed
<1>2. TypeOK'
  BY DEF TypeOK
<1>3. Released' = Released
  BY DEF Released
<1>4. (Counters /\ FreeSlots /\ ClaimedSlots /\ FifoDelivery)'
  BY <1>3 DEF Counters, FreeSlots, ClaimedSlots, ClaimedSlot, FifoDelivery
<1>5. (ProducerLocals /\ OnePositionOneProducer)'
  BY <1>3 DEF ProducerLocals, ProducerLocal, OnePositionOneProducer
<1>6. ConsumerLocals'
  BY <1>1 DEF ConsumerLocals, Peek
<1> QED
  BY <1>2, <1>4, <1>5, <1>6

\* The consumer reads the item of the slot at its position.
LEMMA ReadItemPreservesRingInv ==
  ASSUME RingInv, ReadItem
  PROVE  RingInv'
<1> DEFINE s == SlotIndex(consumer_index)
<1>0. /\ cpc = "read" /\ cpc' = "release"
      /\ taken' = data[s]
      /\ data' = [data EXCEPT ![s] = Uninit]
      /\ UNCHANGED <<producer_index, consumer_index, sequence, ppc, position, item,
                     history>>
      /\ Released = consumer_index /\ Released' = consumer_index
  BY DEF ReadItem, Released
<1> USE DEF RingInv
<1>1. /\ consumer_index \in Nat /\ producer_index \in Nat
      /\ consumer_index < producer_index
      /\ producer_index <= consumer_index + Capacity
      /\ sequence[s] = consumer_index + 1
      /\ s \in SlotIndices
  BY <1>0, SlotIndexDivision DEF TypeOK, ConsumerLocals, Counters
<1>2. taken' = claimed[consumer_index + 1]
  BY <1>0, <1>1 DEF ClaimedSlots, ClaimedSlot
<1>3. \A q \in Released .. Released + Capacity - 1 :
        q # consumer_index => data'[SlotIndex(q)] = data[SlotIndex(q)]
  <2> SUFFICES ASSUME NEW q \in Released .. Released + Capacity - 1, q # consumer_index
               PROVE  data'[SlotIndex(q)] = data[SlotIndex(q)]
    OBVIOUS
  <2>0. consumer_index \in Released .. Released + Capacity - 1 /\ q \in Nat
    BY <1>0, <1>1, CapacityAssumption
  <2>1. SlotIndex(q) \in SlotIndices /\ SlotIndex(q) # s
    BY <1>0, <1>1, <2>0, WindowInjective, SlotIndexDivision
  <2> QED
    BY <1>0, <2>1 DEF TypeOK
<1>4. data'[s] = Uninit
  BY <1>0, <1>1 DEF TypeOK
<1>5. TypeOK'
  BY <1>0, <1>1 DEF TypeOK, history
<1>6. Counters' /\ FifoDelivery' /\ OnePositionOneProducer'
  BY <1>0 DEF Counters, FifoDelivery, OnePositionOneProducer, history
<1>7. FreeSlots'
  BY <1>0, <1>1, <1>3, CapacityAssumption DEF FreeSlots
<1>8. ClaimedSlots'
  BY <1>0, <1>1, <1>3, CapacityAssumption DEF ClaimedSlots, ClaimedSlot, history
<1>9. ProducerLocals'
  <2> SUFFICES ASSUME NEW r \in Producers
               PROVE  ProducerLocal(r)'
    BY DEF ProducerLocals
  <2>1. ProducerLocal(r)
    BY DEF ProducerLocals
  <2>2. ppc[r] \in {"write", "publish"}
          => data'[SlotIndex(position[r])] = data[SlotIndex(position[r])]
    <3> SUFFICES ASSUME ppc[r] \in {"write", "publish"}
                 PROVE  /\ position[r] \in Released .. Released + Capacity - 1
                        /\ position[r] # consumer_index
      BY <1>3
    <3>1. position[r] \in Released .. Released + Capacity - 1
      BY SMTT(30), <1>0, <1>1, <2>1, CapacityAssumption DEF ProducerLocal
    <3>2. position[r] # consumer_index
      BY SMTT(30), <1>1, <2>1 DEF ProducerLocal
    <3> QED
      BY <3>1, <3>2
  <2> QED
    BY <1>0, <2>1, <2>2 DEF ProducerLocal, history
<1>10. ConsumerLocals'
  BY <1>0, <1>1, <1>2, <1>4 DEF ConsumerLocals, history
<1> QED
  BY <1>5, <1>6, <1>7, <1>8, <1>9, <1>10

\* The released position leaves the lap at its low end and the position one lap
\* later, which has the same slot, enters it at its high end as a free one.
LEMMA ReleaseSlotPreservesRingInv ==
  ASSUME RingInv, ReleaseSlot
  PROVE  RingInv'
<1> DEFINE s == SlotIndex(consumer_index)
<1>0. /\ cpc = "release" /\ cpc' = "advance"
      /\ sequence' = [sequence EXCEPT ![s] = consumer_index + Capacity]
      /\ delivered' = Append(delivered, taken)
      /\ UNCHANGED <<producer_index, consumer_index, data, ppc, position, item,
                     taken, unsent, claimed>>
      /\ Released = consumer_index /\ Released' = consumer_index + 1
  BY DEF ReleaseSlot, Released
<1> USE DEF RingInv
<1>1. /\ consumer_index \in Nat /\ producer_index \in Nat
      /\ consumer_index < producer_index
      /\ producer_index <= consumer_index + Capacity
      /\ sequence[s] = consumer_index + 1
      /\ data[s] = Uninit
      /\ taken = claimed[consumer_index + 1]
      /\ Len(claimed) = producer_index
      /\ Len(delivered) = consumer_index
      /\ s \in SlotIndices
  BY <1>0, SlotIndexDivision DEF TypeOK, ConsumerLocals, Counters
<1>2. \A q \in consumer_index + 1 .. consumer_index + Capacity - 1 :
        sequence'[SlotIndex(q)] = sequence[SlotIndex(q)]
  <2> SUFFICES ASSUME NEW q \in consumer_index + 1 .. consumer_index + Capacity - 1
               PROVE  sequence'[SlotIndex(q)] = sequence[SlotIndex(q)]
    OBVIOUS
  <2>0. q \in Nat /\ consumer_index < q /\ q < consumer_index + Capacity
    BY <1>1, CapacityAssumption
  <2>1. SlotIndex(q) \in SlotIndices /\ SlotIndex(q) # s
    BY <1>1, <2>0, SlotIndexInjective, SlotIndexDivision
  <2> QED
    BY <1>0, <2>1 DEF TypeOK
<1>3. /\ sequence'[s] = consumer_index + Capacity
      /\ SlotIndex(consumer_index + Capacity) = s
  BY <1>0, <1>1, SlotIndexNextLap DEF TypeOK
<1>4. taken \in Items
  BY SMTT(30), <1>1 DEF TypeOK
<1>5. TypeOK'
  BY SMTT(30), <1>0, <1>1, <1>4, CapacityAssumption DEF TypeOK
<1>6. Counters'
  BY <1>0, <1>1, <1>4, CapacityAssumption DEF Counters, TypeOK
<1>7. FifoDelivery'
  <2>1. /\ Len(delivered') = consumer_index + 1
        /\ delivered'[consumer_index + 1] = taken
        /\ \A k \in 1 .. consumer_index : delivered'[k] = delivered[k]
    BY <1>0, <1>1, <1>4 DEF TypeOK
  <2> QED
    BY <1>0, <1>1, <2>1 DEF FifoDelivery
<1>8. FreeSlots'
  <2> SUFFICES ASSUME NEW q \in producer_index .. consumer_index + Capacity
               PROVE  /\ sequence'[SlotIndex(q)] = q
                      /\ data[SlotIndex(q)] = Uninit
    BY SMTT(30), <1>0, <1>1, CapacityAssumption DEF FreeSlots
  <2>1. CASE q = consumer_index + Capacity
    BY SMTT(30), <1>1, <1>3, <2>1
  <2>2. CASE q \in producer_index .. consumer_index + Capacity - 1
    BY SMTT(30), <1>0, <1>1, <1>2, <2>2, CapacityAssumption DEF FreeSlots
  <2> QED
    BY SMTT(30), <1>1, <2>1, <2>2, CapacityAssumption
<1>9. ClaimedSlots'
  <2> SUFFICES ASSUME NEW q \in consumer_index + 1 .. producer_index - 1
               PROVE  ClaimedSlot(q)'
    BY <1>0 DEF ClaimedSlots
  <2>1. ClaimedSlot(q) /\ sequence'[SlotIndex(q)] = sequence[SlotIndex(q)]
    BY <1>0, <1>1, <1>2, CapacityAssumption DEF ClaimedSlots
  <2> QED
    BY SMTT(30), <1>0, <1>1, <2>1 DEF ClaimedSlot
<1>10. ProducerLocals'
  <2> SUFFICES ASSUME NEW r \in Producers
               PROVE  ProducerLocal(r)'
    BY SMTT(30) DEF ProducerLocals
  <2>1. ProducerLocal(r)
    BY DEF ProducerLocals
  <2>2. ppc[r] \in {"write", "publish"} =>
          /\ position[r] \in consumer_index + 1 .. producer_index - 1
          /\ sequence'[SlotIndex(position[r])] = sequence[SlotIndex(position[r])]
    <3> SUFFICES ASSUME ppc[r] \in {"write", "publish"}
                 PROVE  position[r] \in consumer_index + 1 .. producer_index - 1
      BY SMTT(30), <1>1, <1>2, CapacityAssumption
    <3>1. position[r] # consumer_index
      BY SMTT(30), <1>1, <2>1 DEF ProducerLocal
    <3> QED
      BY SMTT(30), <1>0, <1>1, <2>1, <3>1 DEF ProducerLocal
  <2> QED
    BY SMTT(30), <1>0, <1>1, <2>1, <2>2, CapacityAssumption DEF ProducerLocal
<1>11. OnePositionOneProducer' /\ ConsumerLocals'
  BY <1>0 DEF OnePositionOneProducer, ConsumerLocals
<1> QED
  BY <1>5, <1>6, <1>7, <1>8, <1>9, <1>10, <1>11

\* The consumer moves on to the next position.
LEMMA AdvanceConsumerPreservesRingInv ==
  ASSUME RingInv, AdvanceConsumer
  PROVE  RingInv'
<1> USE DEF RingInv, AdvanceConsumer, history
<1>1. Released' = Released
  BY DEF Released
<1>2. TypeOK'
  BY DEF TypeOK
<1>3. (Counters /\ FreeSlots /\ FifoDelivery /\ OnePositionOneProducer)'
  BY <1>1 DEF Counters, FreeSlots, FifoDelivery, OnePositionOneProducer
<1>4. (ClaimedSlots /\ ProducerLocals /\ ConsumerLocals)'
  BY <1>1 DEF ClaimedSlots, ClaimedSlot, ProducerLocals, ProducerLocal, ConsumerLocals
<1> QED
  BY <1>2, <1>3, <1>4

\* Steps of others leave the invariant alone.
LEMMA StutterPreservesRingInv ==
  ASSUME RingInv, UNCHANGED vars
  PROVE  RingInv'
<1>0. /\ TypeOK /\ Counters /\ FreeSlots /\ ClaimedSlots /\ ProducerLocals
      /\ OnePositionOneProducer /\ ConsumerLocals /\ FifoDelivery
  BY DEF RingInv
<1>1. /\ UNCHANGED <<producer_index, consumer_index, sequence, data>>
      /\ UNCHANGED <<ppc, position, item, cpc, taken>>
      /\ UNCHANGED <<unsent, claimed, delivered>>
  BY DEF vars, shared, history
<1>2. TypeOK'
  BY <1>0, <1>1 DEF TypeOK
<1>3. Counters' /\ FreeSlots'
  BY <1>0, <1>1 DEF Counters, Released, FreeSlots
<1>4. ClaimedSlots'
  BY <1>0, <1>1 DEF ClaimedSlots, ClaimedSlot, Released
<1>5. ProducerLocals'
  BY <1>0, <1>1 DEF ProducerLocals, ProducerLocal, Released
<1>6. OnePositionOneProducer' /\ ConsumerLocals' /\ FifoDelivery'
  BY <1>0, <1>1 DEF OnePositionOneProducer, ConsumerLocals, FifoDelivery
<1> QED
  BY <1>2, <1>3, <1>4, <1>5, <1>6 DEF RingInv

-----------------------------------------------------------------------------
(* Theorems *)

\* The ring invariant holds in every reachable state, for every number of
\* producers, every capacity new accepts and any stream of items.
THEOREM RingInvariant == Spec => []RingInv
<1>1. Init => RingInv
  BY InitEstablishesRingInv
<1>2. RingInv /\ [Next]_vars => RingInv'
  <2> SUFFICES ASSUME RingInv, [Next]_vars
               PROVE  RingInv'
    OBVIOUS
  <2>1. ASSUME NEW p \in Producers, NEW x \in Items, TryEnqueue(p, x)
        PROVE  RingInv'
    BY <2>1, TryEnqueuePreservesRingInv
  <2>2. ASSUME NEW p \in Producers, Enqueuing(p)
        PROVE  RingInv'
    BY <2>2, LoadPositionPreservesRingInv, LoadSequencePreservesRingInv,
       CompareExchangePreservesRingInv, WriteItemPreservesRingInv,
       PublishPreservesRingInv DEF Enqueuing
  <2>3. CASE Dequeuing
    BY <2>3, TryDequeuePreservesRingInv, ReadItemPreservesRingInv,
       ReleaseSlotPreservesRingInv, AdvanceConsumerPreservesRingInv DEF Dequeuing
  <2>4. CASE UNCHANGED vars
    BY <2>4, StutterPreservesRingInv
  <2> QED
    BY <2>1, <2>2, <2>3, <2>4 DEF Next
<1> QED
  BY <1>1, <1>2, PTL DEF Spec

\* Every variable keeps its type, so no index leaves the slot array.
THEOREM TypeCorrect == Spec => []TypeOK
<1>1. RingInv => TypeOK
  BY DEF RingInv
<1> QED
  BY <1>1, RingInvariant, PTL

\* The unsynchronised accesses to the slots' data are exclusive (SlotsExclusive).
THEOREM SlotAccessExclusive == Spec => []SlotsExclusive
<1>1. RingInv => SlotsExclusive
  <2> SUFFICES ASSUME RingInv PROVE SlotsExclusive
    OBVIOUS
  <2>1. ASSUME NEW p \in Producers, NEW q \in Producers, NEW s \in SlotIndices,
               Owns(p, s), Owns(q, s)
        PROVE  p = q
    BY SMTT(30), <2>1, ClaimedPositionOwnsSlot DEF Owns
  <2>2. \A p \in Producers : ppc[p] = "write" => data[SlotIndex(position[p])] = Uninit
    BY DEF RingInv, ProducerLocals, ProducerLocal
  <2>3. ASSUME cpc = "read"
        PROVE  /\ data[SlotIndex(consumer_index)] # Uninit
               /\ \A p \in Producers : ~ Owns(p, SlotIndex(consumer_index))
    <3>1. /\ consumer_index \in Nat /\ producer_index \in Nat
          /\ Released = consumer_index
          /\ consumer_index \in Released .. producer_index - 1
          /\ sequence[SlotIndex(consumer_index)] = consumer_index + 1
          /\ Len(claimed) = producer_index
      BY SMTT(30), <2>3 DEF RingInv, TypeOK, Released, ConsumerLocals, Counters
    <3>2. data[SlotIndex(consumer_index)] = claimed[consumer_index + 1]
      BY <2>3, <3>1 DEF RingInv, ClaimedSlots, ClaimedSlot
    <3>3. claimed[consumer_index + 1] \in Items
      BY <3>1 DEF RingInv, TypeOK
    <3>4. ASSUME NEW p \in Producers, Owns(p, SlotIndex(consumer_index))
          PROVE  FALSE
      <4>1. /\ sequence[SlotIndex(position[p])] = position[p]
            /\ SlotIndex(position[p]) = SlotIndex(consumer_index)
            /\ position[p] \in Released .. producer_index - 1
        BY <3>4 DEF Owns, RingInv, ProducerLocals, ProducerLocal
      <4>2. \A r \in Released .. Released + Capacity - 1 :
              SlotIndex(r) = SlotIndex(position[p]) => r = position[p]
        BY <3>4, ClaimedPositionOwnsSlot DEF Owns
      <4>3. consumer_index = position[p]
        BY <3>1, <4>1, <4>2, CapacityAssumption
      <4> QED
        BY <3>1, <4>1, <4>3
    <3> QED
      BY <3>2, <3>3, <3>4, UninitAssumption
  <2> QED
    BY <2>1, <2>2, <2>3 DEF SlotsExclusive
<1> QED
  BY <1>1, RingInvariant, PTL

\* What is dequeued is what was claimed, in claim order (FifoDelivery).
THEOREM DeliveryIsFifo == Spec => []FifoDelivery
<1>1. RingInv => FifoDelivery
  BY DEF RingInv
<1> QED
  BY <1>1, RingInvariant, PTL

\* A sequence number below the position it is compared with is a proof that the
\* ring is full, however old the position is.
LEMMA LaggingSequenceMeansFull ==
  ASSUME RingInv, NEW p \in Producers, ppc[p] = "load_sequence",
         EnqueueDifference(p) < 0
  PROVE  producer_index = Len(delivered) + Capacity
<1> USE DEF RingInv
<1>1. /\ Released \in Nat /\ producer_index \in Nat /\ position[p] \in Nat
      /\ position[p] <= producer_index
      /\ Len(delivered) = Released
      /\ producer_index <= Released + Capacity
  BY SMTT(30) DEF TypeOK, Released, Counters, ProducerLocals, ProducerLocal
<1>2. PICK r \in Released .. Released + Capacity - 1 :
        SlotIndex(r) = SlotIndex(position[p])
  BY ZenonT(60), <1>1, WindowCovers
<1>3. r \in Nat /\ sequence[SlotIndex(r)] \in {r, r + 1}
  BY <1>1, <1>2, CapacityAssumption DEF FreeSlots, ClaimedSlots, ClaimedSlot
<1>4. sequence[SlotIndex(r)] < position[p]
  BY <1>1, <1>2, <1>3 DEF EnqueueDifference
<1>5. r < position[p]
  BY <1>1, <1>3, <1>4
<1>6. ASSUME position[p] < Released + Capacity PROVE FALSE
  BY <1>1, <1>2, <1>5, <1>6, WindowInjective, CapacityAssumption
<1> QED
  BY <1>1, <1>6, CapacityAssumption

\* try_enqueue answers false only while every slot is taken (RefusedOnlyWhenFull).
THEOREM RefusalMeansFull == Spec => RefusedOnlyWhenFull
<1> DEFINE Refusal ==
      \A p \in Producers :
        ppc[p] = "load_sequence" /\ ppc'[p] = "idle"
          => producer_index = Len(delivered) + Capacity
<1>1. RingInv /\ [Next]_vars => [Refusal]_vars
  <2> SUFFICES ASSUME RingInv, Next, NEW p \in Producers,
                      ppc[p] = "load_sequence", ppc'[p] = "idle"
               PROVE  producer_index = Len(delivered) + Capacity
    OBVIOUS
  <2>0. ppc \in [Producers -> {"idle", "load_position", "load_sequence",
                               "compare_exchange", "write", "publish"}]
    BY DEF RingInv, TypeOK
  <2>1. CASE LoadSequence(p)
    <3>1. EnqueueDifference(p) < 0
      BY <2>0, <2>1 DEF LoadSequence, ProducerGoto
    <3> QED
      BY <3>1, LaggingSequenceMeansFull
  <2>2. ASSUME NEW q \in Producers, NEW x \in Items, TryEnqueue(q, x)
        PROVE  FALSE
    BY SMTT(30), <2>0, <2>2 DEF TryEnqueue, ProducerGoto
  <2>3. ASSUME NEW q \in Producers, Enqueuing(q), ~ LoadSequence(p)
        PROVE  FALSE
    BY <2>0, <2>3 DEF Enqueuing, LoadPosition, LoadSequence, CompareExchange,
                      WriteItem, Publish, ProducerGoto
  <2>4. ASSUME Dequeuing PROVE FALSE
    BY <2>4 DEF Dequeuing, TryDequeue, ReadItem, ReleaseSlot, AdvanceConsumer
  <2> QED
    BY <2>1, <2>2, <2>3, <2>4 DEF Next
<1> QED
  BY <1>1, RingInvariant, PTL DEF Spec, RefusedOnlyWhenFull

-----------------------------------------------------------------------------
(* The queue implements the abstract mailbox. *)

\* Sequences given by their elements.
LEMMA AppendByElements ==
  ASSUME NEW S, NEW n \in Nat, NEW s \in [1 .. n -> S], NEW t \in [1 .. n + 1 -> S],
         NEW x \in S, t[n + 1] = x, \A k \in 1 .. n : t[k] = s[k]
  PROVE  t = Append(s, x)
<1>1. s \in Seq(S) /\ Len(s) = n /\ t \in Seq(S) /\ Len(t) = n + 1
  OBVIOUS
<1>2. Append(s, x) \in Seq(S) /\ Len(Append(s, x)) = n + 1
  BY <1>1
<1>3. ASSUME NEW k \in 1 .. n + 1 PROVE t[k] = Append(s, x)[k]
  BY <1>1
<1> QED
  BY <1>1, <1>2, <1>3

\* Removing the head shifts every element by one.
LEMMA TailByElements ==
  ASSUME NEW S, NEW n \in Nat, NEW s \in [1 .. n + 1 -> S], NEW t \in [1 .. n -> S],
         \A k \in 1 .. n : t[k] = s[k + 1]
  PROVE  t = Tail(s)
<1>1. s \in Seq(S) /\ Len(s) = n + 1 /\ t \in Seq(S) /\ Len(t) = n /\ s # << >>
  OBVIOUS
<1>2. Tail(s) \in Seq(S) /\ Len(Tail(s)) = n
  BY <1>1
<1>3. ASSUME NEW k \in 1 .. n PROVE t[k] = Tail(s)[k]
  BY <1>1
<1> QED
  BY <1>1, <1>2, <1>3

\* The outstanding entries are those of the claimed positions not yet released.
EntriesDescribed ==
  /\ Released \in Nat /\ producer_index \in Nat
  /\ producer_index - Released \in 0 .. Capacity
  /\ Len(claimed) = producer_index /\ Len(delivered) = Released
  /\ Entries \in [1 .. producer_index - Released -> Abstract!Entry]
  /\ \A q \in Released .. producer_index - 1 : Entries[q - Released + 1] = EntryAt(q)

\* The ring invariant gives the abstract entries element by element.
LEMMA EntriesFacts == RingInv => EntriesDescribed
<1> SUFFICES ASSUME RingInv PROVE EntriesDescribed
  OBVIOUS
<1>1. /\ Released \in Nat /\ producer_index \in Nat
      /\ producer_index - Released \in 0 .. Capacity
      /\ Len(claimed) = producer_index /\ Len(delivered) = Released
  BY CapacityAssumption DEF RingInv, TypeOK, Released, Counters
<1>2. Entries = [k \in 1 .. producer_index - Released |-> EntryAt(Released + k - 1)]
  BY <1>1 DEF Entries
<1>3. ASSUME NEW q \in Released .. producer_index - 1
      PROVE  EntryAt(q) \in Abstract!Entry
  <2>1. q + 1 \in 1 .. Len(claimed) /\ claimed \in Seq(Items)
    BY <1>1 DEF RingInv, TypeOK
  <2>2. claimed[q + 1] \in Items
    BY <2>1
  <2> QED
    BY <2>2 DEF EntryAt, Abstract!Entry
<1>4. ASSUME NEW k \in 1 .. producer_index - Released
      PROVE  EntryAt(Released + k - 1) \in Abstract!Entry
  BY <1>1, <1>3
<1>5. Entries \in [1 .. producer_index - Released -> Abstract!Entry]
  BY <1>2, <1>4
<1>6. ASSUME NEW q \in Released .. producer_index - 1
      PROVE  Entries[q - Released + 1] = EntryAt(q)
  <2>1. /\ q - Released + 1 \in 1 .. producer_index - Released
        /\ Released + (q - Released + 1) - 1 = q
    BY <1>1
  <2> QED
    BY <1>2, <2>1
<1> QED
  BY <1>1, <1>5, <1>6 DEF EntriesDescribed

\* Entries that agree on the item and on readiness are the same entry.
LEMMA SameEntry ==
  ASSUME NEW q \in Nat, claimed'[q + 1] = claimed[q + 1],
         sequence'[SlotIndex(q)] = sequence[SlotIndex(q)]
  PROVE  EntryAt(q)' = EntryAt(q)
BY DEF EntryAt

\* A step that keeps the counters, the claimed items and the sequence numbers of
\* the claimed positions keeps the entries.
LEMMA EntriesUnchanged ==
  ASSUME EntriesDescribed, EntriesDescribed',
         Released' = Released, producer_index' = producer_index, claimed' = claimed,
         \A q \in Released .. producer_index - 1 :
           sequence'[SlotIndex(q)] = sequence[SlotIndex(q)]
  PROVE  Entries' = Entries
<1>1. ASSUME NEW k \in 1 .. producer_index - Released
      PROVE  Entries'[k] = Entries[k]
  <2>1. PICK q \in Released .. producer_index - 1 : q \in Nat /\ k = q - Released + 1
    <3>1. /\ Released + k - 1 \in Released .. producer_index - 1
          /\ Released + k - 1 \in Nat
          /\ k = (Released + k - 1) - Released + 1
      BY DEF EntriesDescribed
    <3> QED
      BY SMTT(30), <3>1
  <2>2. EntryAt(q)' = EntryAt(q)
    BY <2>1, SameEntry
  <2> QED
    BY <2>1, <2>2 DEF EntriesDescribed
<1> QED
  BY <1>1 DEF EntriesDescribed

\* A successful compare_exchange claims the next place for its item.
LEMMA CompareExchangeClaims ==
  ASSUME RingInv, EntriesDescribed, EntriesDescribed',
         NEW p \in Producers, CompareExchange(p)
  PROVE  Abstract!Next \/ UNCHANGED <<Entries, delivered>>
<1>1. CASE producer_index # position[p]
  <2>1. Entries' = Entries
    BY <1>1, EntriesUnchanged DEF CompareExchange, Released
  <2> QED
    BY SMTT(30), <2>1 DEF CompareExchange
<1>2. CASE producer_index = position[p]
  <2>0. /\ item[p] \in Items
        /\ producer_index' = producer_index + 1
        /\ claimed' = Append(claimed, item[p])
        /\ sequence' = sequence /\ delivered' = delivered
        /\ Released' = Released
        /\ producer_index < Released + Capacity
        /\ claimed \in Seq(Items)
    BY SMTT(30), <1>2 DEF CompareExchange, Released, RingInv, ProducerLocals, ProducerLocal, TypeOK
  <2>1. PICK n \in Nat, q \in Nat :
          /\ q = producer_index /\ n = producer_index - Released
          /\ Released \in Nat
          /\ Len(claimed) = q
          /\ n + 1 = producer_index' - Released'
          /\ n < Capacity
    BY SMTT(30), <2>0, CapacityAssumption DEF EntriesDescribed
  <2>2. sequence[SlotIndex(q)] = q
    BY SMTT(30), <2>0, <2>1, CapacityAssumption DEF RingInv, FreeSlots
  <2> DEFINE x == [item |-> item[p], ready |-> FALSE]
  <2>3. Entries \in [1 .. n -> Abstract!Entry]
    BY <2>1 DEF EntriesDescribed
  <2>4. Entries' \in [1 .. n + 1 -> Abstract!Entry]
    BY ZenonT(60), <2>1 DEF EntriesDescribed
  <2>5. ASSUME NEW k \in 1 .. n PROVE Entries'[k] = Entries[k]
    <3>1. PICK r \in Nat : r \in Released .. q - 1 /\ k = r - Released + 1
      <4>1. /\ Released + k - 1 \in Released .. q - 1
            /\ Released + k - 1 \in Nat
            /\ k = (Released + k - 1) - Released + 1
        BY SMTT(30), <2>1
      <4> QED
        BY SMTT(30), <4>1
    <3>2. claimed'[r + 1] = claimed[r + 1]
      BY SMTT(30), <2>0, <2>1, <3>1
    <3>3. EntryAt(r)' = EntryAt(r)
      BY ZenonT(60), <2>0, <3>2, SameEntry
    <3>4. r \in Released .. producer_index - 1 /\ r \in Released' .. producer_index' - 1
      BY SMTT(30), <2>0, <2>1, <3>1
    <3> QED
      BY <2>0, <3>1, <3>3, <3>4 DEF EntriesDescribed
  <2>6. Entries'[n + 1] = x
    <3>1. claimed'[q + 1] = item[p]
      BY SMTT(30), <2>0, <2>1
    <3>2. sequence'[SlotIndex(q)] # q + 1
      BY SMTT(30), <2>0, <2>2
    <3>3. EntryAt(q)' = x
      BY ZenonT(60), <3>1, <3>2 DEF EntryAt
    <3>4. q \in Released' .. producer_index' - 1 /\ n + 1 = q - Released' + 1
      BY <2>0, <2>1
    <3> QED
      BY ZenonT(60), <3>3, <3>4 DEF EntriesDescribed
  <2>7. x \in Abstract!Entry
    BY SMTT(30), <2>0 DEF Abstract!Entry
  <2> HIDE DEF x
  <2>8. Entries' = Append(Entries, x)
    BY <2>3, <2>4, <2>5, <2>6, <2>7, AppendByElements
  <2>9. Len(Entries) < Capacity
    BY SMTT(30), <2>1, <2>3
  <2> QED
    BY ZenonT(60), <2>0, <2>8, <2>9 DEF x, Abstract!Next, Abstract!Claim, Abstract!Claimed
<1> QED
  BY <1>1, <1>2

\* The publication makes the entry of the producer's position ready.
LEMMA PublishMakesReady ==
  ASSUME RingInv, EntriesDescribed, EntriesDescribed',
         NEW p \in Producers, Publish(p)
  PROVE  Abstract!Next
<1>0. /\ ppc[p] = "publish"
      /\ sequence' = [sequence EXCEPT ![SlotIndex(position[p])] = position[p] + 1]
      /\ producer_index' = producer_index /\ Released' = Released
      /\ claimed' = claimed /\ delivered' = delivered
  BY DEF Publish, Released, history
<1>1. PICK q \in Nat, n \in Nat, k \in Nat :
        /\ k \in 1 .. n
        /\ q = position[p] /\ n = producer_index - Released
        /\ Released \in Nat /\ producer_index \in Nat
        /\ q \in Released .. producer_index - 1
        /\ k = q - Released + 1
        /\ SlotIndex(q) \in SlotIndices
        /\ \A r \in Released .. Released + Capacity - 1 :
             SlotIndex(r) = SlotIndex(q) => r = q
  <2>1. /\ position[p] \in Nat /\ Released \in Nat /\ producer_index \in Nat
        /\ position[p] \in Released .. producer_index - 1
        /\ SlotIndex(position[p]) \in SlotIndices
        /\ \A r \in Released .. Released + Capacity - 1 :
             SlotIndex(r) = SlotIndex(position[p]) => r = position[p]
    BY <1>0, ClaimedPositionOwnsSlot
  <2>2. /\ producer_index - Released \in Nat
        /\ position[p] - Released + 1 \in 1 .. producer_index - Released
    BY <2>1
  <2> QED
    BY <2>1, <2>2
<1>2. /\ sequence[SlotIndex(q)] = q
      /\ sequence'[SlotIndex(q)] = q + 1
      /\ sequence \in [SlotIndices -> Nat]
  BY <1>0, <1>1 DEF RingInv, TypeOK, ProducerLocals, ProducerLocal
<1>3. /\ Entries \in [1 .. n -> Abstract!Entry]
      /\ Entries' \in [1 .. n -> Abstract!Entry]
      /\ Entries[k] = EntryAt(q)
      /\ Entries'[k] = EntryAt(q)'
  BY <1>0, <1>1 DEF EntriesDescribed
<1>4. ASSUME NEW j \in 1 .. n, j # k PROVE Entries'[j] = Entries[j]
  <2>1. PICK r \in Nat : /\ r \in Released .. producer_index - 1
                         /\ j = r - Released + 1 /\ r # q
    <3>1. /\ Released + j - 1 \in Released .. producer_index - 1
          /\ Released + j - 1 \in Nat
          /\ j = (Released + j - 1) - Released + 1
          /\ Released + j - 1 # q
      BY <1>1, <1>4
    <3> QED
      BY <3>1
  <2>2. r \in Released .. Released + Capacity - 1 /\ SlotIndex(r) \in SlotIndices
    <3>1. producer_index - Released <= Capacity
      BY CapacityAssumption DEF EntriesDescribed
    <3>2. SlotIndex(r) \in SlotIndices
      BY <2>1, SlotIndexDivision
    <3> QED
      BY <1>1, <2>1, <3>1, <3>2, CapacityAssumption
  <2>3. sequence'[SlotIndex(r)] = sequence[SlotIndex(r)]
    BY <1>0, <1>1, <1>2, <2>1, <2>2
  <2>4. EntryAt(r)' = EntryAt(r)
    BY <1>0, <2>3, SameEntry
  <2> QED
    BY <1>0, <2>1, <2>4 DEF EntriesDescribed
<1>5. /\ EntryAt(q) = [item |-> claimed[q + 1], ready |-> FALSE]
      /\ EntryAt(q)' = [item |-> claimed[q + 1], ready |-> TRUE]
  <2>1. sequence[SlotIndex(q)] # q + 1
    BY <1>2
  <2> QED
    BY ZenonT(60), <1>0, <1>2, <2>1 DEF EntryAt
<1>6. Entries[k].ready = FALSE
  BY <1>3, <1>5
<1>7. Entries' = [Entries EXCEPT ![k] = [item |-> Entries[k].item, ready |-> TRUE]]
  <2>1. [item |-> Entries[k].item, ready |-> TRUE] = Entries'[k]
    BY <1>3, <1>5
  <2> QED
    BY <1>1, <1>3, <1>4, <2>1
<1>8. Entries' = Abstract!MadeReady(Entries, k)
  BY <1>7 DEF Abstract!MadeReady
<1>9. k \in DOMAIN Entries
  BY <1>1, <1>3
<1> QED
  BY <1>0, <1>6, <1>8, <1>9 DEF Abstract!Next, Abstract!MakeReady

\* The release of a slot takes the oldest entry.
LEMMA ReleaseSlotTakes ==
  ASSUME RingInv, EntriesDescribed, EntriesDescribed', ReleaseSlot
  PROVE  Abstract!Next
<1>0. /\ cpc = "release"
      /\ sequence' = [sequence EXCEPT ![SlotIndex(consumer_index)] =
                         consumer_index + Capacity]
      /\ delivered' = Append(delivered, taken)
      /\ producer_index' = producer_index /\ claimed' = claimed
      /\ Released = consumer_index /\ Released' = consumer_index + 1
  BY DEF ReleaseSlot, Released
<1>1. PICK c \in Nat, n \in Nat :
        /\ c = consumer_index /\ producer_index \in Nat
        /\ n + 1 = producer_index - c
        /\ n = producer_index' - Released'
        /\ c < producer_index
        /\ producer_index <= c + Capacity
        /\ sequence[SlotIndex(c)] = c + 1
        /\ taken = claimed[c + 1]
  <2>1. /\ consumer_index \in Nat /\ producer_index \in Nat
        /\ consumer_index < producer_index
        /\ producer_index <= consumer_index + Capacity
        /\ sequence[SlotIndex(consumer_index)] = consumer_index + 1
        /\ taken = claimed[consumer_index + 1]
    BY <1>0 DEF RingInv, TypeOK, ConsumerLocals, Counters
  <2>2. producer_index - consumer_index - 1 \in Nat
    BY <2>1
  <2> QED
    BY <1>0, <2>1, <2>2
<1>2. /\ Entries \in [1 .. n + 1 -> Abstract!Entry]
      /\ Entries' \in [1 .. n -> Abstract!Entry]
      /\ Entries[1] = EntryAt(c)
  <2>1. c \in Released .. producer_index - 1 /\ c - Released + 1 = 1
    BY <1>0, <1>1
  <2>2. Entries[1] = EntryAt(c)
    BY <2>1 DEF EntriesDescribed
  <2> QED
    BY <1>0, <1>1, <2>2 DEF EntriesDescribed
<1>3. EntryAt(c) = [item |-> taken, ready |-> TRUE]
  BY ZenonT(60), <1>1 DEF EntryAt
<1>4. ASSUME NEW k \in 1 .. n PROVE Entries'[k] = Entries[k + 1]
  <2> DEFINE r == c + k
  <2>1. /\ r \in Nat
        /\ r \in Released' .. producer_index' - 1
        /\ r \in Released .. producer_index - 1
        /\ k = r - Released' + 1
        /\ k + 1 = r - Released + 1
        /\ c < r /\ r < c + Capacity
    BY <1>0, <1>1, CapacityAssumption
  <2>2. /\ SlotIndex(r) # SlotIndex(c)
        /\ SlotIndex(r) \in SlotIndices /\ SlotIndex(c) \in SlotIndices
    BY <2>1, SlotIndexInjective, SlotIndexDivision
  <2>3. sequence'[SlotIndex(r)] = sequence[SlotIndex(r)]
    BY <1>0, <1>1, <2>2 DEF RingInv, TypeOK
  <2>4. EntryAt(r)' = EntryAt(r)
    BY <1>0, <2>3, SameEntry
  <2> HIDE DEF r
  <2>5. Entries'[r - Released' + 1] = EntryAt(r)' /\ Entries[r - Released + 1] = EntryAt(r)
    BY ZenonT(60), <2>1 DEF EntriesDescribed
  <2> QED
    BY <2>1, <2>4, <2>5
<1>5. Entries' = Tail(Entries)
  BY <1>2, <1>4, TailByElements
<1>6. Entries # << >> /\ Entries[1].ready = TRUE /\ Entries[1].item = taken
  BY <1>2, <1>3
<1> QED
  BY <1>0, <1>5, <1>6 DEF Abstract!Next, Abstract!Take, Abstract!HeadReady

\* Seen through Entries, the ring behaves as the abstract mailbox
\* (ImplementsMailbox).
THEOREM QueueImplementsMailbox == Spec => ImplementsMailbox
<1>1. Init => Abstract!Init
  BY DEF Init, Abstract!Init, Entries
<1>2. /\ RingInv /\ EntriesDescribed /\ RingInv' /\ EntriesDescribed' /\ [Next]_vars
      => [Abstract!Next]_<<Entries, delivered>>
  <2> SUFFICES ASSUME RingInv, EntriesDescribed, EntriesDescribed', [Next]_vars
               PROVE  Abstract!Next \/ UNCHANGED <<Entries, delivered>>
    OBVIOUS
  <2>1. ASSUME UNCHANGED <<sequence, producer_index, claimed, delivered>>,
               Released' = Released
        PROVE  UNCHANGED <<Entries, delivered>>
    BY <2>1 DEF Entries, EntryAt
  <2>2. ASSUME NEW p \in Producers, NEW x \in Items, TryEnqueue(p, x)
        PROVE  UNCHANGED <<Entries, delivered>>
    BY <2>1, <2>2 DEF TryEnqueue, Released, shared
  <2>3. ASSUME NEW p \in Producers, LoadPosition(p) \/ LoadSequence(p) \/ WriteItem(p)
        PROVE  UNCHANGED <<Entries, delivered>>
    BY <2>1, <2>3 DEF LoadPosition, LoadSequence, WriteItem, Released, shared, history
  <2>4. ASSUME NEW p \in Producers, Enqueuing(p)
        PROVE  Abstract!Next \/ UNCHANGED <<Entries, delivered>>
    BY <2>3, <2>4, CompareExchangeClaims, PublishMakesReady DEF Enqueuing
  <2>5. CASE TryDequeue \/ ReadItem \/ AdvanceConsumer
    BY <2>1, <2>5 DEF TryDequeue, ReadItem, AdvanceConsumer, Released, shared, history
  <2>6. CASE Dequeuing
    BY <2>5, <2>6, ReleaseSlotTakes DEF Dequeuing
  <2>7. CASE UNCHANGED vars
    BY <2>1, <2>7 DEF vars, shared, history, Released
  <2> QED
    BY <2>2, <2>4, <2>6, <2>7 DEF Next
<1> QED
  BY <1>1, <1>2, RingInvariant, EntriesFacts, PTL
  DEF Spec, ImplementsMailbox, Abstract!Spec

=============================================================================
