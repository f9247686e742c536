--------------------------- MODULE RingBufferProofs ---------------------------
(***************************************************************************)
(* What RingBuffer guarantees for every capacity, every set of records and *)
(* every way memcpy cuts a record into pieces.                             *)
(***************************************************************************)
EXTENDS RingBuffer, SequenceTheorems, TLAPS

\* After maps slots to slots and moves every slot
LEMMA AfterSlot ==
    ASSUME NEW i \in Slot
    PROVE  /\ After(i) \in Slot
           /\ After(i) # i
    BY CapacityAssumption DEF Slot, After, Size

\* Publishing the slot at head adds exactly that slot to the unread ones.
LEMMA UnreadAfterPush ==
    ASSUME NEW s \in Slot, head \in Slot, tail \in Slot,
           After(head) # tail,
           head' = After(head), tail' = tail
    PROVE  Unread(s)' <=> Unread(s) \/ s = head
    BY CapacityAssumption DEF Slot, After, Size, Unread

\* Releasing the slot at tail removes exactly that slot.
LEMMA UnreadAfterPop ==
    ASSUME NEW s \in Slot, head \in Slot, tail \in Slot,
           head # tail,
           tail' = After(tail), head' = head
    PROVE  Unread(s)' <=> Unread(s) /\ s # tail
    BY CapacityAssumption DEF Slot, After, Size, Unread

\* The slot being written is not unread; the slot being read is.
LEMMA UnreadEnds ==
    ASSUME head \in Slot, tail \in Slot
    PROVE  /\ ~Unread(head)
           /\ head # tail => Unread(tail)
    BY CapacityAssumption DEF Slot, Unread

\* The variables keep their types: the indices stay inside the slots of
\* ring_init whatever the two processes interleave.
LEMMA TypeStep == TypeOK /\ [Next]_vars => TypeOK'
<1> SUFFICES ASSUME TypeOK, [Next]_vars PROVE TypeOK'
    OBVIOUS
<1> USE DEF TypeOK
<1>1. ASSUME NEW v \in Value, PushStart(v) PROVE TypeOK'
    BY <1>1, AfterSlot DEF PushStart, cVars
<1>2. CASE PushFull
    BY <1>2 DEF PushFull, cVars
<1>3. ASSUME NEW p \in Piece, PushCopy(p) PROVE TypeOK'
  <2>1. ringp' \in [Slot -> Record]
    BY <1>3 DEF PushCopy, Record
  <2> QED
    BY <1>3, <2>1 DEF PushCopy, cVars
<1>4. CASE PushPublish
    BY <1>4 DEF PushPublish, cVars
<1>5. CASE PopEmpty
    BY <1>5 DEF PopEmpty, shared, pVars
<1>6. CASE PopStart
    BY <1>6, AfterSlot DEF PopStart, shared, pVars
<1>7. ASSUME NEW p \in Piece, PopCopy(p) PROVE TypeOK'
  <2>1. ringp[tail][p] \in Value \cup {Zero}
    BY <1>7 DEF Record
  <2>2. cData' \in Record
    BY <1>7, <2>1 DEF PopCopy, Record
  <2> QED
    BY <1>7, <2>2 DEF PopCopy, shared, pVars
<1>8. CASE PopPublish
    BY <1>8 DEF PopPublish, pVars
<1>9. CASE UNCHANGED vars
    BY <1>9 DEF vars
<1> QED
    BY <1>1, <1>2, <1>3, <1>4, <1>5, <1>6, <1>7, <1>8, <1>9
    DEF Next, Producer, Consumer

LEMMA TypeInit == Init => TypeOK
    BY CapacityAssumption DEF Init, TypeOK, Slot, Record, Whole

\* The type invariant of the ring.
THEOREM TypeCorrect == Spec => []TypeOK
    BY TypeInit, TypeStep, PTL DEF Spec

-------------------------------------------------------------------------------
(***************************************************************************)
(* Whole records.  DisjointAccess alone is not inductive: that the slot at *)
(* head is free while it is written follows from what the running call     *)
(* learnt from its check, and that its record is whole when it becomes     *)
(* unread from the pieces already written.  PushInv and PopInv record both.*)
(***************************************************************************)

LEMMA RingInit == Init => RingInv
    BY CapacityAssumption
    DEF Init, RingInv, PushInv, PopInv, Unread, Slot

LEMMA RingStep == TypeOK /\ RingInv /\ [Next]_vars => RingInv'
<1> SUFFICES ASSUME TypeOK, RingInv, [Next]_vars PROVE RingInv'
    OBVIOUS
<1> DEFINE Filled == \A s \in Slot : Unread(s) => \E v \in Value : ringp[s] = Whole(v)
<1>1. ASSUME NEW v \in Value, PushStart(v) PROVE RingInv'
  <2>1. Filled'
    BY <1>1 DEF PushStart, RingInv, Unread
  <2>2. PushInv' /\ PopInv'
    BY <1>1 DEF PushStart, cVars, RingInv, PushInv, PopInv, After
  <2> QED
    BY <2>1, <2>2 DEF RingInv
<1>2. CASE PushFull
  <2>1. Filled'
    BY <1>2 DEF PushFull, RingInv, Unread
  <2>2. PushInv' /\ PopInv'
    BY <1>2 DEF PushFull, cVars, RingInv, PushInv, PopInv, After
  <2> QED
    BY <2>1, <2>2 DEF RingInv
<1>3. ASSUME NEW p \in Piece, PushCopy(p) PROVE RingInv'
  <2>1. \A s \in Slot : s # head => ringp'[s] = ringp[s]
    BY <1>3 DEF PushCopy, TypeOK
  <2>2. Filled'
    BY <1>3, <2>1, UnreadEnds DEF PushCopy, RingInv, Unread, TypeOK
  <2>3. PushInv'
    BY <1>3 DEF PushCopy, RingInv, PushInv, TypeOK, Record, After
  <2>4. PopInv'
    BY <1>3, <2>1 DEF PushCopy, cVars, RingInv, PopInv, TypeOK, After
  <2> QED
    BY <2>2, <2>3, <2>4 DEF RingInv
<1>4. CASE PushPublish
  <2>1. ringp[head] = Whole(pData) /\ pData \in Value
    BY <1>4 DEF PushPublish, RingInv, PushInv, TypeOK, Record, Whole
  <2>2. Filled'
    BY <1>4, <2>1, UnreadAfterPush
    DEF PushPublish, RingInv, PushInv, TypeOK
  <2>3. PushInv'
    BY <1>4 DEF PushPublish, RingInv, PushInv
  <2>4. PopInv'
    BY <1>4 DEF PushPublish, cVars, RingInv, PushInv, PopInv, After
  <2> QED
    BY <2>2, <2>3, <2>4 DEF RingInv
<1>5. CASE PopEmpty
  <2>1. Filled'
    BY <1>5 DEF PopEmpty, shared, RingInv, Unread
  <2>2. PushInv' /\ PopInv'
    BY <1>5 DEF PopEmpty, shared, pVars, RingInv, PushInv, PopInv, After
  <2> QED
    BY <2>1, <2>2 DEF RingInv
<1>6. CASE PopStart
  <2>1. Filled'
    BY <1>6 DEF PopStart, shared, RingInv, Unread
  <2>2. PushInv' /\ PopInv'
    BY <1>6 DEF PopStart, shared, pVars, RingInv, PushInv, PopInv, After
  <2> QED
    BY <2>1, <2>2 DEF RingInv
<1>7. ASSUME NEW p \in Piece, PopCopy(p) PROVE RingInv'
  <2>1. Filled'
    BY <1>7 DEF PopCopy, shared, RingInv, Unread
  <2>2. PushInv'
    BY <1>7 DEF PopCopy, shared, pVars, RingInv, PushInv, After
  <2>3. PopInv'
    BY <1>7 DEF PopCopy, shared, RingInv, PopInv, TypeOK, Record, After
  <2> QED
    BY <2>1, <2>2, <2>3 DEF RingInv
<1>8. CASE PopPublish
  <2>1. Filled'
    BY <1>8, UnreadAfterPop DEF PopPublish, RingInv, PopInv, TypeOK
  <2>2. PushInv'
    BY <1>8, CapacityAssumption
    DEF PopPublish, pVars, RingInv, PushInv, PopInv, TypeOK, After, Slot, Size
  <2>3. PopInv'
    BY <1>8 DEF PopPublish, RingInv, PopInv
  <2> QED
    BY <2>1, <2>2, <2>3 DEF RingInv
<1>9. CASE UNCHANGED vars
  <2>1. Filled'
    BY <1>9 DEF vars, RingInv, Unread
  <2>2. PushInv' /\ PopInv'
    BY <1>9 DEF vars, RingInv, PushInv, PopInv, After
  <2> QED
    BY <2>1, <2>2 DEF RingInv
<1> QED
    BY <1>1, <1>2, <1>3, <1>4, <1>5, <1>6, <1>7, <1>8, <1>9
    DEF Next, Producer, Consumer

\* No unread slot ever holds a torn or stale record.
THEOREM WholeRecords == Spec => []RingInv
    BY TypeInit, TypeStep, RingInit, RingStep, PTL DEF Spec

\* The two memcpys never meet in one slot, although nothing but the two
\* checks keeps the processes apart.
THEOREM Disjoint == Spec => []DisjointAccess
<1>1. RingInv => DisjointAccess
    BY DEF RingInv, PopInv, DisjointAccess
<1> QED
    BY <1>1, WholeRecords, PTL

-------------------------------------------------------------------------------
(***************************************************************************)
(* The ring implements the bounded queue.  A push takes effect when it     *)
(* stores head, a pop when it stores tail; a refused call takes effect at  *)
(* its check.                                                              *)
(***************************************************************************)

LEMMA CountBounds ==
    ASSUME TypeOK
    PROVE  /\ Count \in 0 .. Capacity
           /\ Count = 0 <=> head = tail
           /\ Count = Capacity <=> After(head) = tail
           /\ \A i \in 1 .. Count : SlotOf(i) \in Slot /\ Unread(SlotOf(i))
    BY CapacityAssumption
    DEF TypeOK, Count, SlotOf, Slot, After, Size, Unread

LEMMA QueueSeq ==
    ASSUME TypeOK
    PROVE  Queue \in Seq(Record) /\ Len(Queue) = Count
<1>1. Count \in Nat
    BY CountBounds
<1>2. \A i \in 1 .. Count : ringp[SlotOf(i)] \in Record
    BY CountBounds DEF TypeOK
<1> QED
    BY <1>1, <1>2 DEF Queue

LEMMA QueueUnchanged ==
    ASSUME UNCHANGED shared
    PROVE  Queue' = Queue
    BY DEF shared, Queue, Count, SlotOf

\* The initial ring is the empty queue.
LEMMA FifoInit == Init => Fifo!Init
<1> SUFFICES ASSUME Init PROVE Fifo!Init
    OBVIOUS
<1>1. Queue = <<>>
  <2>1. Count = 0
      BY DEF Init, Count
  <2> QED
      BY <2>1 DEF Queue
<1> QED
    BY <1>1 DEF Init, Fifo!Init

\* Every step of the ring is a step of the queue or leaves it alone.
LEMMA FifoStep ==
    TypeOK /\ RingInv /\ TypeOK' /\ [Next]_vars => [Fifo!Next]_(Fifo!fifoVars)
<1> SUFFICES ASSUME TypeOK, RingInv, TypeOK', [Next]_vars
             PROVE  Fifo!Next \/ UNCHANGED Fifo!fifoVars
    OBVIOUS
<1>1. ASSUME NEW v \in Value, PushStart(v) PROVE UNCHANGED Fifo!fifoVars
    BY <1>1, QueueUnchanged DEF PushStart, cVars, shared, Fifo!fifoVars
<1>2. CASE PushFull
  <2>1. Len(Queue) = Capacity
      BY <1>2, CountBounds, QueueSeq DEF PushFull
  <2>2. Queue' = Queue
      BY <1>2, QueueUnchanged DEF PushFull, shared
  <2>3. Fifo!PutFull
      BY <1>2, <2>1, <2>2 DEF PushFull, cVars, Fifo!PutFull
  <2> QED
      BY <2>3 DEF Fifo!Next
<1>3. ASSUME NEW p \in Piece, PushCopy(p) PROVE UNCHANGED Fifo!fifoVars
  <2>1. \A s \in Slot : s # head => ringp'[s] = ringp[s]
      BY <1>3 DEF PushCopy, TypeOK
  <2>2. head' = head /\ tail' = tail
      BY <1>3 DEF PushCopy
  <2>3. \A i \in 1 .. Count : ringp'[SlotOf(i)] = ringp[SlotOf(i)]
      BY <2>1, CountBounds, UnreadEnds DEF TypeOK
  <2>4. Queue' = Queue
      BY <2>2, <2>3 DEF Queue, Count, SlotOf
  <2> QED
      BY <1>3, <2>4 DEF PushCopy, cVars, Fifo!fifoVars
<1>4. CASE PushPublish
  <2>1. /\ head' = After(head) /\ After(head) # tail
        /\ tail' = tail /\ ringp' = ringp
      BY <1>4 DEF PushPublish, RingInv, PushInv
  <2>2. ringp[head] = Whole(pData) /\ pData \in Value
      BY <1>4 DEF PushPublish, RingInv, PushInv, TypeOK, Record, Whole
  <2>3. Count' = Count + 1 /\ SlotOf(Count + 1) = head
      BY <2>1, CapacityAssumption
      DEF TypeOK, Count, SlotOf, Slot, After, Size
  <2>4. \A i \in 1 .. Count + 1 : SlotOf(i)' = SlotOf(i)
      BY <2>1 DEF SlotOf
  <2>5. Count < Capacity /\ Count \in Nat
      BY <2>1, CountBounds, CapacityAssumption
  <2>6. Queue' = Append(Queue, Whole(pData))
    <3>1. Queue' = [i \in 1 .. Count + 1 |-> ringp[SlotOf(i)]]
        BY <2>1, <2>3, <2>4 DEF Queue
    <3>2. /\ Append(Queue, Whole(pData)) \in Seq(Record)
          /\ Len(Append(Queue, Whole(pData))) = Count + 1
          /\ \A i \in 1 .. Count + 1 : Append(Queue, Whole(pData))[i]
                  = IF i = Count + 1 THEN Whole(pData) ELSE Queue[i]
        BY <2>2, <2>5, QueueSeq, AppendProperties DEF Record, Whole
    <3>3. \A i \in 1 .. Count + 1 :
             ringp[SlotOf(i)] = IF i = Count + 1 THEN Whole(pData) ELSE Queue[i]
        BY <2>2, <2>3, <2>5 DEF Queue
    <3>4. Queue' \in Seq(Record) /\ Len(Queue') = Count + 1
        BY <2>5, <3>1, <3>2, <3>3, ElementOfSeq
    <3>5. \A i \in 1 .. Count + 1 : Queue'[i] = Append(Queue, Whole(pData))[i]
        BY <3>1, <3>2, <3>3
    <3> QED
        BY <3>2, <3>4, <3>5, SeqEqual
  <2>7. Fifo!Put(Whole(pData))
      BY <1>4, <2>5, <2>6, QueueSeq DEF PushPublish, cVars, Fifo!Put
  <2> QED
      BY <2>2, <2>7 DEF Fifo!Next
<1>5. CASE PopEmpty
  <2>1. Queue = <<>>
      BY <1>5, CountBounds DEF PopEmpty, Queue
  <2>2. Queue' = Queue
      BY <1>5, QueueUnchanged DEF PopEmpty
  <2>3. Fifo!GetEmpty
      BY <1>5, <2>1, <2>2 DEF PopEmpty, pVars, Fifo!GetEmpty
  <2> QED
      BY <2>3 DEF Fifo!Next
<1>6. CASE PopStart
    BY <1>6, QueueUnchanged DEF PopStart, pVars, Fifo!fifoVars
<1>7. ASSUME NEW p \in Piece, PopCopy(p) PROVE UNCHANGED Fifo!fifoVars
    BY <1>7, QueueUnchanged DEF PopCopy, pVars, Fifo!fifoVars
<1>8. CASE PopPublish
  <2>1. /\ tail' = After(tail) /\ head # tail
        /\ head' = head /\ ringp' = ringp
      BY <1>8 DEF PopPublish, RingInv, PopInv
  <2>2. cData = ringp[tail]
      BY <1>8 DEF PopPublish, RingInv, PopInv, TypeOK, Record
  <2>3. Count \in Nat \ {0} /\ Count' = Count - 1
      BY <2>1, CapacityAssumption DEF TypeOK, Count, Slot, After, Size
  <2>4. SlotOf(1) = tail /\ \A i \in 1 .. Count - 1 : SlotOf(i)' = SlotOf(i + 1)
      BY <2>1, CapacityAssumption
      DEF TypeOK, Count, SlotOf, Slot, After, Size
  <2>5. Queue # <<>> /\ Head(Queue) = cData
      BY <2>2, <2>3, <2>4, QueueSeq DEF Queue
  <2>6. Queue' = Tail(Queue)
    <3>1. Queue' = [i \in 1 .. Count - 1 |-> ringp[SlotOf(i + 1)]]
        BY <2>1, <2>3, <2>4 DEF Queue
    <3>2. /\ Tail(Queue) \in Seq(Record)
          /\ Len(Tail(Queue)) = Count - 1
          /\ \A i \in 1 .. Count - 1 : Tail(Queue)[i] = Queue[i + 1]
        BY <2>3, <2>5, QueueSeq, HeadTailProperties
    <3>3. \A i \in 1 .. Count - 1 : Queue[i + 1] = ringp[SlotOf(i + 1)]
        BY <2>3 DEF Queue
    <3>4. Queue' \in Seq(Record) /\ Len(Queue') = Count - 1
      <4>1. \A i \in 1 .. Count - 1 : ringp[SlotOf(i + 1)] \in Record
          BY <2>3, <3>2, <3>3, ElementOfSeq
      <4>2. Count - 1 \in Nat
          BY <2>3
      <4> QED
          BY <3>1, <4>1, <4>2
    <3>5. \A i \in 1 .. Count - 1 : Queue'[i] = Tail(Queue)[i]
        BY <3>1, <3>2, <3>3
    <3> QED
        BY <3>2, <3>4, <3>5, SeqEqual
  <2>7. Fifo!Get
      BY <1>8, <2>5, <2>6 DEF PopPublish, pVars, Fifo!Get
  <2> QED
      BY <2>7 DEF Fifo!Next
<1>9. CASE UNCHANGED vars
    BY <1>9, QueueUnchanged DEF vars, shared, Fifo!fifoVars
<1> QED
    BY <1>1, <1>2, <1>3, <1>4, <1>5, <1>6, <1>7, <1>8, <1>9
    DEF Next, Producer, Consumer

\* ring_push and ring_pop implement the bounded queue of BoundedFifo.
THEOREM RingImplementsFifo == Spec => ImplementsFifo
    BY TypeCorrect, WholeRecords, FifoInit, FifoStep, PTL
    DEF Spec, ImplementsFifo, Fifo!Spec
=============================================================================
