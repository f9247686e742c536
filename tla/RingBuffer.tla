------------------------------ MODULE RingBuffer ------------------------------
(***************************************************************************)
(* ts-bin/ring_buffer.c: the lock-free ring in anonymous shared memory that*)
(* carries `struct relevant_data` from one capture process to the matching *)
(* process (sensors/query-sensors/ring_buffer.c is the same code with      *)
(* another payload struct).                                                *)
(*                                                                         *)
(* There is no lock and no barrier.  The steps below are the accesses to   *)
(* shared memory the two processes interleave: the check that reads the    *)
(* other side's index, each piece memcpy moves (in an order libc is free   *)
(* to choose), and the store of the own index.  Accesses of one process    *)
(* take effect in program order, which is what the x86 hosts of ts-bin and *)
(* its -O0 build give (README.md says what is left out).                   *)
(*                                                                         *)
(* A record is split into Piece pieces; the record of a value v is v in    *)
(* every piece, so a torn or stale record is one that is not of that form. *)
(***************************************************************************)
EXTENDS Integers, Sequences

CONSTANTS
    Capacity,   \* the `size` argument of ring_init; Capacity+1 slots exist
    Piece,      \* the units memcpy moves a record in
    Value,      \* the records the producer pushes
    Zero        \* the all-zero record that memset leaves in every slot

ASSUME CapacityAssumption == Capacity \in Nat \ {0}
ASSUME PieceAssumption == Piece # {}
ASSUME ZeroAssumption == Zero \notin Value

\* ring->size: one slot more than the capacity, so that full and empty differ
Size == Capacity + 1
Slot == 0 .. Capacity

Whole(v) == [p \in Piece |-> v]
Record == [Piece -> Value \cup {Zero}]

VARIABLES
    ringp,      \* the slots
    head,       \* next slot to write, stored by the producer only
    tail,       \* next slot to read, stored by the consumer only
    pPc,        \* where the producer is: "idle", "copy" or "publish"
    pNext,      \* `next` of the running ring_push
    pData,      \* the caller's record
    pTodo,      \* pieces memcpy has still to write
    putRes,     \* what the last ring_push returned
    cPc,        \* where the consumer is: "idle", "copy" or "publish"
    cNext,      \* `next` of the running ring_pop
    cData,      \* the caller's buffer ring_pop copies into
    cTodo,      \* pieces memcpy has still to read
    getRes,     \* what the last ring_pop returned
    got         \* the buffer's content when ring_pop last returned 0

shared == <<ringp, head, tail>>
pVars == <<pPc, pNext, pData, pTodo, putRes>>
cVars == <<cPc, cNext, cData, cTodo, getRes, got>>
vars == <<ringp, head, tail, pPc, pNext, pData, pTodo, putRes,
          cPc, cNext, cData, cTodo, getRes, got>>

\* the index after i: next = i + 1; if (next >= rb->size) next = 0
After(i) == IF i + 1 >= Size THEN 0 ELSE i + 1

\* ring_init; no call is running
Init ==
    /\ ringp = [s \in Slot |-> Whole(Zero)]
    /\ head = 0
    /\ tail = 0
    /\ pPc = "idle" /\ pNext = 0 /\ pData = Zero /\ pTodo = {} /\ putRes = "none"
    /\ cPc = "idle" /\ cNext = 0 /\ cData = Whole(Zero) /\ cTodo = {}
    /\ getRes = "none" /\ got = Whole(Zero)

(***************************************************************************)
(* ring_push                                                               *)
(***************************************************************************)

\* Faulty variant of PushFull: a slot too early
PushFullEarly ==
    /\ pPc = "idle"
    /\ tail \in {After(head), After(After(head))}
    /\ putRes' = "full"
    /\ UNCHANGED <<ringp, head, tail, pPc, pNext, pData, pTodo, cVars>>

\* `next == rb->tail`: the ring is full, return -1
PushFull ==
    /\ pPc = "idle"
    /\ After(head) = tail
    /\ putRes' = "full"
    /\ UNCHANGED <<ringp, head, tail, pPc, pNext, pData, pTodo, cVars>>

\* Faulty variant of PushStart: no check against the reader's index
PushStartUnchecked(v) ==
    /\ pPc = "idle"
    /\ pPc' = "copy"
    /\ pNext' = After(head)
    /\ pData' = v
    /\ pTodo' = Piece
    /\ UNCHANGED <<ringp, head, tail, putRes, cVars>>

\* there is room for v: enter memcpy
PushStart(v) ==
    /\ pPc = "idle"
    /\ After(head) # tail
    /\ pPc' = "copy"
    /\ pNext' = After(head)
    /\ pData' = v
    /\ pTodo' = Piece
    /\ UNCHANGED <<ringp, head, tail, putRes, cVars>>

\* memcpy writes one piece of the slot at head
PushCopy(p) ==
    /\ pPc = "copy"
    /\ p \in pTodo
    /\ ringp' = [ringp EXCEPT ![head][p] = pData]
    /\ pTodo' = pTodo \ {p}
    /\ pPc' = IF pTodo' = {} THEN "publish" ELSE "copy"
    /\ UNCHANGED <<head, tail, pNext, pData, putRes, cVars>>

\* rb->head = next; return 0
PushPublish ==
    /\ pPc = "publish"
    /\ head' = pNext
    /\ pPc' = "idle"
    /\ putRes' = "ok"
    /\ UNCHANGED <<ringp, tail, pNext, pData, pTodo, cVars>>

(***************************************************************************)
(* ring_pop                                                                *)
(***************************************************************************)

\* `rb->head == rb->tail`: nothing to read, return -1
PopEmpty ==
    /\ cPc = "idle"
    /\ head = tail
    /\ getRes' = "empty"
    /\ UNCHANGED <<shared, pVars, cPc, cNext, cData, cTodo, got>>

\* Faulty variant of PopStart: takes the last record for an empty ring
PopStartKeepLast ==
    /\ cPc = "idle"
    /\ head \notin {tail, After(tail)}
    /\ cPc' = "copy"
    /\ cNext' = After(tail)
    /\ cTodo' = Piece
    /\ UNCHANGED <<shared, pVars, cData, getRes, got>>

\* something is unread: enter memcpy
PopStart ==
    /\ cPc = "idle"
    /\ head # tail
    /\ cPc' = "copy"
    /\ cNext' = After(tail)
    /\ cTodo' = Piece
    /\ UNCHANGED <<shared, pVars, cData, getRes, got>>

\* memcpy reads one piece of the slot at tail
PopCopy(p) ==
    /\ cPc = "copy"
    /\ p \in cTodo
    /\ cData' = [cData EXCEPT ![p] = ringp[tail][p]]
    /\ cTodo' = cTodo \ {p}
    /\ cPc' = IF cTodo' = {} THEN "publish" ELSE "copy"
    /\ UNCHANGED <<shared, pVars, cNext, getRes, got>>

\* rb->tail = next; return 0
PopPublish ==
    /\ cPc = "publish"
    /\ tail' = cNext
    /\ cPc' = "idle"
    /\ getRes' = "ok"
    /\ got' = cData
    /\ UNCHANGED <<ringp, head, pVars, cNext, cData, cTodo>>

Producer ==
    \/ \E v \in Value : PushStart(v)
    \/ PushFull
    \/ \E p \in Piece : PushCopy(p)
    \/ PushPublish

Consumer ==
    \/ PopEmpty
    \/ PopStart
    \/ \E p \in Piece : PopCopy(p)
    \/ PopPublish

Next == Producer \/ Consumer

Spec == Init /\ [][Next]_vars

\* process_timestamps polls its rings in an endless loop that never blocks
\* between two polls, so the consumer's steps are weakly fair.  Nothing is
\* assumed of the producer: it may be killed between any two of its steps.
FairSpec == Spec /\ WF_vars(Consumer)

-------------------------------------------------------------------------------
(***************************************************************************)
(* Properties                                                              *)
(***************************************************************************)

TypeOK ==
    /\ ringp \in [Slot -> Record]
    /\ head \in Slot
    /\ tail \in Slot
    /\ pPc \in {"idle", "copy", "publish"}
    /\ pNext \in Slot
    /\ pData \in Value \cup {Zero}
    /\ pTodo \subseteq Piece
    /\ putRes \in {"none", "ok", "full"}
    /\ cPc \in {"idle", "copy", "publish"}
    /\ cNext \in Slot
    /\ cData \in Record
    /\ cTodo \subseteq Piece
    /\ getRes \in {"none", "ok", "empty"}
    /\ got \in Record

\* slot s holds a record that was pushed and not yet popped
Unread(s) ==
    IF tail <= head THEN tail <= s /\ s < head
                    ELSE tail <= s \/ s < head

\* The two memcpys never touch the same slot at the same time: ring_push and
\* ring_pop share no lock, only the gap the full and empty checks keep.
DisjointAccess ==
    pPc # "idle" /\ cPc # "idle" => head # tail

\* What a running ring_push knows of the slot it fills
PushInv ==
    /\ pPc # "idle" => /\ pNext = After(head)
                       /\ After(head) # tail
                       /\ pData \in Value
                       /\ \A p \in Piece \ pTodo : ringp[head][p] = pData
    /\ pPc = "publish" => pTodo = {}

\* What a running ring_pop knows of the slot it reads
PopInv ==
    /\ cPc # "idle" => /\ cNext = After(tail)
                       /\ head # tail
                       /\ \A p \in Piece \ cTodo : cData[p] = ringp[tail][p]
    /\ cPc = "publish" => cTodo = {}

\* Every unread slot holds a whole record that was pushed, never a torn one,
\* one of an earlier round or the zeroes of memset, and what the two calls
\* have half done fits it.  (With TypeOK this is inductive.)
RingInv ==
    /\ PushInv
    /\ PopInv
    /\ \A s \in Slot : Unread(s) => \E v \in Value : ringp[s] = Whole(v)

\* Every published record is popped, even if the producer dies after it and
\* even when the record is the only one in the ring.
EveryRecordRead == \A s \in Slot : Unread(s) ~> ~Unread(s)

\* The unread records, oldest first
Count == IF tail <= head THEN head - tail ELSE head - tail + Size
SlotOf(i) == IF tail + i - 1 >= Size THEN tail + i - 1 - Size ELSE tail + i - 1
Queue == [i \in 1 .. Count |-> ringp[SlotOf(i)]]

Fifo == INSTANCE BoundedFifo
    WITH Item <- {Whole(v) : v \in Value}, NoItem <- Whole(Zero),
         queue <- Queue

\* The ring is a bounded queue: whole records, once each, in order, refused
\* only when exactly Capacity are unread and missing only when none is.
ImplementsFifo == Fifo!Spec
=============================================================================
