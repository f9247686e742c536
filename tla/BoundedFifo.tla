------------------------------ MODULE BoundedFifo ------------------------------
(***************************************************************************)
(* What ts-bin/ring_buffer.h promises to its two users: a queue of at most *)
(* Capacity items, one process putting and one process getting, where      *)
(*   - ring_push answers -1 ("full") only when Capacity items are unread,  *)
(*   - ring_pop answers -1 ("empty") only when nothing is unread,          *)
(*   - items come out once each, whole, in the order they went in.         *)
(* The components above the ring (Matcher, Pipeline) use this view of it;  *)
(* RingBuffer is shown to implement it.                                    *)
(***************************************************************************)
EXTENDS Naturals, Sequences

CONSTANTS
    Item,       \* what is queued
    NoItem,     \* the reader's buffer before the first successful pop
    Capacity    \* the argument of ring_init

VARIABLES
    queue,      \* the unread items, oldest first
    putRes,     \* what the last ring_push answered
    getRes,     \* what the last ring_pop answered
    got         \* the last item handed to the reader

fifoVars == <<queue, putRes, getRes, got>>

Init ==
    /\ queue = <<>>
    /\ putRes = "none"
    /\ getRes = "none"
    /\ got = NoItem

Put(item) ==
    /\ Len(queue) < Capacity
    /\ queue' = Append(queue, item)
    /\ putRes' = "ok"
    /\ UNCHANGED <<getRes, got>>

PutFull ==
    /\ Len(queue) = Capacity
    /\ putRes' = "full"
    /\ UNCHANGED <<queue, getRes, got>>

Get ==
    /\ queue # <<>>
    /\ got' = Head(queue)
    /\ queue' = Tail(queue)
    /\ getRes' = "ok"
    /\ UNCHANGED putRes

GetEmpty ==
    /\ queue = <<>>
    /\ getRes' = "empty"
    /\ UNCHANGED <<queue, putRes, got>>

Next ==
    \/ \E item \in Item : Put(item)
    \/ PutFull
    \/ Get
    \/ GetEmpty

Spec == Init /\ [][Next]_fifoVars
=============================================================================
