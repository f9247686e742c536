-------------------------------- MODULE Capture --------------------------------
(***************************************************************************)
(* ts-bin/main_rxring.c, packet_receive: one process per interface that    *)
(* takes frames out of a memory-mapped PACKET_RX_RING, keeps the IPv4 ones *)
(* and pushes what it extracts of them into its ring for the matcher.      *)
(*                                                                         *)
(* The kernel side of the RX ring is not in the repository: Receive is     *)
(* what packet_receive relies on.  A slot belongs to the kernel while its  *)
(* tp_status is TP_STATUS_KERNEL and to the process otherwise; the kernel  *)
(* fills the slots in turn and drops a frame whose slot it does not own.   *)
(* The ring to the matcher is the bounded queue of BoundedFifo.            *)
(***************************************************************************)
EXTENDS Integers, Sequences

CONSTANTS
    Interface,             \* the interfaces
    MaxFrame,       \* frames that pass each interface (bound)
    FrameNr,        \* slots of the RX ring: tp_frame_nr
    PerBlock,       \* slots in a block: tp_block_size / tp_frame_size
    Capacity,       \* capacity of the ring to the matcher
    Lossy           \* may frames get lost before the kernel sees them?

ASSUME CaptureAssumption ==
    /\ MaxFrame \in Nat
    /\ FrameNr \in Nat \ {0}
    /\ PerBlock \in Nat \ {0}
    /\ FrameNr % PerBlock = 0      \* or setup_ringbuffer exits: EINVAL
    /\ Capacity \in Nat \ {0}
    /\ Lossy \in BOOLEAN

Frame == 1 .. MaxFrame

\* advance_frame: the index of the next slot, and the place of slot n in the
\* mapped memory, counted in slots
NextIdx(n) == (n + 1) % FrameNr
Address(n) == (n \div PerBlock) * PerBlock + (n % PerBlock)

\* The kernel's own count of the same slots
KernelNext(n) == IF n = FrameNr - 1 THEN 0 ELSE n + 1
Addr == 0 .. FrameNr - 1

VARIABLES
    ipv4,       \* which frames are IPv4 (eth->h_proto)
    arrived,    \* per interface, the last frame the network card delivered
    kIdx,       \* per interface, the slot the kernel fills next
    status,     \* per interface and slot, tp_status: "kernel" or "user"
    frameAt,    \* per interface and slot, the frame it holds, 0 at first
    pc,         \* per interface, where packet_receive is
    idx,        \* per interface, frame.frame_idx
    tphdr,      \* per interface, the slot the loop body works on
    datap,      \* per interface, the record built of that slot
    ring,       \* per interface, the ring to the matcher
    pushed      \* per interface, the frames ever pushed, in order

kernelVars == <<ipv4, arrived, kIdx>>
vars == <<ipv4, arrived, kIdx, status, frameAt, pc, idx, tphdr, datap, ring, pushed>>

Init ==
    /\ ipv4 \in SUBSET Frame
    /\ arrived = [i \in Interface |-> 0]
    /\ kIdx = [i \in Interface |-> 0]
    /\ status = [i \in Interface |-> [a \in Addr |-> "kernel"]]
    /\ frameAt = [i \in Interface |-> [a \in Addr |-> 0]]
    /\ pc = [i \in Interface |-> "poll"]
    /\ idx = [i \in Interface |-> 0]
    /\ tphdr = [i \in Interface |-> Address(0)]
    /\ datap = [i \in Interface |-> 0]
    /\ ring = [i \in Interface |-> <<>>]
    /\ pushed = [i \in Interface |-> <<>>]

(***************************************************************************)
(* The kernel                                                              *)
(***************************************************************************)

\* A frame arrives and the kernel owns the next slot: store it and hand the
\* slot over
Receive(i) ==
    LET a == kIdx[i] IN
    /\ arrived[i] < MaxFrame
    /\ status[i][a] = "kernel"
    /\ arrived' = [arrived EXCEPT ![i] = @ + 1]
    /\ frameAt' = [frameAt EXCEPT ![i][a] = arrived[i] + 1]
    /\ status' = [status EXCEPT ![i][a] = "user"]
    /\ kIdx' = [kIdx EXCEPT ![i] = KernelNext(@)]
    /\ UNCHANGED <<ipv4, pc, idx, tphdr, datap, ring, pushed>>

\* A frame is lost before it gets a slot: for want of one when the process still
\* owns the next, and if Lossy also in the network or in the card
Drop(i) ==
    /\ arrived[i] < MaxFrame
    /\ Lossy \/ status[i][kIdx[i]] = "user"
    /\ arrived' = [arrived EXCEPT ![i] = @ + 1]
    /\ UNCHANGED <<ipv4, kIdx, status, frameAt, pc, idx, tphdr, datap, ring, pushed>>

(***************************************************************************)
(* packet_receive                                                          *)
(***************************************************************************)

\* Faulty variant of Poll: the slot goes back before it is read
PollReleases(i) ==
    LET a == Address(idx[i]) IN
    /\ pc[i] = "poll"
    /\ status[i][a] # "kernel"
    /\ status' = [status EXCEPT ![i][a] = "kernel"]
    /\ tphdr' = [tphdr EXCEPT ![i] = a]
    /\ pc' = [pc EXCEPT ![i] = "inspect"]
    /\ UNCHANGED <<kernelVars, frameAt, idx, datap, ring, pushed>>

\* The busy wait ends: the slot at frame_ptr is no longer the kernel's
Poll(i) ==
    LET a == Address(idx[i]) IN
    /\ pc[i] = "poll"
    /\ status[i][a] # "kernel"
    /\ tphdr' = [tphdr EXCEPT ![i] = a]
    /\ pc' = [pc EXCEPT ![i] = "inspect"]
    /\ UNCHANGED <<kernelVars, status, frameAt, idx, datap, ring, pushed>>

\* Not IPv4: frame = advance_frame(frame, req), then release and continue
Skip(i) ==
    /\ pc[i] = "inspect"
    /\ frameAt[i][tphdr[i]] \notin ipv4
    /\ idx' = [idx EXCEPT ![i] = NextIdx(@)]
    /\ pc' = [pc EXCEPT ![i] = "release"]
    /\ UNCHANGED <<kernelVars, status, frameAt, tphdr, datap, ring, pushed>>

\* IPv4: read time stamp, hash, addresses and size out of the slot
Build(i) ==
    /\ pc[i] = "inspect"
    /\ frameAt[i][tphdr[i]] \in ipv4
    /\ datap' = [datap EXCEPT ![i] = frameAt[i][tphdr[i]]]
    /\ pc' = [pc EXCEPT ![i] = "push"]
    /\ UNCHANGED <<kernelVars, status, frameAt, idx, tphdr, ring, pushed>>

\* `for (;res == -1;) res = ring_push(...)`: a full ring changes nothing, so
\* only the attempt that succeeds is a step.  Then advance_frame.
Push(i) ==
    /\ pc[i] = "push"
    /\ Len(ring[i]) < Capacity
    /\ ring' = [ring EXCEPT ![i] = Append(@, datap[i])]
    /\ pushed' = [pushed EXCEPT ![i] = Append(@, datap[i])]
    /\ idx' = [idx EXCEPT ![i] = NextIdx(@)]
    /\ pc' = [pc EXCEPT ![i] = "release"]
    /\ UNCHANGED <<kernelVars, status, frameAt, tphdr, datap>>

\* Faulty variants of Release: the slot after advance_frame goes back instead of
\* the one that was read; no slot goes back
ReleaseAdvanced(i) ==
    /\ pc[i] = "release"
    /\ status' = [status EXCEPT ![i][Address(idx[i])] = "kernel"]
    /\ pc' = [pc EXCEPT ![i] = "poll"]
    /\ UNCHANGED <<kernelVars, frameAt, idx, tphdr, datap, ring, pushed>>

ReleaseForgotten(i) ==
    /\ pc[i] = "release"
    /\ pc' = [pc EXCEPT ![i] = "poll"]
    /\ UNCHANGED <<kernelVars, status, frameAt, idx, tphdr, datap, ring, pushed>>

\* tphdr->tp_status = TP_STATUS_KERNEL
Release(i) ==
    /\ pc[i] = "release"
    /\ status' = [status EXCEPT ![i][tphdr[i]] = "kernel"]
    /\ pc' = [pc EXCEPT ![i] = "poll"]
    /\ UNCHANGED <<kernelVars, frameAt, idx, tphdr, datap, ring, pushed>>

PacketReceive(i) == Poll(i) \/ Skip(i) \/ Build(i) \/ Push(i) \/ Release(i)

\* What is left of the matcher here: it takes the oldest record
Take(i) ==
    /\ ring[i] # <<>>
    /\ ring' = [ring EXCEPT ![i] = Tail(@)]
    /\ UNCHANGED <<kernelVars, status, frameAt, pc, idx, tphdr, datap, pushed>>

Step(i) == Receive(i) \/ Drop(i) \/ PacketReceive(i)

Next == \E i \in Interface : Step(i) \/ Take(i)

Spec == Init /\ [][Next]_vars

-------------------------------------------------------------------------------
TypeOK ==
    /\ ipv4 \subseteq Frame
    /\ arrived \in [Interface -> 0 .. MaxFrame]
    /\ kIdx \in [Interface -> 0 .. FrameNr - 1]
    /\ status \in [Interface -> [Addr -> {"kernel", "user"}]]
    /\ frameAt \in [Interface -> [Addr -> 0 .. MaxFrame]]
    /\ pc \in [Interface -> {"poll", "inspect", "push", "release"}]
    /\ idx \in [Interface -> 0 .. FrameNr - 1]
    /\ tphdr \in [Interface -> Addr]
    /\ datap \in [Interface -> 0 .. MaxFrame]
    /\ ring \in [Interface -> Seq(Frame)]
    /\ pushed \in [Interface -> Seq(Frame)]

\* While the loop body reads a slot, the kernel may not refill it.
OwnsWhatItReads ==
    \A i \in Interface : pc[i] # "poll" => status[i][tphdr[i]] = "user"

\* The slots handed over and not yet released are those from the one the
\* process works on to the one before the kernel's next: neither side skips or
\* repeats a slot although they only share the status words.
HandedOver ==
    \A i \in Interface :
        LET oldest == IF pc[i] = "release" THEN tphdr[i] ELSE Address(idx[i])
        IN  \E n \in 0 .. FrameNr :
               /\ kIdx[i] = (oldest + n) % FrameNr
               /\ {a \in Addr : status[i][a] = "user"}
                    = {(oldest + m) % FrameNr : m \in 0 .. n - 1}
=============================================================================
