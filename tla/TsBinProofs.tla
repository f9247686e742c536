------------------------------ MODULE TsBinProofs ------------------------------
(***************************************************************************)
(* What is proved of the processes of ts-bin, in three parts.              *)
(*                                                                         *)
(* Capture: for any number of interfaces and frames, any size and division *)
(* into blocks of the kernel's ring, any capacity of the ring to the       *)
(* matcher and any loss.  Pipeline: the captures drive the matching        *)
(* process as Matcher assumes, so what MatcherProofs shows of any traffic  *)
(* holds of the whole of ts-bin; only this part uses PipelineAssumption.   *)
(* Lifecycle: how the processes go down, for any signals from outside; of  *)
(* the other parts it uses nothing.                                        *)
(***************************************************************************)
EXTENDS Pipeline, Lifecycle, SequenceTheorems, TLAPS

(***************************************************************************)
(* Indices of the kernel's ring, without division                          *)
(***************************************************************************)

Wrap(x) == IF x < FrameNr THEN x ELSE x - FrameNr

\* How far slot a is from slot o
Off(o, a) == IF a >= o THEN a - o ELSE a - o + FrameNr

\* One round of the ring at most: the remainder is a subtraction.
LEMMA WrapIsMod == ASSUME NEW x \in 0 .. 2 * FrameNr - 1 PROVE x % FrameNr = Wrap(x)
<1>1. CASE x < FrameNr
    BY <1>1, CaptureAssumption DEF Wrap
<1>2. CASE x >= FrameNr
    BY <1>2, CaptureAssumption DEF Wrap
<1> QED
    BY <1>1, <1>2, CaptureAssumption

\* advance_frame's arithmetic of blocks and frames finds the slot itself.
LEMMA AddressIsIndex == ASSUME NEW n \in Nat PROVE Address(n) = n
    BY CaptureAssumption DEF Address

LEMMA NextIsWrap == ASSUME NEW n \in Addr PROVE NextIdx(n) = Wrap(n + 1) /\ NextIdx(n) \in Addr
<1>1. n + 1 \in 0 .. 2 * FrameNr - 1
    BY CaptureAssumption DEF Addr
<1> QED
    BY <1>1, WrapIsMod, CaptureAssumption DEF NextIdx, Addr, Wrap

LEMMA KernelNextIsWrap ==
    ASSUME NEW n \in Addr PROVE KernelNext(n) = Wrap(n + 1) /\ KernelNext(n) \in Addr
    BY CaptureAssumption DEF KernelNext, Addr, Wrap

-------------------------------------------------------------------------------
(***************************************************************************)
(* The invariant.  Seen from the slot the process works on, the slots it   *)
(* owns are the next n ones and the kernel's next is behind them: this is  *)
(* all either side knows of the other.  The loop body never works on a     *)
(* slot it does not own, and a record goes out as it was built.            *)
(***************************************************************************)

\* The oldest slot handed over and not given back
Oldest(i) == IF pc[i] = "release" THEN tphdr[i] ELSE idx[i]

InBody(i) ==
    /\ pc[i] \in {"inspect", "push"} => tphdr[i] = idx[i]
    /\ pc[i] = "release" => idx[i] = Wrap(tphdr[i] + 1)
    /\ pc[i] # "poll" => status[i][tphdr[i]] = "user"
    /\ pc[i] = "push" => datap[i] = frameAt[i][tphdr[i]] /\ datap[i] \in ipv4

Split(i, n) ==
    /\ kIdx[i] = Wrap(Oldest(i) + n)
    /\ \A a \in Addr : status[i][a] = "user" <=> Off(Oldest(i), a) < n

SlotInv(i) ==
    /\ InBody(i)
    /\ \E n \in 0 .. FrameNr : Split(i, n)

\* The slots whose frames are not pushed or skipped yet
Pending(i, a) == status[i][a] = "user" /\ ~(pc[i] = "release" /\ a = tphdr[i])

\* Frames are in the slots in the order they came, and later than those pushed
OrderInv(i) ==
    /\ \A a \in Addr : status[i][a] = "user" => frameAt[i][a] \in 1 .. arrived[i]
    /\ \A a, b \in Addr :
          /\ status[i][a] = "user"
          /\ status[i][b] = "user"
          /\ Off(Oldest(i), a) < Off(Oldest(i), b)
          => frameAt[i][a] < frameAt[i][b]
    /\ \A k \in 1 .. Len(pushed[i]) : pushed[i][k] <= arrived[i]
    /\ \A k \in 1 .. Len(pushed[i]) : \A a \in Addr :
          Pending(i, a) => pushed[i][k] < frameAt[i][a]

CaptureInv == \A i \in Interface : SlotInv(i) /\ OrderInv(i)

(***************************************************************************)
(* Types                                                                   *)
(***************************************************************************)

LEMMA TypeInit == Init => TypeOK
<1>1. 0 \in Addr /\ Address(0) \in Addr
    BY AddressIsIndex, CaptureAssumption DEF Addr
<1> QED
    BY <1>1, CaptureAssumption DEF Init, TypeOK, Frame, Addr

LEMMA TypeStep == TypeOK /\ CaptureInv /\ [Next]_vars => TypeOK'
<1> SUFFICES ASSUME TypeOK, CaptureInv, [Next]_vars PROVE TypeOK'
    OBVIOUS
<1>1. ASSUME NEW i \in Interface, Receive(i) PROVE TypeOK'
  <2>1. kIdx[i] \in Addr /\ arrived[i] \in 0 .. MaxFrame - 1
      BY <1>1, CaptureAssumption DEF Receive, TypeOK, Addr
  <2>2. KernelNext(kIdx[i]) \in 0 .. FrameNr - 1
      BY <2>1, KernelNextIsWrap DEF Addr
  <2>3. frameAt' \in [Interface -> [Addr -> 0 .. MaxFrame]]
      BY <1>1, <2>1, CaptureAssumption DEF Receive, TypeOK
  <2>4. status' \in [Interface -> [Addr -> {"kernel", "user"}]]
      BY <1>1, <2>1 DEF Receive, TypeOK
  <2> QED
      BY <1>1, <2>1, <2>2, <2>3, <2>4, CaptureAssumption DEF Receive, TypeOK
<1>2. ASSUME NEW i \in Interface, Drop(i) PROVE TypeOK'
    BY <1>2, CaptureAssumption DEF Drop, TypeOK
<1>3. ASSUME NEW i \in Interface, Poll(i) PROVE TypeOK'
  <2>1. Address(idx[i]) \in Addr
      BY AddressIsIndex, CaptureAssumption DEF TypeOK, Addr
  <2> QED
      BY <1>3, <2>1 DEF Poll, TypeOK, kernelVars
<1>4. ASSUME NEW i \in Interface, Skip(i) PROVE TypeOK'
  <2>1. NextIdx(idx[i]) \in 0 .. FrameNr - 1
      BY NextIsWrap DEF TypeOK, Addr
  <2> QED
      BY <1>4, <2>1 DEF Skip, TypeOK, kernelVars
<1>5. ASSUME NEW i \in Interface, Build(i) PROVE TypeOK'
    BY <1>5 DEF Build, TypeOK, kernelVars
<1>6. ASSUME NEW i \in Interface, Push(i) PROVE TypeOK'
  <2>1. NextIdx(idx[i]) \in 0 .. FrameNr - 1
      BY NextIsWrap DEF TypeOK, Addr
  <2>2. datap[i] \in Frame
      BY <1>6 DEF Push, CaptureInv, SlotInv, InBody, TypeOK
  <2>3. /\ Append(ring[i], datap[i]) \in Seq(Frame)
        /\ Append(pushed[i], datap[i]) \in Seq(Frame)
      BY <2>2, AppendProperties DEF TypeOK
  <2> QED
      BY <1>6, <2>1, <2>3 DEF Push, TypeOK, kernelVars
<1>7. ASSUME NEW i \in Interface, Release(i) PROVE TypeOK'
    BY <1>7 DEF Release, TypeOK, kernelVars
<1>8. ASSUME NEW i \in Interface, Take(i) PROVE TypeOK'
  <2>1. Tail(ring[i]) \in Seq(Frame)
      BY <1>8, HeadTailProperties DEF Take, TypeOK
  <2> QED
      BY <1>8, <2>1 DEF Take, TypeOK, kernelVars
<1>9. CASE UNCHANGED vars
    BY <1>9 DEF vars, TypeOK
<1> QED
    BY <1>1, <1>2, <1>3, <1>4, <1>5, <1>6, <1>7, <1>8, <1>9 DEF Next, Step, PacketReceive

-------------------------------------------------------------------------------
(***************************************************************************)
(* The slots.  One lemma per step that hands a slot over, moves Oldest or  *)
(* changes what is pending; the others leave Split and the order alone.    *)
(***************************************************************************)

\* Off walks round the ring and meets every slot once.
LEMMA OffFacts ==
    ASSUME NEW o \in Addr
    PROVE  /\ \A a \in Addr : Off(o, a) \in 0 .. FrameNr - 1
           /\ \A a, b \in Addr : Off(o, a) = Off(o, b) => a = b
           /\ \A a \in Addr : a # o => Off(Wrap(o + 1), a) = Off(o, a) - 1
           /\ Off(o, o) = 0
           /\ Off(Wrap(o + 1), o) = FrameNr - 1
           /\ \A n \in 0 .. FrameNr - 1 : Wrap(o + n) \in Addr /\ Off(o, Wrap(o + n)) = n
           /\ \A n \in 0 .. FrameNr - 1 : Wrap(Wrap(o + n) + 1) = Wrap(o + (n + 1))
           /\ \A n \in 1 .. FrameNr : Wrap(o + n) = Wrap(Wrap(o + 1) + (n - 1))
    BY CaptureAssumption DEF Off, Wrap, Addr

LEMMA OldestType == ASSUME TypeOK, NEW i \in Interface PROVE Oldest(i) \in Addr
    BY DEF TypeOK, Oldest, Addr

LEMMA ReceiveSlots ==
    ASSUME TypeOK, CaptureInv, NEW i \in Interface, Receive(i)
    PROVE  SlotInv(i)' /\ OrderInv(i)'
<1> DEFINE o == Oldest(i)
           a == kIdx[i]
<1>1. o \in Addr /\ a \in Addr /\ Oldest(i)' = o
    BY OldestType DEF TypeOK, Receive, Oldest, Addr
<1>2. PICK n \in 0 .. FrameNr : Split(i, n)
    BY DEF CaptureInv, SlotInv
<1>3. /\ status[i][a] = "kernel"
      /\ status'[i][a] = "user"
      /\ \A b \in Addr : b # a => status'[i][b] = status[i][b] /\ frameAt'[i][b] = frameAt[i][b]
      /\ frameAt'[i][a] = arrived[i] + 1
      /\ arrived'[i] = arrived[i] + 1
      /\ arrived[i] \in Nat
      /\ kIdx'[i] = KernelNext(a)
      /\ pc' = pc /\ tphdr' = tphdr /\ idx' = idx /\ datap' = datap /\ ipv4' = ipv4
      /\ pushed' = pushed
    BY <1>1, CaptureAssumption DEF Receive, TypeOK
<1>4. n < FrameNr /\ Off(o, a) = n
  <2>1. ~(Off(o, a) < n)
      BY <1>1, <1>2, <1>3 DEF Split
  <2>2. Off(o, a) \in 0 .. FrameNr - 1
      BY <1>1, OffFacts
  <2>3. n \in 0 .. FrameNr - 1
      BY <2>1, <2>2, CaptureAssumption
  <2> QED
      BY <1>1, <1>2, <2>3, OffFacts, CaptureAssumption DEF Split
<1>5. SlotInv(i)'
  <2>1. InBody(i)'
    <3>1. InBody(i) /\ tphdr[i] \in Addr /\ pc[i] # "poll" => tphdr[i] # a
        BY <1>3 DEF CaptureInv, SlotInv, InBody, TypeOK
    <3> QED
        BY <1>3, <3>1 DEF InBody, CaptureInv, SlotInv, TypeOK
  <2>2. Split(i, n + 1)'
    <3>1. kIdx'[i] = Wrap(o + (n + 1))
        BY <1>1, <1>2, <1>3, <1>4, OffFacts, KernelNextIsWrap DEF Split
    <3>2. \A b \in Addr : status'[i][b] = "user" <=> Off(o, b) < n + 1
      <4> TAKE b \in Addr
      <4>1. Off(o, b) \in 0 .. FrameNr - 1 /\ (Off(o, b) = Off(o, a) => a = b)
          BY <1>1, OffFacts
      <4>2. CASE b = a
          BY <4>2, <1>3, <1>4
      <4>3. CASE b # a
          BY <4>1, <4>3, <1>2, <1>3, <1>4 DEF Split
      <4> QED
          BY <4>2, <4>3
    <3> QED
        BY <1>1, <3>1, <3>2 DEF Split, Off, Addr
  <2>3. n + 1 \in 0 .. FrameNr
      BY <1>4, CaptureAssumption
  <2> QED
      BY <2>1, <2>2, <2>3 DEF SlotInv
<1>6. OrderInv(i)'
  <2>1. OrderInv(i)
      BY DEF CaptureInv
  <2>2. \A b \in Addr : status'[i][b] = "user" => frameAt'[i][b] \in 1 .. arrived'[i]
      BY <2>1, <1>3 DEF OrderInv
  <2>3. ASSUME NEW b \in Addr, NEW c \in Addr, status'[i][b] = "user",
               status'[i][c] = "user", Off(o, b) < Off(o, c)
        PROVE  frameAt'[i][b] < frameAt'[i][c]
    <3>1. Off(o, b) \in 0 .. FrameNr - 1 /\ Off(o, c) \in 0 .. FrameNr - 1
        BY <1>1, OffFacts
    <3>2. b # a
      <4>1. SUFFICES ASSUME b = a, c # a PROVE FALSE
          BY <2>3, <3>1
      <4>2. Off(o, c) < n
          BY <1>2, <1>3, <2>3, <4>1 DEF Split
      <4> QED
          BY <2>3, <3>1, <4>1, <4>2, <1>4
    <3>3. CASE c = a
        BY <2>1, <2>3, <3>2, <3>3, <1>3 DEF OrderInv
    <3>4. CASE c # a
        BY <2>1, <2>3, <3>2, <3>4, <1>3 DEF OrderInv
    <3> QED
        BY <3>3, <3>4
  <2>4. \A k \in 1 .. Len(pushed'[i]) : pushed'[i][k] <= arrived'[i]
    <3>1. \A k \in 1 .. Len(pushed[i]) : pushed[i][k] \in Frame
        BY ElementOfSeq DEF TypeOK
    <3> QED
        BY <2>1, <3>1, <1>3, CaptureAssumption DEF OrderInv, Frame
  <2>5. ASSUME NEW k \in 1 .. Len(pushed'[i]), NEW b \in Addr, Pending(i, b)'
        PROVE  pushed'[i][k] < frameAt'[i][b]
    <3>1. pushed[i][k] \in Nat /\ pushed[i][k] <= arrived[i]
        BY <2>1, <2>5, <1>3, ElementOfSeq, CaptureAssumption DEF OrderInv, TypeOK, Frame
    <3>2. CASE b = a
        BY <3>1, <3>2, <1>3
    <3>3. CASE b # a
      <4>1. Pending(i, b)
          BY <2>5, <3>3, <1>3 DEF Pending
      <4> QED
          BY <4>1, <2>1, <2>5, <3>3, <1>3 DEF OrderInv
    <3> QED
        BY <3>2, <3>3
  <2> QED
      BY <1>1, <2>2, <2>3, <2>4, <2>5 DEF OrderInv, Off, Addr
<1> QED
    BY <1>5, <1>6

\* A slot the process goes past without giving it back yet: Oldest stays.
LEMMA AdvanceSlots ==
    ASSUME TypeOK, CaptureInv, NEW i \in Interface, pc[i] \in {"inspect", "push"},
           idx'[i] = NextIdx(idx[i]), pc'[i] = "release",
           UNCHANGED <<kernelVars, status, frameAt, tphdr, datap>>,
           \/ pushed' = pushed
           \/ pc[i] = "push" /\ pushed' = [pushed EXCEPT ![i] = Append(@, datap[i])]
    PROVE  SlotInv(i)' /\ OrderInv(i)'
<1>1. /\ idx[i] \in Addr /\ tphdr[i] = idx[i] /\ status[i][tphdr[i]] = "user"
      /\ Oldest(i) = idx[i] /\ Oldest(i)' = Oldest(i)
      /\ pc[i] = "push" => datap[i] = frameAt[i][idx[i]]
    BY DEF CaptureInv, SlotInv, InBody, TypeOK, Oldest, Addr
<1>2. idx'[i] = Wrap(tphdr[i] + 1)
    BY <1>1, NextIsWrap
<1>3. PICK n \in 0 .. FrameNr : Split(i, n)
    BY DEF CaptureInv, SlotInv
<1>4. SlotInv(i)'
    BY <1>1, <1>2, <1>3 DEF SlotInv, InBody, Split, kernelVars, Wrap, Off, Addr
<1>5. OrderInv(i)'
  <2>1. OrderInv(i)
      BY DEF CaptureInv
  <2>2. \A a \in Addr : Pending(i, a)' => Pending(i, a) /\ a # idx[i]
      BY <1>1 DEF Pending, TypeOK
  <2>3. ASSUME pushed' = [pushed EXCEPT ![i] = Append(@, datap[i])], pc[i] = "push"
        PROVE  /\ \A k \in 1 .. Len(pushed'[i]) : pushed'[i][k] <= arrived'[i]
               /\ \A k \in 1 .. Len(pushed'[i]) : \A a \in Addr :
                     Pending(i, a)' => pushed'[i][k] < frameAt'[i][a]
    <3>1. pushed[i] \in Seq(Frame) /\ datap[i] \in Frame
        BY <2>3 DEF TypeOK, CaptureInv, SlotInv, InBody
    <3>2. /\ Len(pushed'[i]) = Len(pushed[i]) + 1 /\ Len(pushed[i]) \in Nat
          /\ \A k \in 1 .. Len(pushed[i]) : pushed'[i][k] = pushed[i][k]
          /\ pushed'[i][Len(pushed[i]) + 1] = datap[i]
        BY <2>3, <3>1, AppendProperties, LenProperties DEF TypeOK
    <3>3. datap[i] <= arrived[i] /\ arrived' = arrived /\ frameAt' = frameAt
        BY <1>1, <2>1, <2>3, CaptureAssumption DEF OrderInv, kernelVars, TypeOK
    <3>4. ASSUME NEW a \in Addr, Pending(i, a)' PROVE datap[i] < frameAt[i][a]
      <4>1. status[i][a] = "user" /\ a # idx[i] /\ status[i][idx[i]] = "user"
          BY <1>1, <2>2, <3>4 DEF Pending
      <4>2. Off(idx[i], idx[i]) < Off(idx[i], a)
        <5>1. /\ Off(idx[i], idx[i]) = 0 /\ Off(idx[i], a) \in 0 .. FrameNr - 1
              /\ Off(idx[i], a) = Off(idx[i], idx[i]) => a = idx[i]
            BY <1>1, OffFacts
        <5> QED
            BY <4>1, <5>1, CaptureAssumption
      <4> QED
          BY <1>1, <2>1, <2>3, <4>1, <4>2 DEF OrderInv
    <3>5. ASSUME NEW k \in 1 .. Len(pushed'[i])
          PROVE  k \in 1 .. Len(pushed[i]) \/ pushed'[i][k] = datap[i]
        BY <3>2
    <3> QED
        BY <2>1, <2>2, <3>2, <3>3, <3>4, <3>5 DEF OrderInv
  <2>4. CASE pushed' = pushed
      BY <1>1, <2>1, <2>2, <2>4 DEF OrderInv, kernelVars, Off, Addr
  <2>5. CASE pc[i] = "push" /\ pushed' = [pushed EXCEPT ![i] = Append(@, datap[i])]
      BY <1>1, <2>1, <2>3, <2>5 DEF OrderInv, kernelVars, Off, Addr
  <2> QED
      BY <2>4, <2>5
<1> QED
    BY <1>4, <1>5

\* Giving the oldest slot back: Oldest moves on by one and so do all distances.
LEMMA ReleaseSlots ==
    ASSUME TypeOK, CaptureInv, NEW i \in Interface, Release(i)
    PROVE  SlotInv(i)' /\ OrderInv(i)'
<1> DEFINE o == tphdr[i]
<1>1. /\ o \in Addr /\ Oldest(i) = o /\ Oldest(i)' = Wrap(o + 1)
      /\ status[i][o] = "user" /\ pc[i] = "release" /\ pc'[i] = "poll"
    BY DEF Release, TypeOK, Oldest, CaptureInv, SlotInv, InBody
<1>2. /\ status'[i][o] = "kernel"
      /\ \A a \in Addr : a # o => status'[i][a] = status[i][a]
      /\ kIdx' = kIdx /\ frameAt' = frameAt /\ arrived' = arrived /\ pushed' = pushed
    BY <1>1 DEF Release, TypeOK, kernelVars
<1>3. PICK n \in 0 .. FrameNr : Split(i, n)
    BY DEF CaptureInv, SlotInv
<1>4. n \in 1 .. FrameNr
    BY <1>1, <1>3, OffFacts, CaptureAssumption DEF Split
<1>5. ASSUME NEW a \in Addr
      PROVE  /\ a # o => Off(Oldest(i)', a) = Off(o, a) - 1
             /\ Off(Oldest(i)', o) = FrameNr - 1
             /\ Off(o, a) \in 0 .. FrameNr - 1
    BY <1>1, OffFacts
<1>6. Split(i, n - 1)'
  <2>1. kIdx'[i] = Wrap(Oldest(i)' + (n - 1))
      BY <1>1, <1>2, <1>3, <1>4, OffFacts DEF Split
  <2>2. ASSUME NEW a \in Addr PROVE status'[i][a] = "user" <=> Off(Oldest(i)', a) < n - 1
    <3>1. CASE a = o
        BY <1>1, <1>2, <1>4, <1>5, <3>1, CaptureAssumption
    <3>2. CASE a # o
        BY <1>1, <1>2, <1>3, <1>4, <1>5, <3>2, CaptureAssumption DEF Split
    <3> QED
        BY <3>1, <3>2
  <2> QED
      BY <2>1, <2>2 DEF Split, Off, Addr
<1>7. n - 1 \in 0 .. FrameNr
    BY <1>4, CaptureAssumption
<1>8. SlotInv(i)'
    BY <1>1, <1>6, <1>7 DEF SlotInv, InBody
<1>9. OrderInv(i)'
  <2>1. OrderInv(i)
      BY DEF CaptureInv
  <2>2. \A a \in Addr : status'[i][a] = "user" => a # o /\ status[i][a] = "user"
      BY <1>2
  <2>3. ASSUME NEW a \in Addr, NEW b \in Addr, status'[i][a] = "user",
               status'[i][b] = "user", Off(Oldest(i)', a) < Off(Oldest(i)', b)
        PROVE  frameAt[i][a] < frameAt[i][b]
    <3>1. Off(o, a) < Off(o, b)
        BY <1>5, <2>2, <2>3, CaptureAssumption
    <3> QED
        BY <1>1, <2>1, <2>2, <2>3, <3>1 DEF OrderInv
  <2>4. \A a \in Addr : Pending(i, a)' => Pending(i, a)
      BY <1>1, <2>2 DEF Pending
  <2> QED
      BY <1>2, <2>1, <2>2, <2>3, <2>4 DEF OrderInv, Off, Addr
<1> QED
    BY <1>8, <1>9

LEMMA CaptureInvInit == Init => CaptureInv
<1> SUFFICES ASSUME Init, NEW i \in Interface PROVE SlotInv(i) /\ OrderInv(i)
    BY DEF CaptureInv
<1>1. 0 \in Addr /\ Oldest(i) = 0
    BY CaptureAssumption DEF Init, Oldest, Addr
<1>2. Split(i, 0)
  <2>1. Wrap(0 + 0) = 0
      BY CaptureAssumption DEF Wrap
  <2>2. \A a \in Addr : Off(0, a) \in 0 .. FrameNr - 1
      BY <1>1, OffFacts
  <2> QED
      BY <1>1, <2>1, <2>2, CaptureAssumption DEF Init, Split
<1>3. SlotInv(i)
    BY <1>2, CaptureAssumption DEF Init, SlotInv, InBody
<1>4. OrderInv(i)
    BY DEF Init, OrderInv, Pending
<1> QED
    BY <1>3, <1>4

LEMMA CaptureInvStep == TypeOK /\ CaptureInv /\ [Next]_vars => CaptureInv'
<1> SUFFICES ASSUME TypeOK, CaptureInv, [Next]_vars, NEW i \in Interface
             PROVE  SlotInv(i)' /\ OrderInv(i)'
    BY DEF CaptureInv
<1> DEFINE Mine == <<arrived[i], kIdx[i], status[i], frameAt[i], pc[i], idx[i], tphdr[i],
                     datap[i], pushed[i]>>
<1>1. SlotInv(i) /\ OrderInv(i)
    BY DEF CaptureInv
<1>2. ASSUME Mine' = Mine, ipv4' = ipv4 PROVE SlotInv(i)' /\ OrderInv(i)'
    BY <1>1, <1>2 DEF SlotInv, InBody, Split, OrderInv, Pending, Oldest, Wrap, Off, Addr
<1>3. CASE UNCHANGED vars
    BY <1>2, <1>3 DEF vars
<1>4. ASSUME NEW j \in Interface, Step(j), j # i PROVE SlotInv(i)' /\ OrderInv(i)'
  <2>1. Mine' = Mine /\ ipv4' = ipv4
      BY <1>4 DEF Step, PacketReceive, Receive, Drop, Poll, Skip, Build, Push, Release,
                  kernelVars, TypeOK
  <2> QED
      BY <1>2, <2>1
<1>5. ASSUME NEW j \in Interface, Take(j) PROVE SlotInv(i)' /\ OrderInv(i)'
    BY <1>2, <1>5 DEF Take, kernelVars
<1>6. CASE Receive(i)
    BY <1>6, ReceiveSlots
<1>7. CASE Drop(i)
  <2>1. arrived[i] \in Nat /\ arrived'[i] = arrived[i] + 1
      BY <1>7, CaptureAssumption DEF Drop, TypeOK
  <2>2. \A k \in 1 .. Len(pushed[i]) : pushed[i][k] \in Nat
      BY ElementOfSeq, CaptureAssumption DEF TypeOK, Frame
  <2>3. SlotInv(i)'
      BY <1>1, <1>7 DEF Drop, SlotInv, InBody, Split, Oldest, Wrap, Off, Addr
  <2>4. OrderInv(i)'
      BY <1>1, <1>7, <2>1, <2>2 DEF Drop, OrderInv, Pending, Oldest, Off, Addr
  <2> QED
      BY <2>3, <2>4
<1>8. CASE Poll(i)
  <2>1. Address(idx[i]) = idx[i]
      BY AddressIsIndex, CaptureAssumption DEF TypeOK
  <2>2. pc[i] = "poll" /\ pc'[i] = "inspect" /\ tphdr'[i] = idx[i] /\ Oldest(i)' = Oldest(i)
      BY <1>8, <2>1 DEF Poll, TypeOK, Oldest
  <2>3. status[i][idx[i]] = "user"
    <3>1. status[i][idx[i]] # "kernel"
        BY <1>8, <2>1 DEF Poll
    <3>2. idx[i] \in Addr /\ status[i] \in [Addr -> {"kernel", "user"}]
        BY DEF TypeOK, Addr
    <3> QED
        BY <3>1, <3>2
  <2>4. SlotInv(i)'
      BY <1>1, <1>8, <2>2, <2>3 DEF Poll, SlotInv, InBody, Split, kernelVars, Wrap, Off, Addr
  <2>5. OrderInv(i)'
      BY <1>1, <1>8, <2>2 DEF Poll, OrderInv, Pending, kernelVars, Off, Addr
  <2> QED
      BY <2>4, <2>5
<1>9. CASE Skip(i)
    BY <1>9, AdvanceSlots DEF Skip, TypeOK
<1>10. CASE Build(i)
  <2>1. /\ pc[i] = "inspect" /\ pc'[i] = "push" /\ Oldest(i)' = Oldest(i)
        /\ datap'[i] = frameAt[i][tphdr[i]] /\ datap'[i] \in ipv4
      BY <1>10 DEF Build, TypeOK, Oldest
  <2>2. SlotInv(i)'
      BY <1>1, <1>10, <2>1 DEF Build, SlotInv, InBody, Split, kernelVars, Wrap, Off, Addr
  <2>3. OrderInv(i)'
      BY <1>1, <1>10, <2>1 DEF Build, OrderInv, Pending, kernelVars, Off, Addr
  <2> QED
      BY <2>2, <2>3
<1>11. CASE Push(i)
    BY <1>11, AdvanceSlots DEF Push, TypeOK
<1>12. CASE Release(i)
    BY <1>12, ReleaseSlots
<1> QED
    BY <1>3, <1>4, <1>5, <1>6, <1>7, <1>8, <1>9, <1>10, <1>11, <1>12
       DEF Next, Step, PacketReceive

-------------------------------------------------------------------------------
\* Every variable of packet_receive and of the kernel's ring keeps its type: in
\* particular every record pushed is one of a frame.
THEOREM TypeCorrect == Spec => []TypeOK
    BY TypeInit, CaptureInvInit, TypeStep, CaptureInvStep, PTL DEF Spec

\* CaptureInv holds in every reachable state.
THEOREM CaptureCorrect == Spec => []CaptureInv
    BY TypeInit, CaptureInvInit, TypeStep, CaptureInvStep, PTL DEF Spec

\* While the loop body of packet_receive reads a slot, the kernel may not refill it.
THEOREM SlotOwned == Spec => []OwnsWhatItReads
<1>1. CaptureInv => OwnsWhatItReads
    BY DEF CaptureInv, SlotInv, InBody, OwnsWhatItReads
<1> QED
    BY <1>1, TypeCorrect, CaptureCorrect, PTL

\* HandedOver of one interface, o being the slot its process works on
HandedFrom(i, o) ==
    \E n \in 0 .. FrameNr :
       /\ kIdx[i] = (o + n) % FrameNr
       /\ {a \in Addr : status[i][a] = "user"} = {(o + m) % FrameNr : m \in 0 .. n - 1}

\* The slots handed over and not given back are always those from the one the
\* process works on to the one before the kernel's next.
THEOREM RingHandedOver == Spec => []HandedOver
<1>1. ASSUME TypeOK, CaptureInv PROVE HandedOver
  <2> SUFFICES ASSUME NEW i \in Interface PROVE HandedFrom(i, Oldest(i))
    <3>1. ASSUME NEW j \in Interface
          PROVE  Oldest(j) = IF pc[j] = "release" THEN tphdr[j] ELSE Address(idx[j])
      <4>1. idx[j] \in Nat
          BY <1>1, CaptureAssumption DEF TypeOK
      <4> QED
          BY <4>1, AddressIsIndex DEF Oldest
    <3>2. (\A j \in Interface :
              HandedFrom(j, IF pc[j] = "release" THEN tphdr[j] ELSE Address(idx[j])))
            => HandedOver
        BY DEF HandedOver, HandedFrom
    <3> QED
        BY <3>1, <3>2
  <2>1. Oldest(i) \in Addr
      BY <1>1, OldestType
  <2>2. PICK n \in 0 .. FrameNr : Split(i, n)
      BY <1>1 DEF CaptureInv, SlotInv
  <2>3. \A m \in 0 .. FrameNr : (Oldest(i) + m) % FrameNr = Wrap(Oldest(i) + m)
    <3> TAKE m \in 0 .. FrameNr
    <3>1. Oldest(i) + m \in 0 .. 2 * FrameNr - 1
        BY <2>1, CaptureAssumption DEF Addr
    <3> QED
        BY <3>1, WrapIsMod
  <2>4. ASSUME NEW a \in Addr, status[i][a] = "user"
        PROVE  \E m \in 0 .. n - 1 : a = (Oldest(i) + m) % FrameNr
    <3> DEFINE m == Off(Oldest(i), a)
    <3>1. m \in 0 .. FrameNr - 1 /\ m < n
        BY <2>1, <2>2, <2>4, OffFacts DEF Split
    <3>2. a = Wrap(Oldest(i) + m)
        BY <2>1, <3>1, CaptureAssumption DEF Off, Wrap, Addr
    <3> QED
        BY <2>3, <3>1, <3>2, CaptureAssumption
  <2>5. ASSUME NEW m \in 0 .. n - 1
        PROVE  /\ (Oldest(i) + m) % FrameNr \in Addr
               /\ status[i][(Oldest(i) + m) % FrameNr] = "user"
    <3>1. m \in 0 .. FrameNr - 1 /\ m \in 0 .. FrameNr
        BY CaptureAssumption
    <3>2. Wrap(Oldest(i) + m) \in Addr /\ Off(Oldest(i), Wrap(Oldest(i) + m)) = m
        BY <2>1, <3>1, OffFacts
    <3> QED
        BY <2>2, <2>3, <3>1, <3>2 DEF Split
  <2> QED
      BY <2>2, <2>3, <2>4, <2>5 DEF Split, HandedFrom
<1> QED
    BY <1>1, TypeCorrect, CaptureCorrect, PTL

-------------------------------------------------------------------------------
(***************************************************************************)
(* The pipeline                                                            *)
(***************************************************************************)

\* A step of the pipeline is one of Capture as far as Capture can see: the
\* matching process only takes records off a ring.
LEMMA PipelineTypes ==
    ASSUME TypeOK, CaptureInv, [PipelineNext]_pipelineVars PROVE TypeOK' /\ CaptureInv'
<1>1. ASSUME NEW i \in Interface, CaptureStep(i) PROVE [Next]_vars
    BY <1>1 DEF CaptureStep, Next
<1>2. ASSUME NEW i \in Interface, MatcherStep(i) PROVE TypeOK' /\ CaptureInv'
  <2>1. UNCHANGED captureVars
      BY <1>2 DEF MatcherStep
  <2>2. ring' = ring \/ (ring[i] # <<>> /\ ring' = [ring EXCEPT ![i] = Tail(@)])
      BY <1>2 DEF MatcherStep, M!Poll, M!PollEmpty, M!Report, M!Collide, M!Store, M!Pop
  <2>3. ring' \in [Interface -> Seq(Frame)]
    <3>1. ring[i] # <<>> => Tail(ring[i]) \in Seq(Frame)
        BY HeadTailProperties DEF TypeOK
    <3> QED
        BY <2>2, <3>1 DEF TypeOK
  <2>4. TypeOK'
      BY <2>1, <2>3 DEF TypeOK, captureVars
  <2>5. CaptureInv'
      BY <2>1 DEF captureVars, CaptureInv, SlotInv, InBody, Split, OrderInv, Pending,
                  Oldest, Wrap, Off, Addr
  <2> QED
      BY <2>4, <2>5
<1>3. CASE UNCHANGED pipelineVars
    BY <1>3, TypeStep, CaptureInvStep DEF pipelineVars, captureVars, vars
<1> QED
    BY <1>1, <1>2, <1>3, TypeStep, CaptureInvStep DEF PipelineNext

LEMMA PipelineInv == PipelineSpec => [](TypeOK /\ CaptureInv)
<1>1. PipelineInit => TypeOK /\ CaptureInv
    BY TypeInit, CaptureInvInit DEF PipelineInit
<1> QED
    BY <1>1, PipelineTypes, PTL DEF PipelineSpec

\* A successful ring_push enters a frame after all before it: a capture of Matcher.
LEMMA PushCaptures ==
    ASSUME TypeOK, CaptureInv, NEW i \in Interface, Push(i), UNCHANGED matcherVars
    PROVE  datap[i] \in Frame /\ M!Capture(i, datap[i])
<1> DEFINE f == datap[i]
<1>1. /\ pushed[i] \in Seq(Frame) /\ f \in Frame /\ f = frameAt[i][tphdr[i]]
      /\ tphdr[i] \in Addr /\ Pending(i, tphdr[i])
    BY DEF Push, TypeOK, CaptureInv, SlotInv, InBody, Pending
<1>2. pushed'[i] = Append(pushed[i], f) /\ \A j \in Interface : j # i => pushed'[j] = pushed[j]
    BY DEF Push, TypeOK
<1>3. Last' = [Last EXCEPT ![i] = f]
  <2>1. Last'[i] = f
    <3>1. /\ Len(pushed'[i]) = Len(pushed[i]) + 1 /\ Len(pushed[i]) \in Nat
          /\ pushed'[i][Len(pushed[i]) + 1] = f
          /\ pushed'[i] # <<>>
        BY <1>1, <1>2, AppendProperties, LenProperties
    <3> QED
        BY <3>1 DEF Last
  <2> QED
      BY <1>2, <2>1 DEF Last
<1>4. f > Last[i]
  <2>1. CASE pushed[i] = <<>>
      BY <1>1, <2>1, CaptureAssumption DEF Last, Frame
  <2>2. CASE pushed[i] # <<>>
    <3>1. Len(pushed[i]) \in 1 .. Len(pushed[i])
        BY <1>1, <2>2, EmptySeq, LenProperties
    <3>2. pushed[i][Len(pushed[i])] \in Frame
        BY <1>1, <3>1, ElementOfSeq
    <3>3. pushed[i][Len(pushed[i])] < f
        BY <1>1, <3>1 DEF CaptureInv, OrderInv
    <3> QED
        BY <1>1, <2>2, <3>2, <3>3, CaptureAssumption DEF Last, Frame
  <2> QED
      BY <2>1, <2>2
<1> QED
    BY <1>1, <1>3, <1>4 DEF M!Capture, Push, matcherVars

\* Every step of the two captures and the matching process is a step of Matcher,
\* or nothing it can see: order, single delivery and back-pressure of the rings
\* are what it takes for granted.
THEOREM PipelineImplementsMatcher == PipelineSpec => ImplementsMatcher
<1>1. PipelineInit => M!Init
    BY DEF PipelineInit
<1>2. ASSUME TypeOK, CaptureInv, [PipelineNext]_pipelineVars PROVE [M!Next]_(M!vars)
  <2>1. ASSUME NEW i \in Interface, CaptureStep(i), Push(i) PROVE M!Next
    <3>1. datap[i] \in M!Frame /\ M!Capture(i, datap[i])
        BY <1>2, <2>1, PushCaptures DEF CaptureStep, M!Frame, Frame
    <3>2. i \in M!If
        BY PipelineAssumption DEF M!If
    <3> QED
        BY <3>1, <3>2 DEF M!Next
  <2>2. ASSUME NEW i \in Interface, CaptureStep(i), ~Push(i) PROVE UNCHANGED M!vars
      BY <2>2 DEF CaptureStep, Step, PacketReceive, Receive, Drop, Poll, Skip, Build,
                  Release, kernelVars, matcherVars, M!vars, Last
  <2>3. ASSUME NEW i \in Interface, MatcherStep(i) PROVE M!Next
      BY <2>3, PipelineAssumption DEF MatcherStep, M!Next, M!If
  <2>4. CASE UNCHANGED pipelineVars
      BY <2>4 DEF pipelineVars, captureVars, matcherVars, M!vars, Last
  <2> QED
      BY <1>2, <2>1, <2>2, <2>3, <2>4 DEF PipelineNext
<1> QED
    BY <1>1, <1>2, PipelineInv, PTL DEF PipelineSpec, ImplementsMatcher, M!Spec

-------------------------------------------------------------------------------
MP == INSTANCE MatcherProofs WITH
        came <- pushed, seen <- Last, PerInterface <- FALSE,
        Traffics <- {[lossy |-> TRUE, spaced |-> FALSE]},
        traffic <- [lossy |-> TRUE, spaced |-> FALSE]

\* Names of M and MP stand for the same formulas.
LEMMA PipelineIsMatcher == PipelineSpec => MP!Spec
<1>1. M!Init => MP!Init
    BY DEF M!Init, MP!Init, M!If, MP!If, M!Frame, MP!Frame, M!Slot, MP!Slot, M!Empty, MP!Empty
<1>2. ASSUME NEW i \in M!If, NEW f \in M!Frame, M!Capture(i, f)
      PROVE  i \in MP!If /\ f \in MP!Frame /\ MP!Capture(i, f)
    BY <1>2 DEF M!Capture, MP!Capture, M!If, MP!If, M!Frame, MP!Frame, M!Processed, MP!Processed,
                M!Popped, MP!Popped
<1>3. ASSUME NEW i \in M!If, M!Poll(i) PROVE i \in MP!If /\ MP!Poll(i)
    BY <1>3 DEF M!Poll, MP!Poll, M!PollEmpty, MP!PollEmpty, M!Report, MP!Report, M!Collide, MP!Collide,
                M!Store, MP!Store, M!Pop, MP!Pop, M!env, MP!env, M!Index, MP!Index, M!Other, MP!Other,
                M!If, MP!If
<1>4. UNCHANGED M!vars => UNCHANGED MP!vars
    BY DEF M!vars, MP!vars
<1>5. [M!Next]_(M!vars) => [MP!Next]_(MP!vars)
    BY <1>2, <1>3, <1>4 DEF M!Next, MP!Next
<1> QED
    BY <1>1, <1>5, PipelineImplementsMatcher, PTL DEF ImplementsMatcher, M!Spec, MP!Spec

LEMMA MatcherAssumptions ==
    /\ MP!MaxFrameAssumption
    /\ MP!HashAssumption
    /\ MP!SlotsAssumption
    /\ MP!TrafficAssumption
    /\ MP!PerInterfaceAssumption
    BY CaptureAssumption, PipelineAssumption
       DEF MP!MaxFrameAssumption, MP!HashAssumption, MP!SlotsAssumption, MP!TrafficAssumption,
           MP!PerInterfaceAssumption

\* Whatever the kernels drop and however the processes interleave, a line of the
\* output file compares two captures of equal content.
THEOREM PipelineMatching == PipelineSpec => []M!LinesMatch
<1>1. MP!Spec => []MP!LinesMatch
    BY MatcherAssumptions, MP!Matching
<1>2. MP!LinesMatch => M!LinesMatch
    BY DEF M!LinesMatch, MP!LinesMatch, M!If, MP!If
<1> QED
    BY <1>1, <1>2, PipelineIsMatcher, PTL

\* Nor does a capture ever appear in two lines.
THEOREM PipelineAtMostOnce == PipelineSpec => []M!ReportedOnce
<1>1. MP!Spec => []MP!ReportedOnce
    BY MatcherAssumptions, MP!AtMostOnce
<1>2. MP!ReportedOnce => M!ReportedOnce
    BY DEF M!ReportedOnce, MP!ReportedOnce, M!If, MP!If
<1> QED
    BY <1>1, <1>2, PipelineIsMatcher, PTL

-------------------------------------------------------------------------------
(***************************************************************************)
(* How the processes go down                                               *)
(***************************************************************************)

Stages == {"unborn", "fork", "arm", "open", "openRaw", "setup", "run", "dead", "crashed"}
HandlerAt == {"close", "kill1", "kill2", "killMain", "exit"}

\* Every variable the fclose of main depends on has its type.
LifecycleTypes ==
    /\ stage \in [Proc -> Stages]
    /\ pending \in [Proc -> SUBSET Signal]
    /\ stack \in [Proc -> Seq([sig : Signal, at : HandlerAt])]
    /\ file \in {"null", "open", "closed"}
    /\ closings \in Nat
    /\ plan \in Plans /\ nSent \in 0 .. Len(plan)

\* The plans ClosedOnce is about
OnlyTerm == \A k \in 1 .. Len(plan) : plan[k] = "TERM"

\* Of the signals main may get, SIGPIPE is its own and does not close the file
TermOrPipe ==
    \A p \in Proc :
        /\ pending[p] \subseteq {"TERM", "PIPE"}
        /\ \A k \in 1 .. Len(stack[p]) : stack[p][k].sig \in {"TERM", "PIPE"}

\* No handler interrupts one for the same signal
Nested ==
    \A p \in Proc : \A k, l \in 1 .. Len(stack[p]) :
        stack[p][k].sig = stack[p][l].sig => k = l

\* The one handler that closes the file has closed it
Closer ==
    /\ \A k \in 1 .. Len(stack["main"]) :
          stack["main"][k].at = "close" => stack["main"][k].sig # "PIPE"
    /\ file = "closed" => closings = 1
    /\ closings # 0 =>
          /\ closings = 1
          /\ \E k \in 1 .. Len(stack["main"]) :
                stack["main"][k].sig = "TERM" /\ stack["main"][k].at # "close"
    /\ stage["main"] = "crashed" => file = "null"

\* Closer is inductive because handlers do not nest with their like: a second handler that
\* is about to close would be a second one for SIGTERM.
CloseInv == Nested /\ (OnlyTerm => TermOrPipe /\ Closer)

LEMMA LifecycleInvInit == LifecycleInit => LifecycleTypes /\ CloseInv
<1> SUFFICES ASSUME LifecycleInit PROVE LifecycleTypes /\ CloseInv
    OBVIOUS
<1>1. plan \in Seq(Signal) /\ Len(plan) \in Nat
    BY PlansAssumption, LenProperties DEF LifecycleInit
<1>2. \A p \in Proc : stack[p] = <<>> /\ pending[p] = {}
    BY DEF LifecycleInit
<1>3. LifecycleTypes
    BY <1>1 DEF LifecycleInit, LifecycleTypes, Stages, Proc, HandlerAt
<1>4. Nested
    BY <1>2, EmptySeq DEF Nested
<1>5. TermOrPipe
    BY <1>2, EmptySeq DEF TermOrPipe
<1>6. Closer
    BY <1>2, EmptySeq DEF Closer, LifecycleInit, Proc
<1> QED
    BY <1>3, <1>4, <1>5, <1>6 DEF CloseInv
HandlerEntry == [sig : Signal, at : HandlerAt]

\* A handler that proceeds leaves all but its own place on its stack as it is.
LEMMA ProceedStack ==
    ASSUME LifecycleTypes, NEW p \in Proc, stack[p] # <<>>, NEW step \in HandlerAt, Proceed(p, step)
    PROVE  /\ stack' \in [Proc -> Seq(HandlerEntry)]
           /\ Len(stack[p]) \in 1 .. Len(stack[p])
           /\ \A q \in Proc :
                 /\ Len(stack'[q]) = Len(stack[q])
                 /\ \A k \in 1 .. Len(stack[q]) :
                       /\ stack'[q][k].sig = stack[q][k].sig
                       /\ stack'[q][k].at = IF q = p /\ k = Len(stack[p]) THEN step ELSE stack[q][k].at
<1> DEFINE n == Len(stack[p])
<1>1. /\ stack \in [Proc -> Seq(HandlerEntry)]
      /\ \A q \in Proc : stack[q] \in Seq(HandlerEntry)
    BY DEF LifecycleTypes, HandlerEntry
<1>2. n \in 1 .. n
    BY <1>1, EmptySeq, LenProperties
<1>3. stack[p][n] \in HandlerEntry
    BY <1>1, <1>2, ElementOfSeq
<1>4. [stack[p][n] EXCEPT !.at = step] \in HandlerEntry
    BY <1>3 DEF HandlerEntry
<1>5. DEFINE s == [stack[p] EXCEPT ![n].at = step]
<1>6. s \in Seq(HandlerEntry) /\ Len(s) = n
    BY <1>1, <1>2, <1>4, ExceptSeq
<1>7. \A k \in 1 .. n : s[k] = IF k = n THEN [stack[p][n] EXCEPT !.at = step] ELSE stack[p][k]
    BY <1>1, <1>2, LenProperties
<1>8. stack' = [stack EXCEPT ![p] = s]
    BY DEF Proceed
<1> HIDE DEF s
<1>9. stack' \in [Proc -> Seq(HandlerEntry)]
    BY <1>1, <1>6, <1>8
<1>10. ASSUME NEW q \in Proc
       PROVE  /\ Len(stack'[q]) = Len(stack[q])
              /\ \A k \in 1 .. Len(stack[q]) :
                    /\ stack'[q][k].sig = stack[q][k].sig
                    /\ stack'[q][k].at = IF q = p /\ k = Len(stack[p]) THEN step ELSE stack[q][k].at
  <2>1. CASE q = p
    <3>1. stack'[q] = s
        BY <1>1, <1>8, <2>1
    <3>2. ASSUME NEW k \in 1 .. n
          PROVE s[k].sig = stack[p][k].sig /\ s[k].at = IF k = n THEN step ELSE stack[p][k].at
        BY <1>3, <1>7 DEF HandlerEntry
    <3> QED
        BY <1>6, <2>1, <3>1, <3>2
  <2>2. CASE q # p
      BY <1>1, <1>8, <2>2
  <2> QED
      BY <2>1, <2>2
<1> QED
    BY <1>2, <1>9, <1>10

\* A handler that starts is the last on its stack.
LEMMA DeliverStack ==
    ASSUME LifecycleTypes, NEW p \in Proc, NEW sig \in Signal, Deliver(p, sig)
    PROVE  LET n == Len(stack[p]) IN
           /\ n \in Nat
           /\ stack' \in [Proc -> Seq(HandlerEntry)]
           /\ Len(stack'[p]) = n + 1
           /\ stack'[p][n + 1] = [sig |-> sig, at |-> IF ClosesFile(p, sig) THEN "close" ELSE "kill1"]
           /\ \A k \in 1 .. n : stack'[p][k] = stack[p][k] /\ stack[p][k].sig # sig
           /\ \A q \in Proc : q # p => stack'[q] = stack[q]
<1> DEFINE e == [sig |-> sig, at |-> IF ClosesFile(p, sig) THEN "close" ELSE "kill1"]
<1>1. /\ stack \in [Proc -> Seq(HandlerEntry)]
      /\ stack[p] \in Seq(HandlerEntry)
    BY DEF LifecycleTypes, HandlerEntry
<1>2. e \in HandlerEntry
    BY DEF HandlerEntry, HandlerAt
<1>3. stack' = [stack EXCEPT ![p] = Append(stack[p], e)]
    BY DEF Deliver
<1>4. \A k \in 1 .. Len(stack[p]) : stack[p][k].sig # sig
    BY DEF Deliver, Deliverable, Handled
<1> HIDE DEF e
<1>5. /\ Append(stack[p], e) \in Seq(HandlerEntry)
      /\ Len(Append(stack[p], e)) = Len(stack[p]) + 1
      /\ \A k \in 1 .. Len(stack[p]) : Append(stack[p], e)[k] = stack[p][k]
      /\ Append(stack[p], e)[Len(stack[p]) + 1] = e
    BY <1>1, <1>2, AppendProperties
<1>6. /\ stack'[p] = Append(stack[p], e)
      /\ \A q \in Proc : q # p => stack'[q] = stack[q]
      /\ stack' \in [Proc -> Seq(HandlerEntry)]
    BY <1>1, <1>3, <1>5
<1>7. Len(stack[p]) \in Nat
    BY <1>1, LenProperties
<1> QED
    BY <1>4, <1>5, <1>6, <1>7 DEF e
\* What a step may do to the signals and the handlers of the processes
LEMMA ProceedInv ==
    ASSUME LifecycleTypes, CloseInv, NEW p \in Proc, stack[p] # <<>>,
           NEW step \in HandlerAt \ {"close"}, Proceed(p, step), UNCHANGED plan
    PROVE  /\ stack' \in [Proc -> Seq(HandlerEntry)]
           /\ Nested'
           /\ OnlyTerm => \A q \in Proc : \A k \in 1 .. Len(stack'[q]) :
                              stack'[q][k].sig \in {"TERM", "PIPE"}
<1>1. /\ stack' \in [Proc -> Seq(HandlerEntry)]
      /\ \A q \in Proc :
            /\ Len(stack'[q]) = Len(stack[q])
            /\ \A k \in 1 .. Len(stack[q]) : stack'[q][k].sig = stack[q][k].sig
    BY ProceedStack
<1>2. Nested'
    BY <1>1 DEF CloseInv, Nested
<1> QED
    BY <1>1, <1>2 DEF CloseInv, TermOrPipe

\* The other handlers leave it open whether main has closed its file
LEMMA ProceedCloser ==
    ASSUME LifecycleTypes, Closer, NEW p \in Proc, stack[p] # <<>>,
           NEW step \in HandlerAt \ {"close"}, Proceed(p, step), UNCHANGED <<stage, file, closings>>
    PROVE  Closer'
<1>1. \A q \in Proc :
            /\ Len(stack'[q]) = Len(stack[q])
            /\ \A k \in 1 .. Len(stack[q]) :
                  /\ stack'[q][k].sig = stack[q][k].sig
                  /\ stack'[q][k].at = stack[q][k].at \/ stack'[q][k].at = step
    BY ProceedStack
<1>2. "main" \in Proc
    BY DEF Proc
<1>3. \A k \in 1 .. Len(stack'["main"]) :
          stack'["main"][k].at = "close" => stack'["main"][k].sig # "PIPE"
    BY <1>1, <1>2 DEF Closer
<1>4. (\E k \in 1 .. Len(stack["main"]) :
            stack["main"][k].sig = "TERM" /\ stack["main"][k].at # "close")
      => \E k \in 1 .. Len(stack'["main"]) :
            stack'["main"][k].sig = "TERM" /\ stack'["main"][k].at # "close"
    BY <1>1, <1>2
<1> QED
    BY <1>3, <1>4 DEF Closer

\* kill(..., SIGTERM): one more SIGTERM is pending wherever it reaches.
LEMMA KillStep ==
    ASSUME LifecycleTypes, CloseInv, NEW p \in Proc, NEW step, NEW target,
           NEW next \in HandlerAt \ {"close"}, Kill(p, step, target, next)
    PROVE  LifecycleTypes' /\ CloseInv'
<1>1. stack[p] # <<>> /\ Proceed(p, next) /\ UNCHANGED <<stage, file, closings, plan, nSent>>
    BY DEF Kill, Handles, outside
<1>2. /\ stack' \in [Proc -> Seq(HandlerEntry)]
      /\ Nested'
      /\ OnlyTerm => \A q \in Proc : \A k \in 1 .. Len(stack'[q]) :
                          stack'[q][k].sig \in {"TERM", "PIPE"}
    BY <1>1, ProceedInv
<1>3. \A q \in Proc : pending'[q] \in {pending[q], pending[q] \cup {"TERM"}}
    BY DEF Kill
<1>4. pending' \in [Proc -> SUBSET Signal]
    BY DEF Kill, LifecycleTypes, Signal
<1>5. LifecycleTypes'
    BY <1>1, <1>2, <1>4 DEF LifecycleTypes, HandlerEntry
<1>6. OnlyTerm' => TermOrPipe'
    BY <1>1, <1>2, <1>3 DEF OnlyTerm, CloseInv, TermOrPipe
<1>7. OnlyTerm' => Closer'
    BY <1>1, ProceedCloser DEF CloseInv, OnlyTerm
<1> QED
    BY <1>2, <1>5, <1>6, <1>7 DEF CloseInv

\* A handler is entered for a signal that has none on the stack.
LEMMA DeliverStep ==
    ASSUME LifecycleTypes, CloseInv, NEW p \in Proc, NEW sig \in Signal, Deliver(p, sig)
    PROVE  LifecycleTypes' /\ CloseInv'
<1> DEFINE n == Len(stack[p])
<1>1. /\ n \in Nat
      /\ stack' \in [Proc -> Seq(HandlerEntry)]
      /\ Len(stack'[p]) = n + 1
      /\ stack'[p][n + 1] = [sig |-> sig, at |-> IF ClosesFile(p, sig) THEN "close" ELSE "kill1"]
      /\ \A k \in 1 .. n : stack'[p][k] = stack[p][k] /\ stack[p][k].sig # sig
      /\ \A q \in Proc : q # p => stack'[q] = stack[q]
    BY DeliverStack
<1>2. UNCHANGED <<stage, file, closings, plan, nSent>>
    BY DEF Deliver, outside
<1>3. sig \in pending[p] /\ \A q \in Proc : pending'[q] \subseteq pending[q]
    BY DEF Deliver, Deliverable, LifecycleTypes
<1>4. pending' \in [Proc -> SUBSET Signal]
    BY DEF Deliver, LifecycleTypes
<1>5. LifecycleTypes'
    BY <1>1, <1>2, <1>4 DEF LifecycleTypes, HandlerEntry
<1>6. stack'[p][n + 1].sig = sig /\ (stack'[p][n + 1].at = "close" => sig # "PIPE")
    BY <1>1 DEF ClosesFile
<1>7. \A k \in 1 .. Len(stack'[p]) : k \in 1 .. n \/ k = n + 1
    BY <1>1
<1>8. Nested'
  <2> SUFFICES ASSUME NEW q \in Proc, NEW k \in 1 .. Len(stack'[q]), NEW l \in 1 .. Len(stack'[q]),
                      stack'[q][k].sig = stack'[q][l].sig
               PROVE  k = l
      BY DEF Nested
  <2>1. CASE q # p
      BY <1>1, <2>1 DEF CloseInv, Nested
  <2>2. CASE q = p
      BY <1>1, <1>6, <1>7, <2>2 DEF CloseInv, Nested
  <2> QED
      BY <2>1, <2>2
<1>9. OnlyTerm' => OnlyTerm
    BY <1>2 DEF OnlyTerm
<1>10. ASSUME OnlyTerm PROVE TermOrPipe'
  <2>1. sig \in {"TERM", "PIPE"}
      BY <1>3, <1>10 DEF CloseInv, TermOrPipe
  <2> SUFFICES ASSUME NEW q \in Proc
               PROVE  /\ pending'[q] \subseteq {"TERM", "PIPE"}
                      /\ \A k \in 1 .. Len(stack'[q]) : stack'[q][k].sig \in {"TERM", "PIPE"}
      BY DEF TermOrPipe
  <2>2. pending'[q] \subseteq {"TERM", "PIPE"}
      BY <1>3, <1>10 DEF CloseInv, TermOrPipe
  <2>3. CASE q # p
      BY <1>1, <1>10, <2>2, <2>3 DEF CloseInv, TermOrPipe
  <2>4. CASE q = p
      BY <1>1, <1>6, <1>7, <1>10, <2>1, <2>2, <2>4 DEF CloseInv, TermOrPipe
  <2> QED
      BY <2>3, <2>4
<1>11. ASSUME OnlyTerm PROVE Closer'
  <2>1. CASE p = "main"
    <3>1. \A k \in 1 .. Len(stack'["main"]) :
              stack'["main"][k].at = "close" => stack'["main"][k].sig # "PIPE"
        BY <1>1, <1>6, <1>7, <1>11, <2>1 DEF CloseInv, Closer
    <3>2. (\E k \in 1 .. n : stack["main"][k].sig = "TERM" /\ stack["main"][k].at # "close")
          => \E k \in 1 .. n + 1 :
                stack'["main"][k].sig = "TERM" /\ stack'["main"][k].at # "close"
        BY <1>1, <2>1
    <3> QED
        BY <1>1, <1>2, <1>11, <2>1, <3>1, <3>2 DEF CloseInv, Closer
  <2>2. CASE p # "main"
    <3>1. stack'["main"] = stack["main"]
        BY <1>1, <2>2 DEF Proc
    <3> QED
        BY <1>2, <1>11, <3>1 DEF CloseInv, Closer
  <2> QED
      BY <2>1, <2>2
<1> QED
    BY <1>5, <1>8, <1>9, <1>10, <1>11 DEF CloseInv

\* fclose: when main is about to close, no handler of it has done so
LEMMA CloseStep ==
    ASSUME LifecycleTypes, CloseInv, Close \/ CloseCrashes \/ CloseAgain
    PROVE  LifecycleTypes' /\ CloseInv'
<1> DEFINE n == Len(stack["main"])
<1>1. "main" \in Proc /\ stack["main"] # <<>> /\ stack["main"][n].at = "close"
    BY DEF Close, CloseCrashes, CloseAgain, Handles, Top, Proc
<1>2. n \in 1 .. n
    BY <1>1, EmptySeq, LenProperties DEF LifecycleTypes
<1>3. UNCHANGED <<pending, plan, nSent>>
    BY DEF Close, CloseCrashes, CloseAgain, outside
<1>4. stage' \in [Proc -> Stages] /\ file' \in {"null", "open", "closed"} /\ closings' \in Nat
  <2>1. /\ stage \in [Proc -> Stages] /\ "crashed" \in Stages
        /\ file \in {"null", "open", "closed"} /\ closings \in Nat
      BY DEF LifecycleTypes, Stages
  <2>2. stage' = stage \/ stage' = [stage EXCEPT !["main"] = "crashed"]
      BY DEF Close, CloseCrashes, CloseAgain
  <2>3. file' \in {file, "closed"} /\ closings' \in {closings, closings + 1}
      BY DEF Close, CloseCrashes, CloseAgain
  <2> QED
      BY <2>1, <2>2, <2>3
<1>5. Proceed("main", "kill1") \/ stack' = stack
    BY DEF Close, CloseCrashes, CloseAgain
<1>6. "kill1" \in HandlerAt \ {"close"}
    BY DEF HandlerAt
<1>7. /\ stack' \in [Proc -> Seq(HandlerEntry)]
      /\ Nested'
      /\ OnlyTerm => \A q \in Proc : \A k \in 1 .. Len(stack'[q]) :
                          stack'[q][k].sig \in {"TERM", "PIPE"}
  <2>1. CASE Proceed("main", "kill1")
      BY <1>1, <1>3, <1>6, <2>1, ProceedInv
  <2>2. CASE stack' = stack
      BY <2>2 DEF LifecycleTypes, HandlerEntry, CloseInv, Nested, TermOrPipe
  <2> QED
      BY <1>5, <2>1, <2>2
<1>8. LifecycleTypes'
    BY <1>3, <1>4, <1>7 DEF LifecycleTypes, HandlerEntry
<1>9. ASSUME OnlyTerm PROVE TermOrPipe'
    BY <1>3, <1>7, <1>9 DEF CloseInv, TermOrPipe
<1>10. ASSUME OnlyTerm PROVE Closer'
  <2>1. stack["main"][n].sig = "TERM"
      BY <1>1, <1>2, <1>10 DEF CloseInv, TermOrPipe, Closer
  <2>2. closings = 0 /\ file # "closed"
      BY <1>1, <1>2, <1>10, <2>1 DEF CloseInv, Nested, Closer
  <2>3. CASE Close
    <3>1. /\ Len(stack'["main"]) = n
          /\ \A k \in 1 .. n :
                /\ stack'["main"][k].sig = stack["main"][k].sig
                /\ stack'["main"][k].at = IF k = n THEN "kill1" ELSE stack["main"][k].at
        BY <1>1, <1>6, <2>3, ProceedStack DEF Close
    <3>2. file' = "closed" /\ closings' = 1
        BY <2>2, <2>3 DEF Close
    <3>3. stack'["main"][n].sig = "TERM" /\ stack'["main"][n].at # "close"
        BY <1>2, <2>1, <3>1
    <3>4. \A k \in 1 .. n : stack'["main"][k].at = "close" => stack'["main"][k].sig # "PIPE"
        BY <1>10, <3>1 DEF CloseInv, Closer
    <3>5. stage'["main"] # "crashed"
        BY <2>3 DEF Close, Handles, Alive
    <3> QED
        BY <1>2, <3>1, <3>2, <3>3, <3>4, <3>5 DEF Closer
  <2>4. CASE CloseCrashes
    <3>1. UNCHANGED <<stack, file, closings>>
        BY <2>2, <2>4 DEF CloseCrashes
    <3>2. file = "null"
        BY <2>2, <2>4 DEF CloseCrashes, LifecycleTypes
    <3> QED
        BY <1>10, <3>1, <3>2 DEF CloseInv, Closer
  <2>5. ~CloseAgain
      BY <2>2 DEF CloseAgain
  <2> QED
      BY <2>3, <2>4, <2>5
<1> QED
    BY <1>3, <1>7, <1>8, <1>9, <1>10 DEF CloseInv, OnlyTerm

\* All other steps leave the handlers and the file of a process that has one alone; the
\* signals they send are SIGPIPE and those of the plan.
LEMMA OtherStep ==
    ASSUME LifecycleTypes, CloseInv, UNCHANGED <<stack, closings, plan>>,
           stage' \in [Proc -> Stages],
           file' = file \/ file' = "open",
           stage'["main"] = "crashed" => stage["main"] = "crashed" /\ file' = file,
           nSent' \in 0 .. Len(plan),
           NEW p \in Proc, NEW sigs \in SUBSET Signal,
           pending' = [pending EXCEPT ![p] = @ \cup sigs],
           OnlyTerm => sigs \subseteq {"TERM", "PIPE"}
    PROVE  LifecycleTypes' /\ CloseInv'
<1>1. pending' \in [Proc -> SUBSET Signal]
    BY DEF LifecycleTypes
<1>2. LifecycleTypes'
    BY <1>1 DEF LifecycleTypes
<1>3. Nested'
    BY DEF CloseInv, Nested
<1>4. ASSUME OnlyTerm PROVE TermOrPipe'
  <2>1. \A q \in Proc : pending'[q] \subseteq {"TERM", "PIPE"}
      BY <1>4 DEF LifecycleTypes, CloseInv, TermOrPipe
  <2> QED
      BY <1>4, <2>1 DEF CloseInv, TermOrPipe
<1>5. ASSUME OnlyTerm PROVE Closer'
    BY <1>5 DEF CloseInv, Closer
<1> QED
    BY <1>2, <1>3, <1>4, <1>5 DEF CloseInv, OnlyTerm

\* No signal is sent.
LEMMA QuietStep ==
    ASSUME LifecycleTypes, CloseInv, UNCHANGED <<stack, closings, plan, pending>>,
           stage' \in [Proc -> Stages],
           file' = file \/ file' = "open",
           stage'["main"] = "crashed" => stage["main"] = "crashed" /\ file' = file,
           nSent' \in 0 .. Len(plan)
    PROVE  LifecycleTypes' /\ CloseInv'
<1> DEFINE none == {}
<1>1. "main" \in Proc /\ none \in SUBSET Signal /\ none \subseteq {"TERM", "PIPE"}
    BY DEF Proc
<1>2. pending' = [pending EXCEPT !["main"] = @ \cup none]
    BY <1>1 DEF LifecycleTypes
<1> HIDE DEF none
<1> QED
    BY <1>1, <1>2, OtherStep

\* The invariant is inductive: one step per action.
LEMMA LifecycleStep ==
    ASSUME LifecycleTypes, CloseInv, [LifecycleNext]_lifecycleVars PROVE LifecycleTypes' /\ CloseInv'
<1>t. /\ stage \in [Proc -> Stages] /\ pending \in [Proc -> SUBSET Signal]
      /\ nSent \in 0 .. Len(plan) /\ plan \in Plans
    BY DEF LifecycleTypes
<1>0. /\ "main" \in Proc /\ "if1" \in Proc
      /\ plan \in Seq(Signal) /\ Len(plan) \in Nat
    BY <1>t, PlansAssumption, LenProperties DEF Proc
<1>1. ASSUME NEW p \in Proc, Handler(p) PROVE LifecycleTypes' /\ CloseInv'
  <2>1. ASSUME NEW sig \in Signal, Deliver(p, sig) PROVE LifecycleTypes' /\ CloseInv'
      BY <2>1, DeliverStep
  <2>2. CASE Close \/ CloseCrashes \/ CloseAgain
      BY <2>2, CloseStep
  <2>3. {"kill2", "killMain", "exit"} \subseteq HandlerAt \ {"close"}
      BY DEF HandlerAt
  <2>4. CASE Kill(p, "kill1", t1[p], "kill2")
      BY <2>3, <2>4, KillStep
  <2>5. CASE Kill(p, "kill2", t2[p], "killMain")
      BY <2>3, <2>5, KillStep
  <2>6. CASE Kill(p, "killMain", "main", "exit")
      BY <2>3, <2>6, KillStep
  <2>7. CASE Exit(p)
    <3>1. /\ stage' \in [Proc -> Stages] /\ UNCHANGED <<stack, closings, plan, pending, file, nSent>>
        BY <1>t, <2>7 DEF Exit, outside, Stages
    <3>2. stage'["main"] \in {stage["main"], "dead"}
        BY <1>t, <1>0, <2>7 DEF Exit
    <3> QED
        BY <1>t, <3>1, <3>2, QuietStep
  <2> QED
      BY <1>1, <2>1, <2>2, <2>4, <2>5, <2>6, <2>7 DEF Handler
<1>2. CASE Main
  <2> USE DEF Main, ForkIf1, ForkIf1Fails, Arm, Open, OpenRaw, OpenFails, PrintLine
  <2>1. UNCHANGED <<stack, closings, plan, nSent>>
      BY <1>2 DEF outside
  <2>2. stage' \in [Proc -> Stages]
      BY <1>t, <1>2 DEF Stages
  <2>3. file' = file \/ file' = "open"
      BY <1>2
  <2>4. stage'["main"] # "crashed"
      BY <1>t, <1>0, <1>2
  <2>5. CASE pending' = pending
      BY <1>t, <2>1, <2>2, <2>3, <2>4, <2>5, QuietStep
  <2>6. CASE PrintLine
    <3>1. pending' = [pending EXCEPT !["main"] = @ \cup {"PIPE"}] /\ {"PIPE"} \in SUBSET Signal
        BY <2>6 DEF Signal
    <3> QED
        BY <1>t, <1>0, <2>1, <2>2, <2>3, <2>4, <3>1, OtherStep
  <2> QED
      BY <1>2, <2>5, <2>6
<1>3. ASSUME NEW p \in Proc, (p = "if1" /\ If1) \/ (p # "main" /\ Receiver(p))
      PROVE  LifecycleTypes' /\ CloseInv'
  <2> USE DEF If1, Receiver, ForkIf2, ForkIf2Fails, SetUp, SetUpFails
  <2>1. UNCHANGED <<pending, stack, closings, plan, nSent, file>>
      BY <1>3 DEF outside
  <2>2. stage' \in [Proc -> Stages]
      BY <1>t, <1>3 DEF Stages
  <2>3. stage'["main"] = stage["main"]
      BY <1>t, <1>0, <1>3
  <2> QED
      BY <1>t, <2>1, <2>2, <2>3, QuietStep
<1>4. CASE World
  <2>1. CASE ReaderComes \/ ReaderGoes
    <3>1. UNCHANGED <<stage, pending, stack, closings, plan, nSent, file>>
        BY <2>1 DEF ReaderComes, ReaderGoes
    <3> QED
        BY <1>t, <3>1, QuietStep
  <2>2. ASSUME NEW p \in Proc, Send(p) PROVE LifecycleTypes' /\ CloseInv'
    <3>1. /\ UNCHANGED <<stage, stack, closings, plan, file>>
          /\ nSent < Len(plan) /\ nSent' = nSent + 1
          /\ pending' = [pending EXCEPT ![p] = @ \cup {plan[nSent + 1]}]
        BY <2>2 DEF Send
    <3>2. nSent + 1 \in 1 .. Len(plan) /\ nSent' \in 0 .. Len(plan)
        BY <1>t, <1>0, <3>1
    <3>3. plan[nSent + 1] \in Signal
        BY <1>0, <3>2, ElementOfSeq
    <3>4. OnlyTerm => {plan[nSent + 1]} \subseteq {"TERM", "PIPE"}
        BY <3>2 DEF OnlyTerm
    <3>5. DEFINE sigs == {plan[nSent + 1]}
    <3>6. sigs \in SUBSET Signal /\ pending' = [pending EXCEPT ![p] = @ \cup sigs]
        BY <3>1, <3>3
    <3> HIDE DEF sigs
    <3> QED
        BY <1>t, <3>1, <3>2, <3>4, <3>6, OtherStep DEF sigs
  <2> QED
      BY <1>4, <2>1, <2>2 DEF World
<1>5. CASE UNCHANGED lifecycleVars
    BY <1>t, <1>5, QuietStep DEF lifecycleVars
<1> QED
    BY <1>1, <1>2, <1>3, <1>4, <1>5 DEF LifecycleNext, Own

LEMMA LifecycleInv == LifecycleSpec => [](LifecycleTypes /\ CloseInv)
<1>1. LifecycleTypes /\ CloseInv /\ [LifecycleNext]_lifecycleVars => LifecycleTypes' /\ CloseInv'
    BY LifecycleStep
<1> QED
    BY LifecycleInvInit, <1>1, PTL DEF LifecycleSpec

\* As long as only SIGTERM comes from outside, main calls fclose at most once, however
\* the handlers of the three processes interrupt each other (sighandler.c), and crashes
\* only when the signal comes before its file is open (process_timestamps.c:90).
THEOREM ClosesOnce == LifecycleSpec => []ClosedOnce
<1>1. ASSUME LifecycleTypes, CloseInv PROVE ClosedOnce
  <2>1. closings \in Nat
      BY <1>1 DEF LifecycleTypes
  <2>2. OnlyTerm => /\ closings # 0 => closings = 1
                    /\ stage["main"] = "crashed" => file = "null"
      BY <1>1 DEF CloseInv, Closer
  <2> QED
      BY <2>1, <2>2 DEF ClosedOnce, OnlyTerm
<1> QED
    BY <1>1, LifecycleInv, PTL
===============================================================================
