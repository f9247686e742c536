----------------------------- MODULE MatcherProofs -----------------------------
(***************************************************************************)
(* What Matcher guarantees for any number of frames, any contents, any     *)
(* table length and any loss, collision and interleaving.                  *)
(***************************************************************************)
EXTENDS Matcher, SequenceTheorems, TLAPS

\* getindex stays inside the table.
LEMMA IndexInSlot == ASSUME NEW h \in Hash PROVE Index(h) \in Slot
    BY HashAssumption, SlotsAssumption DEF Index, Slot

\* What the four ways to handle a popped capture have in common
LEMMA PopTypes ==
    ASSUME TypeOK, NEW i \in If, Pop(i)
    PROVE  /\ Head(ring[i]) \in Frame
           /\ content[Head(ring[i])] \in Hash
           /\ Index(content[Head(ring[i])]) \in Slot
           /\ ring' \in [If -> Seq(Frame)]
           /\ raw' \in [If -> Seq(Frame)]
<1>1. ring[i] \in Seq(Frame) /\ ring[i] # <<>>
    BY DEF Pop, TypeOK
<1>2. Head(ring[i]) \in Frame /\ Tail(ring[i]) \in Seq(Frame)
    BY <1>1, HeadTailProperties
<1>3. raw[i] \in Seq(Frame)
    BY DEF TypeOK
<1>4. Append(raw[i], Head(ring[i])) \in Seq(Frame)
    BY <1>2, <1>3, AppendProperties
<1>5. content[Head(ring[i])] \in Hash
    BY <1>2 DEF TypeOK
<1> QED
    BY <1>2, <1>4, <1>5, IndexInSlot DEF Pop, TypeOK

\* The line a report prints
LEMMA LineType ==
    ASSUME TypeOK, MatchInv, NEW i \in If, Report(i)
    PROVE  LET f == Head(ring[i])
               waiting == map[Other(i)][Index(content[f])]
           IN  [hash |-> content[f],
                time |-> [j \in If |-> IF j = i THEN f ELSE waiting.time]] \in Line
<1> USE DEF If, Other, Frame
<1> DEFINE f == Head(ring[i])
           s == Index(content[f])
<1>1. Pop(i)
    BY DEF Report
<1>2. f \in Frame /\ content[f] \in Hash /\ s \in Slot
    BY <1>1, PopTypes
<1>3. map[Other(i)][s].time \in Frame
  <2>1. Other(i) \in If /\ Waits(Other(i), s)
      BY DEF Report, Waits
  <2>2. map[Other(i)][s].time \in 1 .. seen[Other(i)]
      BY <1>2, <2>1 DEF MatchInv, WaitersFresh, Popped
  <2>3. seen[Other(i)] \in 0 .. MaxFrame
      BY <2>1 DEF TypeOK
  <2> QED
      BY <2>2, <2>3, MaxFrameAssumption
<1> QED
    BY <1>2, <1>3 DEF Line

LEMMA TypeInit == Init => TypeOK
    BY MaxFrameAssumption DEF Init, TypeOK, Empty, Entry, If

LEMMA TypeStep == TypeOK /\ MatchInv /\ [Next]_vars => TypeOK'
<1> SUFFICES ASSUME TypeOK, MatchInv, [Next]_vars PROVE TypeOK'
    OBVIOUS
<1> USE DEF If, Other, Frame
<1>1. ASSUME NEW i \in If, NEW f \in Frame, Capture(i, f) PROVE TypeOK'
  <2>1. ring[i] \in Seq(Frame)
      BY DEF TypeOK
  <2>2. Append(ring[i], f) \in Seq(Frame)
      BY <2>1, AppendProperties
  <2> QED
      BY <1>1, <2>1, <2>2 DEF Capture, TypeOK
<1>2. ASSUME NEW i \in If, PollEmpty(i) PROVE TypeOK'
    BY <1>2 DEF PollEmpty, TypeOK, env
<1>3. ASSUME NEW i \in If, Report(i) PROVE TypeOK'
  <2> DEFINE f == Head(ring[i])
             s == Index(content[f])
             line == [hash |-> content[f], time |->
                        [j \in If |-> IF j = i THEN f ELSE map[Other(i)][s].time]]
  <2>1. Pop(i)
      BY <1>3 DEF Report
  <2>2. f \in Frame /\ content[f] \in Hash /\ s \in Slot
      BY <2>1, PopTypes
  <2>3. map[Other(i)][s] \in Entry
      BY <2>2 DEF TypeOK
  <2>4. map' \in [If -> [Slot -> Entry]]
    <3>1. map' = [map EXCEPT ![Other(i)][s].hash = 0] /\ map \in [If -> [Slot -> Entry]]
        BY <1>3 DEF Report, TypeOK
    <3> QED
        BY <2>2, <2>3, <3>1 DEF Entry
  <2>5. lines' \in Seq(Line)
    <3>2. line \in Line
        BY <1>3, LineType
    <3> QED
        BY <1>3, <3>2, AppendProperties DEF Report, TypeOK
  <2> QED
    <3>1. /\ turn' \in If /\ traffic' = traffic /\ content' = content
          /\ came' = came /\ seen' = seen
        BY <1>3 DEF Report, env
    <3> QED
        BY <2>1, <2>4, <2>5, <3>1, PopTypes DEF TypeOK
<1>4. ASSUME NEW i \in If, Collide(i) PROVE TypeOK'
  <2>1. Pop(i)
      BY <1>4 DEF Collide
  <2> QED
      BY <1>4, <2>1, PopTypes DEF Collide, TypeOK, env
<1>5. ASSUME NEW i \in If, Store(i) PROVE TypeOK'
  <2> DEFINE f == Head(ring[i])
             s == Index(content[f])
  <2>1. Pop(i)
      BY <1>5 DEF Store
  <2>2. f \in Frame /\ content[f] \in Hash /\ s \in Slot
      BY <2>1, PopTypes
  <2>3. [hash |-> content[f], time |-> f] \in Entry
      BY <2>2 DEF Entry
  <2>4. map' \in [If -> [Slot -> Entry]]
      BY <1>5, <2>2, <2>3 DEF Store, TypeOK
  <2> QED
    <3>1. /\ turn' \in If /\ traffic' = traffic /\ content' = content
          /\ came' = came /\ seen' = seen /\ lines' = lines
        BY <1>5 DEF Store, env
    <3> QED
        BY <2>1, <2>4, <3>1, PopTypes DEF TypeOK
<1>6. CASE UNCHANGED vars
    BY <1>6 DEF vars, TypeOK
<1> QED
    BY <1>1, <1>2, <1>3, <1>4, <1>5, <1>6 DEF Next, Poll

-------------------------------------------------------------------------------
(***************************************************************************)
(* MatchInv.  A capture is popped once, because each ring holds later      *)
(* frames behind earlier ones; what waits or is reported has been popped.  *)
(* So a new line can repeat neither side of an old one: its newcomer was   *)
(* in the ring a moment ago, and the entry it meets leaves the table.      *)
(***************************************************************************)

\* Popped in the next state
PoppedNext(i, f) ==
    /\ f \in 1 .. seen'[i]
    /\ \A k \in 1 .. Len(ring'[i]) : f < ring'[i][k]

LEMMA FrameNat == \A f \in Frame : f \in Nat /\ 1 <= f
    BY MaxFrameAssumption DEF Frame

\* A frame enters the ring behind all others and does not touch those popped.
LEMMA CapturePopped ==
    ASSUME TypeOK, MatchInv, NEW i \in If, NEW f \in Frame, Capture(i, f)
    PROVE  /\ \A j \in If : \A g : Popped(j, g) => PoppedNext(j, g)
           /\ \A j \in If : \A k \in 1 .. Len(ring'[j]) :
                 /\ ring'[j][k] <= seen'[j]
                 /\ \A l \in 1 .. Len(ring'[j]) : k < l => ring'[j][k] < ring'[j][l]
<1>1. ring[i] \in Seq(Frame) /\ f \in Nat /\ seen[i] \in Nat /\ seen[i] < f
    BY MaxFrameAssumption, FrameNat DEF Capture, TypeOK
<1>2. /\ Len(ring'[i]) = Len(ring[i]) + 1
      /\ \A k \in 1 .. Len(ring[i]) : ring'[i][k] = ring[i][k]
      /\ ring'[i][Len(ring[i]) + 1] = f
      /\ Len(ring[i]) \in Nat
    BY <1>1, AppendProperties, LenProperties DEF Capture, TypeOK
<1>3. seen'[i] = f /\ \A j \in If : j # i => seen'[j] = seen[j] /\ ring'[j] = ring[j]
    BY DEF Capture, TypeOK
<1>4. \A k \in 1 .. Len(ring[i]) : ring[i][k] \in Nat /\ ring[i][k] <= seen[i]
    BY <1>1, ElementOfSeq, FrameNat DEF MatchInv, RingsOrdered
<1>5. ASSUME NEW j \in If, NEW g, Popped(j, g) PROVE PoppedNext(j, g)
  <2>1. CASE j = i
    <3>1. g \in 1 .. seen'[j]
        BY <1>1, <1>3, <1>5, <2>1 DEF Popped, PoppedNext
    <3>2. \A k \in 1 .. Len(ring'[j]) : g < ring'[j][k]
        BY <1>1, <1>2, <1>5, <2>1 DEF Popped, PoppedNext
    <3> QED
        BY <3>1, <3>2 DEF Popped, PoppedNext
  <2>2. CASE j # i
      BY <1>3, <1>5, <2>2 DEF Popped, PoppedNext
  <2> QED
      BY <2>1, <2>2
<1>6. ASSUME NEW j \in If, NEW k \in 1 .. Len(ring'[j])
      PROVE  /\ ring'[j][k] <= seen'[j]
             /\ \A l \in 1 .. Len(ring'[j]) : k < l => ring'[j][k] < ring'[j][l]
  <2>1. CASE j = i
    <3>1. k \in 1 .. Len(ring[i]) \/ k = Len(ring[i]) + 1
        BY <1>2, <2>1
    <3>2. CASE k \in 1 .. Len(ring[i])
      <4>1. \A l \in 1 .. Len(ring[i]) : k < l => ring[i][k] < ring[i][l]
          BY <3>2 DEF MatchInv, RingsOrdered
      <4>2. ring[i][k] <= seen[i] /\ ring[i][k] \in Nat
          BY <1>4, <3>2
      <4>3. ring'[i][k] = ring[i][k] /\ ring[i][k] < f
          BY <1>1, <1>2, <3>2, <4>2
      <4>4. ring'[i][k] <= f
          BY <1>1, <4>2, <4>3
      <4>5. ASSUME NEW l \in 1 .. Len(ring'[i]), k < l
            PROVE  ring'[i][k] < ring'[i][l]
        <5>1. CASE l \in 1 .. Len(ring[i])
            BY <1>2, <4>1, <4>3, <4>5, <5>1
        <5>2. CASE l = Len(ring[i]) + 1
            BY <1>2, <4>3, <5>2
        <5> QED
            BY <1>2, <5>1, <5>2
      <4> QED
          BY <1>3, <2>1, <4>4, <4>5
    <3>3. CASE k = Len(ring[i]) + 1
        BY <1>1, <1>2, <1>3, <2>1, <3>3
    <3> QED
        BY <3>1, <3>2, <3>3
  <2>2. CASE j # i
      BY <1>3, <2>2 DEF MatchInv, RingsOrdered
  <2> QED
      BY <2>1, <2>2
<1> QED
    BY <1>5, <1>6

\* The capture that is popped becomes Popped, and only now.
LEMMA PopPopped ==
    ASSUME TypeOK, MatchInv, NEW i \in If, Pop(i), seen' = seen
    PROVE  /\ ~Popped(i, Head(ring[i]))
           /\ PoppedNext(i, Head(ring[i]))
           /\ \A j \in If : \A g : Popped(j, g) => PoppedNext(j, g)
           /\ \A j \in If : \A k \in 1 .. Len(ring'[j]) :
                 /\ ring'[j][k] <= seen'[j]
                 /\ \A l \in 1 .. Len(ring'[j]) : k < l => ring'[j][k] < ring'[j][l]
<1>1. ring[i] \in Seq(Frame) /\ ring[i] # <<>>
    BY DEF Pop, TypeOK
<1>2. Len(ring[i]) \in Nat \ {0} /\ Head(ring[i]) = ring[i][1]
    BY <1>1, EmptySeq
<1>3. /\ Len(ring'[i]) = Len(ring[i]) - 1
      /\ \A k \in 1 .. Len(ring[i]) - 1 : ring'[i][k] = ring[i][k + 1]
    BY <1>1, HeadTailProperties DEF Pop, TypeOK
<1>4. \A j \in If : j # i => ring'[j] = ring[j]
    BY DEF Pop, TypeOK
<1>5. \A k \in 1 .. Len(ring[i]) : ring[i][k] \in Nat /\ 1 <= ring[i][k]
    BY <1>1, ElementOfSeq, FrameNat
<1>6. ~Popped(i, Head(ring[i]))
    BY <1>2, <1>5 DEF Popped, PoppedNext
<1>7. PoppedNext(i, Head(ring[i]))
  <2>1. Head(ring[i]) \in 1 .. seen[i]
      BY <1>2, <1>5, MaxFrameAssumption DEF MatchInv, RingsOrdered, TypeOK
  <2>2. \A k \in 1 .. Len(ring[i]) - 1 : Head(ring[i]) < ring[i][k + 1]
      BY <1>2 DEF MatchInv, RingsOrdered
  <2> QED
      BY <1>2, <1>3, <2>1, <2>2 DEF Popped, PoppedNext
<1>8. ASSUME NEW j \in If, NEW f, Popped(j, f) PROVE PoppedNext(j, f)
  <2>1. CASE j = i
      BY <1>2, <1>3, <1>8, <2>1 DEF Popped, PoppedNext
  <2>2. CASE j # i
      BY <1>4, <1>8, <2>2 DEF Popped, PoppedNext
  <2> QED
      BY <2>1, <2>2
<1>9. ASSUME NEW j \in If, NEW k \in 1 .. Len(ring'[j])
      PROVE  /\ ring'[j][k] <= seen'[j]
             /\ \A l \in 1 .. Len(ring'[j]) : k < l => ring'[j][k] < ring'[j][l]
  <2>1. CASE j = i
    <3>1. k \in 1 .. Len(ring[i]) - 1 /\ k + 1 \in 1 .. Len(ring[i])
        BY <1>2, <1>3, <2>1
    <3> QED
      <4>1. /\ ring[i][k + 1] <= seen[i]
            /\ \A l \in 1 .. Len(ring[i]) : k + 1 < l => ring[i][k + 1] < ring[i][l]
          BY <3>1 DEF MatchInv, RingsOrdered
      <4>2. ring'[i][k] = ring[i][k + 1]
          BY <1>3, <3>1
      <4>3. ASSUME NEW l \in 1 .. Len(ring'[i]), k < l
            PROVE  ring'[i][k] < ring'[i][l]
        <5>1. l \in 1 .. Len(ring[i]) - 1
            BY <1>3
        <5>2. l + 1 \in 1 .. Len(ring[i]) /\ k + 1 < l + 1
            BY <1>2, <3>1, <4>3, <5>1
        <5>3. ring[i][k + 1] < ring[i][l + 1] /\ ring'[i][l] = ring[i][l + 1]
            BY <1>3, <4>1, <5>1, <5>2
        <5> QED
            BY <4>2, <5>3
      <4> QED
          BY <2>1, <4>1, <4>2, <4>3
  <2>2. CASE j # i
      BY <1>4, <2>2 DEF MatchInv, RingsOrdered
  <2> QED
      BY <2>1, <2>2
<1> QED
    BY <1>6, <1>7, <1>8, <1>9

\* Every step keeps the rings ordered and the popped captures popped.
PopGrows ==
    /\ content' = content
    /\ \A j \in If : \A g : Popped(j, g) => PoppedNext(j, g)
    /\ RingsOrdered'

\* A step that leaves the tables and the lines alone keeps MatchInv.
LEMMA TablesAlone ==
    ASSUME TypeOK, MatchInv, PopGrows, map' = map, lines' = lines
    PROVE  MatchInv'
<1>1. OneSideWaits'
    BY DEF MatchInv, OneSideWaits, Waits
<1>2. RingsOrdered'
    BY DEF PopGrows
<1>3. WaitersFresh'
    BY DEF MatchInv, PopGrows, WaitersFresh, Waits, Popped, PoppedNext
<1>4. LinesPopped'
    BY DEF MatchInv, PopGrows, LinesPopped, Popped, PoppedNext
<1>5. LinesMatch' /\ ReportedOnce'
    BY DEF MatchInv, PopGrows, LinesMatch, ReportedOnce
<1> QED
    BY <1>1, <1>2, <1>3, <1>4, <1>5 DEF MatchInv

\* A popped capture that is stored is new to the tables and to the lines.
LEMMA StoreMatch ==
    ASSUME TypeOK, MatchInv, NEW i \in If, Store(i)
    PROVE  MatchInv'
<1> DEFINE f == Head(ring[i])
           s == Index(content[f])
<1>1. Pop(i) /\ seen' = seen /\ content' = content /\ lines' = lines
    BY DEF Store, env
<1>2. f \in Frame /\ content[f] \in Hash /\ s \in Slot
    BY <1>1, PopTypes
<1>3. PopGrows /\ ~Popped(i, f) /\ PoppedNext(i, f)
    BY <1>1, PopPopped DEF PopGrows, RingsOrdered
<1>4. map' = [map EXCEPT ![i][s] = [hash |-> content[f], time |-> f]]
    BY DEF Store
<1>5. /\ map'[i][s] = [hash |-> content[f], time |-> f]
      /\ \A j \in If, z \in Slot : <<j, z>> # <<i, s>> => map'[j][z] = map[j][z]
    BY <1>2, <1>4 DEF TypeOK
<1>6. OneSideWaits'
  <2>1. map[Other(i)][s].hash = 0
      BY DEF Store
  <2> QED
      BY <1>5, <2>1 DEF MatchInv, OneSideWaits, Waits, If, Other
<1>7. WaitersFresh'
  <2> SUFFICES ASSUME NEW j \in If, NEW z \in Slot, map'[j][z].hash # 0
               PROVE  /\ PoppedNext(j, map'[j][z].time)
                      /\ content[map'[j][z].time] = map'[j][z].hash
                      /\ Index(content[map'[j][z].time]) = z
                      /\ \A k \in 1 .. Len(lines) : lines[k].time[j] # map'[j][z].time
      BY <1>1 DEF WaitersFresh, Waits, Popped, PoppedNext
  <2>1. CASE j = i /\ z = s
      BY <1>3, <1>5, <2>1 DEF MatchInv, LinesPopped
  <2>2. CASE <<j, z>> # <<i, s>>
      BY <1>3, <1>5, <2>2 DEF MatchInv, WaitersFresh, Waits, PopGrows
  <2> QED
      BY <2>1, <2>2
<1>8. LinesPopped' /\ LinesMatch' /\ ReportedOnce'
  <2>1. LinesPopped'
      BY <1>1, <1>3 DEF MatchInv, PopGrows, LinesPopped, Popped, PoppedNext
  <2>2. LinesMatch' /\ ReportedOnce'
      BY <1>1 DEF MatchInv, LinesMatch, ReportedOnce
  <2> QED
      BY <2>1, <2>2
<1> QED
    BY <1>3, <1>6, <1>7, <1>8 DEF MatchInv, PopGrows

\* A new line joins a capture that no line has with one that leaves its slot.
LEMMA ReportMatch ==
    ASSUME TypeOK, MatchInv, NEW i \in If, Report(i)
    PROVE  MatchInv'
<1> DEFINE f == Head(ring[i])
           s == Index(content[f])
           o == Other(i)
           g == map[o][s].time
           line == [hash |-> content[f],
                    time |-> [j \in If |-> IF j = i THEN f ELSE g]]
           n == Len(lines) + 1
<1>1. Pop(i) /\ seen' = seen /\ content' = content
    BY DEF Report, env
<1>2. f \in Frame /\ content[f] \in Hash /\ s \in Slot
    BY <1>1, PopTypes
<1>3. PopGrows /\ ~Popped(i, f) /\ PoppedNext(i, f)
    BY <1>1, PopPopped DEF PopGrows, RingsOrdered
<1>4. o \in If /\ o # i /\ \A j \in If : j = i \/ j = o
    BY DEF If, Other
<1>5. Waits(o, s) /\ map[o][s].hash = content[f]
    BY DEF Report, Waits
<1>6. /\ Popped(o, g)
      /\ content[g] = content[f]
      /\ \A k \in 1 .. Len(lines) : lines[k].time[o] # g
    BY <1>2, <1>4, <1>5 DEF MatchInv, WaitersFresh
<1>7. map' = [map EXCEPT ![o][s].hash = 0]
    BY DEF Report
<1>8. /\ map'[o][s].hash = 0
      /\ \A j \in If, z \in Slot : <<j, z>> # <<o, s>> => map'[j][z] = map[j][z]
    BY <1>2, <1>4, <1>7 DEF TypeOK, Entry
<1>9. /\ lines' = Append(lines, line) /\ lines \in Seq(Line)
      /\ Len(lines) \in Nat
    BY DEF Report, TypeOK
<1>10. /\ Len(lines') = n
       /\ \A k \in 1 .. Len(lines) : lines'[k] = lines[k]
       /\ lines'[n] = line
    BY <1>9
<1>11. line.hash = content[f] /\ line.time[i] = f /\ line.time[o] = g
    BY <1>4
<1>12. \A k \in 1 .. n : k \in 1 .. Len(lines) \/ k = n
    BY <1>9
<1>13. OneSideWaits'
    BY <1>2, <1>4, <1>8 DEF MatchInv, OneSideWaits, Waits, If
<1>14. WaitersFresh'
  <2> SUFFICES ASSUME NEW j \in If, NEW z \in Slot, map'[j][z].hash # 0
               PROVE  /\ PoppedNext(j, map'[j][z].time)
                      /\ content[map'[j][z].time] = map'[j][z].hash
                      /\ Index(content[map'[j][z].time]) = z
                      /\ \A k \in 1 .. n : lines'[k].time[j] # map'[j][z].time
      BY <1>1, <1>10 DEF WaitersFresh, Waits, Popped, PoppedNext
  <2>1. <<j, z>> # <<o, s>> /\ map'[j][z] = map[j][z] /\ Waits(j, z)
      BY <1>8 DEF Waits
  <2>2. /\ Popped(j, map[j][z].time)
        /\ content[map[j][z].time] = map[j][z].hash
        /\ Index(content[map[j][z].time]) = z
        /\ \A k \in 1 .. Len(lines) : lines[k].time[j] # map[j][z].time
      BY <2>1 DEF MatchInv, WaitersFresh
  <2>3. line.time[j] # map[j][z].time
    <3>1. CASE j = i
        BY <1>3, <1>11, <2>2, <3>1
    <3>2. CASE j = o
        BY <1>6, <1>11, <2>1, <2>2, <3>2
    <3> QED
        BY <1>4, <3>1, <3>2
  <2> QED
      BY <1>3, <1>10, <1>12, <2>1, <2>2, <2>3 DEF PopGrows
<1>15. LinesPopped'
  <2>1. \A j \in If : PoppedNext(j, line.time[j])
      BY <1>3, <1>4, <1>6, <1>11 DEF PopGrows
  <2>2. \A k \in 1 .. Len(lines), j \in If : PoppedNext(j, lines[k].time[j])
      BY <1>3 DEF MatchInv, LinesPopped, PopGrows
  <2>3. \A k \in 1 .. n, j \in If : PoppedNext(j, lines'[k].time[j])
      BY <1>10, <1>12, <2>1, <2>2
  <2> QED
      BY <1>10, <2>3 DEF LinesPopped, Popped, PoppedNext
<1>16. LinesMatch'
  <2>1. \A j \in If : content[line.time[j]] = line.hash
      BY <1>4, <1>6, <1>11
  <2> QED
      BY <1>1, <1>10, <1>12, <2>1 DEF MatchInv, LinesMatch
<1>17. ReportedOnce'
  <2>1. \A k \in 1 .. Len(lines), j \in If : lines[k].time[j] # line.time[j]
    <3>1. \A k \in 1 .. Len(lines) : Popped(i, lines[k].time[i])
        BY DEF MatchInv, LinesPopped
    <3> QED
        BY <1>3, <1>4, <1>6, <1>11, <3>1
  <2> QED
      BY <1>10, <1>12, <2>1 DEF MatchInv, ReportedOnce
<1> QED
    BY <1>3, <1>13, <1>14, <1>15, <1>16, <1>17 DEF MatchInv, PopGrows

LEMMA MatchInit == Init => MatchInv
    BY DEF Init, MatchInv, OneSideWaits, RingsOrdered, WaitersFresh,
       LinesPopped, LinesMatch, ReportedOnce, Waits, Empty, If

LEMMA MatchStep == TypeOK /\ MatchInv /\ [Next]_vars => MatchInv'
<1> SUFFICES ASSUME TypeOK, MatchInv, [Next]_vars PROVE MatchInv'
    OBVIOUS
<1>1. ASSUME NEW i \in If, NEW f \in Frame, Capture(i, f) PROVE MatchInv'
  <2>1. PopGrows
      BY <1>1, CapturePopped DEF Capture, PopGrows, RingsOrdered
  <2> QED
      BY <1>1, <2>1, TablesAlone DEF Capture
<1>2. ASSUME NEW i \in If, PollEmpty(i) PROVE MatchInv'
  <2>1. PopGrows
      BY <1>2 DEF PollEmpty, env, PopGrows, MatchInv, RingsOrdered, Popped, PoppedNext
  <2> QED
      BY <1>2, <2>1, TablesAlone DEF PollEmpty
<1>3. ASSUME NEW i \in If, Collide(i) PROVE MatchInv'
  <2>1. Pop(i) /\ seen' = seen /\ content' = content /\ map' = map /\ lines' = lines
      BY <1>3 DEF Collide, env
  <2>2. PopGrows
      BY <2>1, PopPopped DEF PopGrows, RingsOrdered
  <2> QED
      BY <2>1, <2>2, TablesAlone
<1>4. CASE UNCHANGED vars
  <2>1. PopGrows
      BY <1>4 DEF vars, PopGrows, MatchInv, RingsOrdered, Popped, PoppedNext
  <2> QED
      BY <1>4, <2>1, TablesAlone DEF vars
<1> QED
    BY <1>1, <1>2, <1>3, <1>4, ReportMatch, StoreMatch DEF Next, Poll

\* The variables keep their types: in particular a line's times are frames
\* and never the 0 of an entry nothing was stored in.
THEOREM TypeCorrect == Spec => []TypeOK
    BY TypeInit, MatchInit, TypeStep, MatchStep, PTL DEF Spec

\* MatchInv holds in every reachable state.
THEOREM MatchCorrect == Spec => []MatchInv
    BY TypeInit, MatchInit, TypeStep, MatchStep, PTL DEF Spec

\* The two tables never both hold something in one slot.
THEOREM OneSide == Spec => []OneSideWaits
    BY MatchCorrect, PTL DEF MatchInv

\* Every line compares two captures of equal content.
THEOREM Matching == Spec => []LinesMatch
    BY MatchCorrect, PTL DEF MatchInv

\* No capture is reported in two lines.
THEOREM AtMostOnce == Spec => []ReportedOnce
    BY MatchCorrect, PTL DEF MatchInv

-------------------------------------------------------------------------------
(***************************************************************************)
(* With -r: the raw output.  What was pushed is the output and the ring    *)
(* behind it; what waits or is reported has been written.                  *)
(***************************************************************************)

All(i) == raw[i] \o ring[i]

\* Printing the head of the ring moves it to the end of the output.
LEMMA HeadMoves ==
    ASSUME NEW r \in Seq(Frame), NEW q \in Seq(Frame), q # <<>>
    PROVE  Append(r, Head(q)) \o Tail(q) = r \o q
<1> DEFINE a == Append(r, Head(q))
           t == Tail(q)
<1>1. /\ Len(r) \in Nat /\ Len(q) \in Nat /\ Len(q) # 0 /\ Head(q) = q[1]
    BY LenProperties, EmptySeq
<1>2. /\ Head(q) \in Frame /\ t \in Seq(Frame) /\ Len(t) = Len(q) - 1
      /\ \A k \in 1 .. Len(t) : t[k] = q[k + 1]
    BY HeadTailProperties
<1>3. /\ a \in Seq(Frame) /\ Len(a) = Len(r) + 1 /\ a[Len(r) + 1] = q[1]
      /\ \A k \in 1 .. Len(r) : a[k] = r[k]
    BY <1>1, <1>2, AppendProperties
<1> HIDE DEF a, t
<1>4. /\ a \o t \in Seq(Frame) /\ Len(a \o t) = Len(a) + Len(t)
      /\ \A k \in 1 .. Len(a) + Len(t) : (a \o t)[k] = IF k <= Len(a) THEN a[k] ELSE t[k - Len(a)]
    BY <1>2, <1>3, ConcatProperties
<1>5. /\ r \o q \in Seq(Frame) /\ Len(r \o q) = Len(r) + Len(q)
      /\ \A k \in 1 .. Len(r) + Len(q) : (r \o q)[k] = IF k <= Len(r) THEN r[k] ELSE q[k - Len(r)]
    BY ConcatProperties
<1>6. Len(a \o t) = Len(r \o q)
    BY <1>1, <1>2, <1>3, <1>4, <1>5
<1>7. ASSUME NEW k \in 1 .. Len(r) + Len(q) PROVE (a \o t)[k] = (r \o q)[k]
  <2>0. k \in Int
      BY <1>1
  <2>1. CASE k <= Len(r)
      BY <1>1, <1>2, <1>3, <1>4, <1>5, <2>1
  <2>2. CASE k = Len(r) + 1
      BY <1>1, <1>2, <1>3, <1>4, <1>5, <2>2
  <2>3. CASE k > Len(r) + 1
    <3>1. /\ k - Len(a) \in 1 .. Len(t) /\ k - Len(a) + 1 = k - Len(r)
          /\ k > Len(a) /\ k > Len(r) /\ k \in 1 .. Len(a) + Len(t)
        BY <1>1, <1>2, <1>3, <2>3
    <3>2. (a \o t)[k] = t[k - Len(a)] /\ (r \o q)[k] = q[k - Len(r)]
        BY <1>1, <1>3, <1>4, <1>5, <3>1
    <3>3. t[k - Len(a)] = q[k - Len(a) + 1]
        BY <1>2, <3>1
    <3> QED
        BY <3>1, <3>2, <3>3
  <2>4. k <= Len(r) \/ k = Len(r) + 1 \/ k > Len(r) + 1
      BY <1>1, <2>0
  <2> QED
      BY <2>1, <2>2, <2>3, <2>4, Zenon
<1>8. a \o t = r \o q
    BY <1>4, <1>5, <1>6, <1>7, SeqEqual
<1> QED
    BY <1>8 DEF a, t

\* A frame that enters the ring comes after all that was printed.
LEMMA AppendToBoth ==
    ASSUME NEW r \in Seq(Frame), NEW q \in Seq(Frame), NEW f \in Frame
    PROVE  r \o Append(q, f) = Append(r \o q, f)
<1>1. <<f>> \in Seq(Frame) /\ r \o q \in Seq(Frame)
    BY ConcatProperties
<1>2. Append(q, f) = q \o <<f>> /\ Append(r \o q, f) = (r \o q) \o <<f>>
    BY <1>1, AppendIsConcat
<1>3. (r \o q) \o <<f>> = r \o (q \o <<f>>)
    BY <1>1, ConcatAssociative
<1> QED
    BY <1>2, <1>3

LEMMA RawPop == ASSUME TypeOK, NEW i \in If, Pop(i), PerInterface
                PROVE  \A j \in If : raw'[j] \o ring'[j] = All(j)
<1>1. /\ raw[i] \in Seq(Frame) /\ ring[i] \in Seq(Frame) /\ ring[i] # <<>>
      /\ ring' = [ring EXCEPT ![i] = Tail(@)]
      /\ raw' = [raw EXCEPT ![i] = Append(@, Head(ring[i]))]
    BY DEF Pop, TypeOK
<1>2. raw'[i] = Append(raw[i], Head(ring[i])) /\ ring'[i] = Tail(ring[i])
    BY <1>1 DEF TypeOK
<1>3. \A j \in If : j # i => raw'[j] = raw[j] /\ ring'[j] = ring[j]
    BY <1>1 DEF TypeOK
<1>4. raw'[i] \o ring'[i] = All(i)
    BY <1>1, <1>2, HeadMoves DEF All
<1> QED
    BY <1>3, <1>4 DEF All

\* Written of the next state, for a frame of this one
WrittenNext(i, f) == \E k \in 1 .. Len(raw'[i]) : raw'[i][k] = f

\* What is written stays, and a capture that is popped is written.
LEMMA WrittenByPop ==
    ASSUME TypeOK, NEW i \in If, Pop(i), PerInterface
    PROVE  /\ \A j \in If : \A f : Written(j, f) => WrittenNext(j, f)
           /\ WrittenNext(i, Head(ring[i]))
<1> DEFINE r == raw[i]
           h == Head(ring[i])
<1>1. /\ r \in Seq(Frame) /\ h \in Frame /\ Len(r) \in Nat
      /\ raw'[i] = Append(r, h) /\ \A j \in If : j # i => raw'[j] = raw[j]
    BY PopTypes, LenProperties DEF Pop, TypeOK
<1>2. /\ Len(Append(r, h)) = Len(r) + 1 /\ Append(r, h)[Len(r) + 1] = h
      /\ \A k \in 1 .. Len(r) : Append(r, h)[k] = r[k]
    BY <1>1, AppendProperties
<1> HIDE DEF h
<1>3. WrittenNext(i, h)
  <2>1. Len(r) + 1 \in 1 .. Len(raw'[i]) /\ raw'[i][Len(r) + 1] = h
      BY <1>1, <1>2
  <2> QED
      BY <2>1, <1>1 DEF WrittenNext, h
<1>4. ASSUME NEW f, Written(i, f) PROVE WrittenNext(i, f)
  <2>1. PICK k \in 1 .. Len(r) : r[k] = f
      BY <1>4 DEF Written
  <2>2. k \in 1 .. Len(raw'[i]) /\ raw'[i][k] = f
      BY <1>1, <1>2, <2>1
  <2> QED
      BY <2>2 DEF WrittenNext
<1>5. ASSUME NEW j \in If, j # i, NEW f, Written(j, f) PROVE WrittenNext(j, f)
    BY <1>1, <1>5 DEF Written, WrittenNext
<1> QED
    BY <1>3, <1>4, <1>5 DEF h

LEMMA RawStep == ASSUME TypeOK, MatchInv, RawIsAll, [Next]_vars PROVE RawIsAll'
<1> SUFFICES ASSUME PerInterface, NEW j \in If
             PROVE  /\ raw'[j] \o ring'[j] = came'[j]
                    /\ \A k \in 1 .. Len(lines') : WrittenNext(j, lines'[k].time[j])
                    /\ \A s \in Slot : map'[j][s].hash # 0 => WrittenNext(j, map'[j][s].time)
    BY DEF RawIsAll, Written, WrittenNext, Waits
<1>o. /\ raw[j] \o ring[j] = came[j]
      /\ \A k \in 1 .. Len(lines) : Written(j, lines[k].time[j])
      /\ \A s \in Slot : Waits(j, s) => Written(j, map[j][s].time)
    BY DEF RawIsAll
<1>1. ASSUME UNCHANGED <<lines, map, raw>>, raw'[j] \o ring'[j] = came'[j]
      PROVE  /\ raw'[j] \o ring'[j] = came'[j]
             /\ \A k \in 1 .. Len(lines') : WrittenNext(j, lines'[k].time[j])
             /\ \A s \in Slot : map'[j][s].hash # 0 => WrittenNext(j, map'[j][s].time)
    BY <1>1, <1>o DEF Written, WrittenNext, Waits
<1>2. ASSUME NEW i \in If, NEW f \in Frame, Capture(i, f)
      PROVE  UNCHANGED <<lines, map, raw>> /\ raw'[j] \o ring'[j] = came'[j]
  <2>1. /\ raw' = raw /\ map' = map /\ lines' = lines
        /\ ring[i] \in Seq(Frame) /\ raw[i] \in Seq(Frame)
        /\ ring'[i] = Append(ring[i], f) /\ came'[i] = Append(came[i], f)
        /\ j # i => ring'[j] = ring[j] /\ came'[j] = came[j]
      BY <1>2 DEF Capture, TypeOK
  <2>2. raw[i] \o Append(ring[i], f) = Append(raw[i] \o ring[i], f)
      BY <2>1, AppendToBoth, Zenon
  <2> QED
      BY <1>o, <2>1, <2>2
<1>3. ASSUME NEW i \in If, Pop(i), UNCHANGED env
      PROVE  /\ raw'[j] \o ring'[j] = came'[j]
             /\ \A f : Written(j, f) => WrittenNext(j, f)
             /\ WrittenNext(i, Head(ring[i]))
    BY <1>3, <1>o, RawPop, WrittenByPop DEF All, env
<1>4. ASSUME NEW i \in If, PollEmpty(i)
      PROVE  UNCHANGED <<lines, map, raw>> /\ raw'[j] \o ring'[j] = came'[j]
    BY <1>4, <1>o DEF PollEmpty, env
<1>5. ASSUME NEW i \in If, Collide(i)
      PROVE  /\ raw'[j] \o ring'[j] = came'[j]
             /\ \A k \in 1 .. Len(lines') : WrittenNext(j, lines'[k].time[j])
             /\ \A s \in Slot : map'[j][s].hash # 0 => WrittenNext(j, map'[j][s].time)
  <2>1. Pop(i) /\ UNCHANGED env /\ lines' = lines /\ map' = map
      BY <1>5 DEF Collide
  <2> QED
      BY <1>3, <1>o, <2>1 DEF Waits
<1>6. ASSUME NEW i \in If, Store(i)
      PROVE  /\ raw'[j] \o ring'[j] = came'[j]
             /\ \A k \in 1 .. Len(lines') : WrittenNext(j, lines'[k].time[j])
             /\ \A s \in Slot : map'[j][s].hash # 0 => WrittenNext(j, map'[j][s].time)
  <2> DEFINE f == Head(ring[i])
             here == Index(content[f])
  <2>1. /\ Pop(i) /\ UNCHANGED env /\ lines' = lines
        /\ map' = [map EXCEPT ![i][here] = [hash |-> content[f], time |-> f]]
      BY <1>6 DEF Store
  <2>2. /\ raw'[j] \o ring'[j] = came'[j]
        /\ \A g : Written(j, g) => WrittenNext(j, g)
        /\ WrittenNext(i, f)
      BY <1>3, <2>1
  <2> HIDE DEF f, here
  <2>3. ASSUME NEW s \in Slot, map'[j][s].hash # 0 PROVE WrittenNext(j, map'[j][s].time)
    <3>1. CASE j = i /\ s = here
      <4>1. map'[j][s].time = f
          BY <2>1, <3>1 DEF TypeOK
      <4> QED
          BY <2>2, <3>1, <4>1
    <3>2. CASE ~(j = i /\ s = here)
      <4>1. map'[j][s] = map[j][s]
          BY <2>1, <3>2 DEF TypeOK
      <4> QED
          BY <1>o, <2>2, <2>3, <4>1 DEF Waits
    <3> QED
        BY <3>1, <3>2
  <2> QED
      BY <1>o, <2>1, <2>2, <2>3
<1>7. ASSUME NEW i \in If, Report(i)
      PROVE  /\ raw'[j] \o ring'[j] = came'[j]
             /\ \A k \in 1 .. Len(lines') : WrittenNext(j, lines'[k].time[j])
             /\ \A s \in Slot : map'[j][s].hash # 0 => WrittenNext(j, map'[j][s].time)
  <2> DEFINE f == Head(ring[i])
             here == Index(content[f])
             w == map[Other(i)][here]
             line == [hash |-> content[f],
                      time |-> [l \in If |-> IF l = i THEN f ELSE w.time]]
  <2>1. /\ Pop(i) /\ UNCHANGED env /\ w.hash # 0
        /\ lines' = Append(lines, line)
        /\ map' = [map EXCEPT ![Other(i)][here].hash = 0]
        /\ here \in Slot /\ Other(i) \in If
      BY <1>7, PopTypes DEF Report, Other, If
  <2>2. /\ raw'[j] \o ring'[j] = came'[j]
        /\ \A g : Written(j, g) => WrittenNext(j, g)
        /\ WrittenNext(i, f)
      BY <1>3, <2>1
  <2>3. WrittenNext(j, line.time[j])
    <3>1. CASE j = i
        BY <2>2, <3>1
    <3>2. CASE j # i
      <4>1. j = Other(i) /\ line.time[j] = w.time
          BY <3>2 DEF Other, If
      <4>2. Written(j, w.time)
          BY <1>o, <2>1, <4>1 DEF Waits
      <4> QED
          BY <2>2, <4>1, <4>2
    <3> QED
        BY <3>1, <3>2
  <2>4. /\ Len(lines') = Len(lines) + 1 /\ Len(lines) \in Nat /\ lines'[Len(lines) + 1] = line
        /\ \A k \in 1 .. Len(lines) : lines'[k] = lines[k]
    <3> HIDE DEF line
    <3>1. line \in Line /\ lines \in Seq(Line)
        BY <1>7, LineType DEF TypeOK, line
    <3> QED
        BY <2>1, <3>1, AppendProperties, LenProperties
  <2> HIDE DEF line, f, here, w
  <2>5. ASSUME NEW k \in 1 .. Len(lines') PROVE WrittenNext(j, lines'[k].time[j])
    <3>1. CASE k = Len(lines) + 1
        BY <2>3, <2>4, <3>1
    <3>2. CASE k # Len(lines) + 1
      <4>1. k \in 1 .. Len(lines) /\ lines'[k] = lines[k]
          BY <2>4, <3>2
      <4> QED
          BY <1>o, <2>2, <4>1
    <3> QED
        BY <3>1, <3>2
  <2>6. ASSUME NEW s \in Slot, map'[j][s].hash # 0 PROVE WrittenNext(j, map'[j][s].time)
    <3>1. Waits(j, s) /\ map'[j][s].time = map[j][s].time
        BY <2>1, <2>6 DEF TypeOK, Waits, Entry
    <3> QED
        BY <1>o, <2>2, <3>1
  <2> QED
      BY <2>2, <2>5, <2>6
<1>8. CASE UNCHANGED vars
    BY <1>1, <1>8, <1>o DEF vars, env
<1> QED
    BY <1>1, <1>2, <1>4, <1>5, <1>6, <1>7, <1>8 DEF Next, Poll

LEMMA RawInit == Init => RawIsAll
<1> SUFFICES ASSUME Init PROVE RawIsAll
    OBVIOUS
<1>1. \A i \in If : raw[i] \o ring[i] = came[i]
    BY DEF Init
<1>2. Len(lines) = 0 /\ \A i \in If : \A s \in Slot : ~Waits(i, s)
    BY DEF Init, Waits, Empty
<1>3. \A i \in If : \A k \in 1 .. Len(lines) : Written(i, lines[k].time[i])
    BY <1>2
<1> QED
    BY <1>1, <1>2, <1>3 DEF RawIsAll

\* With -r the raw output of an interface and what is left in its ring are what the capture
\* process pushed, in order, whatever is lost, given up or overwritten; and a capture is
\* written there before it waits or is reported (RawIsAll, of process_timestamps).
THEOREM RawComplete == Spec => []RawIsAll
    BY TypeInit, TypeStep, MatchInit, MatchStep, RawInit, RawStep, PTL DEF Spec

-------------------------------------------------------------------------------
(***************************************************************************)
(* The bench.  Under BenchConditions a table holds exactly the frames that *)
(* one side has popped and the other has not.  A newcomer that meets an    *)
(* entry of its content therefore meets its own other capture: an earlier  *)
(* or later frame of that content would have been processed, or not been   *)
(* captured, yet.                                                          *)
(***************************************************************************)

Bench == RingsDense /\ RepeatsApart /\ WaitersHalfPopped /\ LinesPairOneFrame

LEMMA SeenLen ==
    ASSUME TypeOK, NEW i \in If
    PROVE  seen[i] \in Nat /\ Len(ring[i]) \in Nat
    BY MaxFrameAssumption DEF TypeOK

\* With a dense ring, exactly the frames before its first are popped.
LEMMA DensePopped ==
    ASSUME TypeOK, RingsDense, NEW i \in If, NEW f \in Nat
    PROVE  Popped(i, f) <=> 1 <= f /\ f <= seen[i] - Len(ring[i])
<1>1. seen[i] \in Nat /\ Len(ring[i]) \in Nat
    BY SeenLen
<1>2. \A k \in 1 .. Len(ring[i]) : ring[i][k] = seen[i] - Len(ring[i]) + k
    BY DEF RingsDense
<1>3. CASE Len(ring[i]) = 0
    BY <1>1, <1>3 DEF Popped
<1>4. CASE Len(ring[i]) > 0
  <2>1. 1 \in 1 .. Len(ring[i])
      BY <1>1, <1>4
  <2> QED
      BY <1>1, <1>2, <2>1 DEF Popped
<1> QED
    BY <1>1, <1>3, <1>4

\* A pop makes exactly its own frame popped and keeps the ring dense.
LEMMA BenchPop ==
    ASSUME TypeOK, MatchInv, RingsDense, NEW i \in If, Pop(i), seen' = seen
    PROVE  /\ RingsDense'
           /\ \A j \in If : \A g \in Nat :
                 PoppedNext(j, g) <=> Popped(j, g) \/ (j = i /\ g = Head(ring[i]))
<1> DEFINE f == Head(ring[i])
<1>1. ring[i] \in Seq(Frame) /\ ring[i] # <<>> /\ seen[i] \in Nat
    BY MaxFrameAssumption DEF Pop, TypeOK
<1>2. Len(ring[i]) \in Nat \ {0} /\ f = ring[i][1]
    BY <1>1, EmptySeq
<1>3. /\ Len(ring'[i]) = Len(ring[i]) - 1
      /\ \A k \in 1 .. Len(ring[i]) - 1 : ring'[i][k] = ring[i][k + 1]
    BY <1>1, HeadTailProperties DEF Pop, TypeOK
<1>4. \A j \in If : j # i => ring'[j] = ring[j]
    BY DEF Pop, TypeOK
<1>5. \A k \in 1 .. Len(ring[i]) : ring[i][k] = seen[i] - Len(ring[i]) + k
    BY DEF RingsDense
<1>6. \A k \in 1 .. Len(ring'[i]) : ring'[i][k] = seen[i] - Len(ring'[i]) + k
    BY <1>1, <1>2, <1>3, <1>5
<1>7. RingsDense'
    BY <1>4, <1>6 DEF RingsDense
<1>8. f = seen[i] - Len(ring[i]) + 1 /\ f \in Nat /\ 1 <= f
  <2>1. ring[i][1] \in Frame
      BY <1>1, <1>2, ElementOfSeq
  <2> QED
      BY <1>1, <1>2, <1>5, <2>1, FrameNat
<1>9. ASSUME NEW g \in Nat PROVE PoppedNext(i, g) <=> Popped(i, g) \/ g = f
  <2>1. Popped(i, g) <=> 1 <= g /\ g <= seen[i] - Len(ring[i])
      BY DensePopped
  <2>2. PoppedNext(i, g) <=> 1 <= g /\ g <= seen[i] - Len(ring'[i])
    <3>0. Len(ring'[i]) \in Nat
        BY <1>2, <1>3
    <3>1. CASE Len(ring'[i]) = 0
        BY <1>1, <3>1 DEF PoppedNext
    <3>2. CASE Len(ring'[i]) > 0
      <4>1. 1 \in 1 .. Len(ring'[i])
          BY <3>0, <3>2
      <4>2. ring'[i][1] = seen[i] - Len(ring'[i]) + 1
          BY <1>6, <4>1
      <4> QED
          BY <1>1, <1>6, <3>0, <4>1, <4>2 DEF PoppedNext
    <3> QED
        BY <3>0, <3>1, <3>2
  <2> QED
      BY <1>1, <1>2, <1>3, <1>8, <2>1, <2>2
<1>10. \A j \in If : j # i => \A g : PoppedNext(j, g) <=> Popped(j, g)
    BY <1>4 DEF Popped, PoppedNext
<1> QED
    BY <1>7, <1>9, <1>10

\* The frame at the head of a ring has not been popped there, but was seen.
LEMMA HeadSeen ==
    ASSUME TypeOK, MatchInv, NEW i \in If, Pop(i), seen' = seen
    PROVE  /\ Head(ring[i]) \in Frame
           /\ Head(ring[i]) \in 1 .. seen[i]
           /\ ~Popped(i, Head(ring[i]))
    BY PopTypes, PopPopped DEF PoppedNext

\* Spacing survives every step that pops and captures nothing.
LEMMA RepeatsPop ==
    ASSUME TypeOK, MatchInv, RepeatsApart, PopGrows, seen' = seen
    PROVE  RepeatsApart'
<1> SUFFICES ASSUME NEW i \in If, NEW g \in 1 .. seen[i], NEW f \in 1 .. g - 1,
                    content[f] = content[g]
             PROVE  \A j \in If : PoppedNext(j, f)
    BY DEF RepeatsApart, PopGrows, Processed, Popped, PoppedNext
<1> QED
    BY DEF RepeatsApart, PopGrows, Processed

\* The only frame that becomes popped is the one taken from the ring.
LEMMA BenchStore ==
    ASSUME TypeOK, MatchInv, Bench, BenchConditions, NEW i \in If, Store(i)
    PROVE  Bench'
<1> DEFINE f == Head(ring[i])
           s == Index(content[f])
           o == Other(i)
           entry == [hash |-> content[f], time |-> f]
<1>1. Pop(i) /\ seen' = seen /\ content' = content /\ lines' = lines
    BY DEF Store, env
<1>2. f \in Frame /\ content[f] \in Hash /\ s \in Slot
    BY <1>1, PopTypes
<1>3. f \in 1 .. seen[i] /\ ~Popped(i, f)
    BY <1>1, HeadSeen
<1>4. /\ RingsDense'
      /\ \A j \in If : \A g \in Nat :
            PoppedNext(j, g) <=> Popped(j, g) \/ (j = i /\ g = f)
    BY <1>1, BenchPop DEF Bench
<1>5. PopGrows
    BY <1>1, PopPopped DEF PopGrows, RingsOrdered
<1>6. o \in If /\ o # i /\ Other(o) = i /\ \A j \in If : j = i \/ j = o
    BY DEF If, Other
<1>7. /\ map'[i][s] = entry
      /\ \A j \in If, z \in Slot : j # i \/ z # s => map'[j][z] = map[j][z]
    BY <1>2 DEF Store, TypeOK
<1>8. \A g \in Frame : g \in Nat /\ content[g] \in Hash /\ Index(content[g]) \in Slot
    BY FrameNat, IndexInSlot DEF TypeOK
<1>9. ~Popped(o, f)
  <2> SUFFICES ASSUME Popped(o, f) PROVE FALSE
      OBVIOUS
  <2>1. map[o][s].hash = 0
      BY DEF Store
  <2>2. content[f] # 0
      BY <1>2 DEF BenchConditions
  <2>3. ~Popped(Other(o), f)
      BY <1>3, <1>6
  <2>4. map[o][s] = entry
      BY <1>2, <1>6, <2>3 DEF Bench, WaitersHalfPopped
  <2> QED
      BY <2>1, <2>2, <2>4
<1>10. RepeatsApart'
    BY <1>1, <1>5, RepeatsPop DEF Bench
<1>11. ASSUME NEW j \in If, NEW g \in Frame, PoppedNext(j, g), ~PoppedNext(Other(j), g)
       PROVE  map'[j][Index(content[g])] = [hash |-> content[g], time |-> g]
  <2>1. CASE j = i /\ g = f
      BY <1>7, <2>1
  <2>2. CASE j = i /\ g # f
    <3>1. Popped(i, g) /\ ~Popped(o, g)
        BY <1>4, <1>6, <1>8, <1>11, <2>2
    <3>2. map[i][Index(content[g])] = [hash |-> content[g], time |-> g]
        BY <3>1 DEF Bench, WaitersHalfPopped
    <3>3. Index(content[g]) # s
      <4> SUFFICES ASSUME Index(content[g]) = s PROVE FALSE
          OBVIOUS
      <4>1. content[g] = content[f]
          BY <1>2, <1>8 DEF BenchConditions
      <4>2. CASE g < f
        <5>1. g \in 1 .. f - 1
            BY <1>2, <1>8, <4>2, FrameNat
        <5> QED
            BY <1>3, <1>6, <3>1, <4>1, <5>1 DEF Bench, RepeatsApart, Processed
      <4>3. CASE f < g
        <5>1. f \in 1 .. g - 1
            BY <1>3, <1>8, <4>3
        <5>2. g \in 1 .. seen[i]
            BY <3>1 DEF Popped
        <5> QED
            BY <1>3, <4>1, <5>1, <5>2 DEF Bench, RepeatsApart, Processed
      <4> QED
          BY <1>2, <1>8, <2>2, <4>2, <4>3, FrameNat
    <3>4. map'[i][Index(content[g])] = map[i][Index(content[g])]
        BY <1>7, <1>8, <3>3
    <3> QED
        BY <2>2, <3>2, <3>4
  <2>3. CASE j = o
    <3>1. Popped(o, g) /\ ~Popped(i, g)
        BY <1>4, <1>6, <1>8, <1>11, <2>3
    <3>2. map[o][Index(content[g])] = [hash |-> content[g], time |-> g]
        BY <1>6, <3>1 DEF Bench, WaitersHalfPopped
    <3>3. map'[o][Index(content[g])] = map[o][Index(content[g])]
        BY <1>6, <1>7, <1>8
    <3> QED
        BY <2>3, <3>2, <3>3
  <2> QED
      BY <1>6, <2>1, <2>2, <2>3
<1>12. ASSUME NEW j \in If, NEW z \in Slot, map'[j][z].hash # 0
       PROVE  ~PoppedNext(Other(j), map'[j][z].time)
  <2>1. CASE j = i /\ z = s
      BY <1>4, <1>6, <1>7, <1>8, <1>9, <1>2, <2>1
  <2>2. CASE j # i \/ z # s
    <3> DEFINE x == map[j][z].time
    <3>1. map'[j][z] = map[j][z] /\ Waits(j, z)
        BY <1>7, <1>12, <2>2 DEF Waits
    <3>2. ~Popped(Other(j), x) /\ Popped(j, x)
        BY <3>1 DEF Bench, WaitersHalfPopped, MatchInv, WaitersFresh
    <3>3. x \in Nat
        BY <3>2, SeenLen DEF Popped
    <3>4. ~(Other(j) = i /\ x = f)
        BY <1>6, <1>9, <3>2 DEF If, Other
    <3> QED
        BY <1>4, <1>6, <3>1, <3>2, <3>3, <3>4
  <2> QED
      BY <2>1, <2>2
<1>13. WaitersHalfPopped'
    BY <1>1, <1>11, <1>12 DEF WaitersHalfPopped, Waits, Popped, PoppedNext
<1>14. LinesPairOneFrame'
    BY <1>1 DEF Bench, LinesPairOneFrame
<1> QED
    BY <1>4, <1>10, <1>13, <1>14 DEF Bench

LEMMA BenchReport ==
    ASSUME TypeOK, MatchInv, Bench, BenchConditions, NEW i \in If, Report(i)
    PROVE  Bench'
<1> DEFINE f == Head(ring[i])
           s == Index(content[f])
           o == Other(i)
           g == map[o][s].time
           line == [hash |-> content[f],
                    time |-> [j \in If |-> IF j = i THEN f ELSE g]]
<1>1. Pop(i) /\ seen' = seen /\ content' = content
    BY DEF Report, env
<1>2. f \in Frame /\ content[f] \in Hash /\ s \in Slot
    BY <1>1, PopTypes
<1>3. f \in 1 .. seen[i] /\ ~Popped(i, f)
    BY <1>1, HeadSeen
<1>4. /\ RingsDense'
      /\ \A j \in If : \A x \in Nat :
            PoppedNext(j, x) <=> Popped(j, x) \/ (j = i /\ x = f)
    BY <1>1, BenchPop DEF Bench
<1>5. PopGrows
    BY <1>1, PopPopped DEF PopGrows, RingsOrdered
<1>6. o \in If /\ o # i /\ Other(o) = i /\ \A j \in If : j = i \/ j = o
    BY DEF If, Other
<1>7. /\ map'[o][s].hash = 0
      /\ \A j \in If, z \in Slot : j # o \/ z # s => map'[j][z] = map[j][z]
    BY <1>2, <1>6 DEF Report, TypeOK, Entry
<1>8. \A x \in Frame : x \in Nat /\ content[x] \in Hash /\ Index(content[x]) \in Slot
    BY FrameNat, IndexInSlot DEF TypeOK
<1>9. Waits(o, s) /\ map[o][s].hash = content[f]
    BY DEF Report, Waits
<1>10. Popped(o, g) /\ content[g] = content[f] /\ ~Popped(i, g)
  <2>1. Popped(o, g) /\ content[g] = content[f]
      BY <1>2, <1>6, <1>9 DEF MatchInv, WaitersFresh
  <2>2. ~Popped(Other(o), g)
      BY <1>2, <1>6, <1>9 DEF Bench, WaitersHalfPopped
  <2> QED
      BY <1>6, <2>1, <2>2
<1>11. g = f
  <2>1. g \in 1 .. seen[o] /\ seen[o] \in Nat
      BY <1>6, <1>10, SeenLen DEF Popped
  <2>2. CASE g < f
    <3>1. g \in 1 .. f - 1
        BY <1>3, <1>8, <2>1, <2>2
    <3> QED
        BY <1>3, <1>10, <3>1 DEF Bench, RepeatsApart, Processed
  <2>3. CASE f < g
    <3>1. f \in 1 .. g - 1
        BY <1>3, <2>1, <2>3
    <3> QED
        BY <1>3, <1>6, <1>10, <2>1, <3>1 DEF Bench, RepeatsApart, Processed
  <2> QED
      BY <1>2, <1>8, <2>1, <2>2, <2>3
<1>12. RepeatsApart'
    BY <1>1, <1>5, RepeatsPop DEF Bench
<1>13. ASSUME NEW j \in If, NEW x \in Frame, PoppedNext(j, x), ~PoppedNext(Other(j), x)
       PROVE  map'[j][Index(content[x])] = [hash |-> content[x], time |-> x]
  <2>1. x # f
      BY <1>4, <1>6, <1>8, <1>10, <1>11, <1>13
  <2>2. Popped(j, x) /\ ~Popped(Other(j), x)
      BY <1>4, <1>6, <1>8, <1>13, <2>1
  <2>3. map[j][Index(content[x])] = [hash |-> content[x], time |-> x]
      BY <2>2 DEF Bench, WaitersHalfPopped
  <2>4. j # o \/ Index(content[x]) # s
      BY <1>11, <2>1, <2>3
  <2> QED
      BY <1>7, <1>8, <2>3, <2>4
<1>14. ASSUME NEW j \in If, NEW z \in Slot, map'[j][z].hash # 0
       PROVE  ~PoppedNext(Other(j), map'[j][z].time)
  <2> DEFINE x == map[j][z].time
  <2>1. (j # o \/ z # s) /\ map'[j][z] = map[j][z] /\ Waits(j, z)
      BY <1>7, <1>14 DEF Waits
  <2>2. ~Popped(Other(j), x) /\ Popped(j, x) /\ Index(content[x]) = z
      BY <2>1 DEF Bench, WaitersHalfPopped, MatchInv, WaitersFresh
  <2>3. x \in Nat
      BY <2>2, SeenLen DEF Popped
  <2>4. ~(Other(j) = i /\ x = f)
      BY <1>6, <2>1, <2>2 DEF If, Other
  <2>5. Other(j) \in If
      BY DEF If, Other
  <2> QED
      BY <1>4, <2>1, <2>2, <2>3, <2>4, <2>5
<1>15. WaitersHalfPopped'
    BY <1>1, <1>13, <1>14 DEF WaitersHalfPopped, Waits, Popped, PoppedNext
<1>16. LinesPairOneFrame'
  <2>1. lines' = Append(lines, line) /\ lines \in Seq(Line) /\ Len(lines) \in Nat
      BY DEF Report, TypeOK
  <2>2. /\ Len(lines') = Len(lines) + 1
        /\ \A k \in 1 .. Len(lines) : lines'[k] = lines[k]
        /\ lines'[Len(lines) + 1] = line
      BY <2>1
  <2>3. \A k \in 1 .. Len(lines) + 1 : k \in 1 .. Len(lines) \/ k = Len(lines) + 1
      BY <2>1
  <2>4. line.time[1] = line.time[2]
      BY <1>11 DEF If
  <2> QED
      BY <2>2, <2>3, <2>4 DEF Bench, LinesPairOneFrame
<1> QED
    BY <1>4, <1>12, <1>15, <1>16 DEF Bench

\* Contents that share no slot never collide.
LEMMA BenchNoCollision ==
    ASSUME TypeOK, MatchInv, BenchConditions, NEW i \in If
    PROVE  ~Collide(i)
<1> SUFFICES ASSUME Collide(i) PROVE FALSE
    OBVIOUS
<1> DEFINE f == Head(ring[i])
           s == Index(content[f])
           g == map[Other(i)][s].time
<1>1. Pop(i) /\ map[Other(i)][s].hash # 0 /\ map[Other(i)][s].hash # content[f]
    BY DEF Collide
<1>2. f \in Frame /\ content[f] \in Hash /\ s \in Slot
    BY <1>1, PopTypes
<1>3. Other(i) \in If
    BY DEF If, Other
<1>4. Popped(Other(i), g) /\ content[g] = map[Other(i)][s].hash /\ Index(content[g]) = s
    BY <1>1, <1>2, <1>3 DEF MatchInv, WaitersFresh, Waits
<1>5. content[g] \in Hash
  <2>1. map[Other(i)][s] \in Entry
      BY <1>2, <1>3 DEF TypeOK
  <2> QED
      BY <1>1, <1>4, <2>1 DEF Entry
<1>6. g \in Frame
  <2>1. g \in 1 .. seen[Other(i)] /\ seen[Other(i)] \in 0 .. MaxFrame
      BY <1>3, <1>4 DEF Popped, TypeOK
  <2> QED
      BY <2>1, MaxFrameAssumption DEF Frame
<1> QED
    BY <1>1, <1>2, <1>4, <1>6 DEF BenchConditions

\* Capturing the next frame pops nothing.
LEMMA BenchCapture ==
    ASSUME TypeOK, MatchInv, Bench, BenchConditions,
           NEW i \in If, NEW f \in Frame, Capture(i, f)
    PROVE  Bench'
<1>1. ring[i] \in Seq(Frame) /\ f \in Nat /\ seen[i] \in Nat /\ f = seen[i] + 1
    BY MaxFrameAssumption, FrameNat DEF Capture, TypeOK, BenchConditions
<1>2. /\ Len(ring'[i]) = Len(ring[i]) + 1
      /\ \A k \in 1 .. Len(ring[i]) : ring'[i][k] = ring[i][k]
      /\ ring'[i][Len(ring[i]) + 1] = f
      /\ Len(ring[i]) \in Nat
    BY <1>1, AppendProperties, LenProperties DEF Capture, TypeOK
<1>3. seen'[i] = f /\ \A j \in If : j # i => seen'[j] = seen[j] /\ ring'[j] = ring[j]
    BY DEF Capture, TypeOK
<1>4. \A k \in 1 .. Len(ring'[i]) : k \in 1 .. Len(ring[i]) \/ k = Len(ring[i]) + 1
    BY <1>2
<1>5. RingsDense'
  <2>1. \A k \in 1 .. Len(ring[i]) : ring[i][k] = seen[i] - Len(ring[i]) + k
      BY DEF Bench, RingsDense
  <2>2. ASSUME NEW k \in 1 .. Len(ring'[i])
        PROVE  ring'[i][k] = seen'[i] - Len(ring'[i]) + k
    <3>1. CASE k \in 1 .. Len(ring[i])
      <4>1. ring'[i][k] = seen[i] - Len(ring[i]) + k
          BY <1>2, <2>1, <3>1
      <4>2. seen[i] - Len(ring[i]) + k = (seen[i] + 1) - (Len(ring[i]) + 1) + k
          BY <1>1, <1>2, <3>1
      <4> QED
          BY <1>1, <1>2, <1>3, <4>1, <4>2
    <3>2. CASE k = Len(ring[i]) + 1
        BY <1>1, <1>2, <1>3, <3>2
    <3> QED
        BY <1>4, <3>1, <3>2
  <2> QED
      BY <1>3, <2>2 DEF Bench, RingsDense
<1>6. ASSUME NEW j \in If, NEW g PROVE PoppedNext(j, g) <=> Popped(j, g)
  <2>1. CASE j = i
    <3>1. \A k \in 1 .. Len(ring[i]) : ring[i][k] \in Nat
        BY <1>1, ElementOfSeq, FrameNat
    <3>2. Len(ring[i]) + 1 \in 1 .. Len(ring'[i])
        BY <1>2
    <3>3. Popped(i, g) => PoppedNext(i, g)
        BY CapturePopped
    <3>4. ASSUME PoppedNext(i, g) PROVE Popped(i, g)
      <4>1. g \in 1 .. f /\ g < f
          BY <1>2, <1>3, <3>2, <3>4 DEF PoppedNext
      <4>2. g \in 1 .. seen[i]
          BY <1>1, <4>1
      <4>3. \A k \in 1 .. Len(ring[i]) : g < ring[i][k]
          BY <1>2, <3>4 DEF PoppedNext
      <4> QED
          BY <4>2, <4>3 DEF Popped
    <3> QED
        BY <2>1, <3>3, <3>4
  <2>2. CASE j # i
      BY <1>3, <2>2 DEF Popped, PoppedNext
  <2> QED
      BY <2>1, <2>2
<1>7. RepeatsApart'
  <2> SUFFICES ASSUME NEW j \in If, NEW g \in 1 .. seen'[j], NEW x \in 1 .. g - 1,
                      content[x] = content[g]
               PROVE  \A m \in If : Popped(m, x)
      BY <1>6 DEF RepeatsApart, Processed, Capture, Popped, PoppedNext
  <2>1. CASE g \in 1 .. seen[j]
      BY <2>1 DEF Bench, RepeatsApart, Processed
  <2>2. CASE j = i /\ g = f
    <3>1. x \in Frame /\ x < f
        BY <1>1, <2>2, MaxFrameAssumption DEF Frame
    <3> QED
        BY <2>2, <3>1 DEF Capture, BenchConditions, Processed
  <2> QED
      BY <1>1, <1>3, <2>1, <2>2
<1>8. WaitersHalfPopped'
  <2>1. \A j \in If : Other(j) \in If
      BY DEF If, Other
  <2>2. map' = map /\ content' = content
      BY DEF Capture
  <2>3. \A j \in If : \A g \in Frame : PoppedNext(j, g) /\ ~PoppedNext(Other(j), g) =>
           map[j][Index(content[g])] = [hash |-> content[g], time |-> g]
      BY <1>6, <2>1 DEF Bench, WaitersHalfPopped
  <2>4. \A j \in If : \A s \in Slot : Waits(j, s) => ~PoppedNext(Other(j), map[j][s].time)
      BY <1>6, <2>1 DEF Bench, WaitersHalfPopped
  <2> QED
      BY <2>2, <2>3, <2>4 DEF WaitersHalfPopped, Waits, Popped, PoppedNext
<1>9. LinesPairOneFrame'
    BY DEF Capture, Bench, LinesPairOneFrame
<1> QED
    BY <1>5, <1>7, <1>8, <1>9 DEF Bench

LEMMA BenchInit == Init => Bench
    BY DEF Init, Bench, RingsDense, RepeatsApart, WaitersHalfPopped,
       LinesPairOneFrame, Waits, Empty, Popped, If

\* Traffic and contents do not change, so the bench stays one.
LEMMA ConditionsStay ==
    ASSUME traffic' = traffic, content' = content
    PROVE  BenchConditions' <=> BenchConditions
    BY DEF BenchConditions

LEMMA TrafficStays == [Next]_vars => traffic' = traffic /\ content' = content
<1>1. ASSUME NEW i \in If, NEW f \in Frame, Capture(i, f)
      PROVE  traffic' = traffic /\ content' = content
    BY <1>1 DEF Capture
<1>2. ASSUME NEW i \in If, Poll(i) PROVE traffic' = traffic /\ content' = content
    BY <1>2 DEF Poll, PollEmpty, Report, Collide, Store, env
<1>3. UNCHANGED vars => traffic' = traffic /\ content' = content
    BY DEF vars
<1> QED
    BY <1>1, <1>2, <1>3 DEF Next

LEMMA BenchStep ==
    ASSUME TypeOK, MatchInv, Bench, BenchConditions, [Next]_vars
    PROVE  Bench'
<1>1. ASSUME NEW i \in If, NEW f \in Frame, Capture(i, f) PROVE Bench'
    BY <1>1, BenchCapture
<1>2. ASSUME UNCHANGED <<content, seen, ring, map, lines>> PROVE Bench'
    BY <1>2 DEF Bench, RingsDense, RepeatsApart, Processed, WaitersHalfPopped,
       LinesPairOneFrame, Waits, Popped
<1>3. ASSUME NEW i \in If, PollEmpty(i) PROVE Bench'
    BY <1>2, <1>3 DEF PollEmpty, env
<1>4. CASE UNCHANGED vars
    BY <1>2, <1>4 DEF vars
<1> QED
    BY <1>1, <1>3, <1>4, BenchStore, BenchReport, BenchNoCollision DEF Next, Poll

\* BenchInv holds, for any number of frames, repetitions and interleavings: on a
\* bench the tables hold exactly the frames popped on one side only.
THEOREM BenchInvCorrect == Spec => []BenchInv
<1>1. Init => BenchInv
    BY BenchInit DEF BenchInv, Bench
<1>2. TypeOK /\ MatchInv /\ BenchInv /\ [Next]_vars => BenchInv'
  <2> SUFFICES ASSUME TypeOK, MatchInv, BenchInv, [Next]_vars, BenchConditions'
               PROVE  Bench'
      BY DEF BenchInv, Bench
  <2>1. BenchConditions
    <3>1. traffic' = traffic /\ content' = content
        BY TrafficStays, Zenon
    <3>2. BenchConditions' <=> BenchConditions
        BY <3>1, ConditionsStay
    <3> QED
        BY <3>2
  <2>2. Bench
      BY <2>1 DEF BenchInv, Bench
  <2> QED
      BY <2>1, <2>2, BenchStep
<1> QED
    BY <1>1, <1>2, TypeCorrect, MatchCorrect, PTL DEF Spec

\* Under the conditions of a bench every line compares the two captures of one
\* frame, for any number of frames, repetitions and interleavings.
THEOREM BenchCorrect == Spec => []PairsOneFrame
<1>1. BenchInv => PairsOneFrame
    BY DEF BenchInv, PairsOneFrame
<1> QED
    BY <1>1, BenchInvCorrect, PTL
=============================================================================
