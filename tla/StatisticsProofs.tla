--------------------------- MODULE StatisticsProofs ---------------------------
(***************************************************************************)
(* Proofs about what the UI computes from the time stamps and sizes it     *)
(* reads: the histogram search (BinSearch), the token bucket (TokenBucket) *)
(* and the sliding window (FlowWindow).                                    *)
(***************************************************************************)
EXTENDS BinSearch, TokenBucket, FlowWindow, FiniteSetTheorems, SequenceTheorems,
        WellFoundedInduction, TLAPS

(***************************************************************************)
(* BinSearch: for every list of boundaries and all values                  *)
(***************************************************************************)

\* The list's length is a natural number and its elements are integers.
LEMMA Lengths ==
    ASSUME bin_boundaries \in Tables
    PROVE  /\ N \in Nat
           /\ \A k \in 1 .. N : bin_boundaries[k] \in Int
  BY TablesAssumption DEF N

\* The middle of a range that is not empty lies in it.
LEMMA MidInRange ==
    ASSUME SearchTypeOK, i_max - i_min > 0
    PROVE  /\ Mid \in Nat
           /\ i_min <= Mid
           /\ Mid < i_max
           /\ Mid + 1 \in 1 .. N
  <1>1. i_min \in Nat /\ i_max \in Nat /\ i_max <= N /\ N \in Nat
    BY Lengths DEF SearchTypeOK, Bin
  <1>2. QED
    BY <1>1 DEF Mid

\* The search stays among the bins that exist.
THEOREM SearchTypeCorrect == SearchSpec => []SearchTypeOK
  <1>1. SearchInit => SearchTypeOK
    BY Lengths DEF SearchInit, SearchTypeOK, Bin
  <1>2. SearchTypeOK /\ [SearchNext]_searchVars => SearchTypeOK'
    <2> SUFFICES ASSUME SearchTypeOK, [SearchNext]_searchVars PROVE SearchTypeOK'
      OBVIOUS
    <2>n. bin_boundaries' = bin_boundaries /\ N' = N /\ N \in Nat
      BY Lengths DEF SearchNext, Search, Push, Lower, Higher, Hit, Count, searchVars, N,
                     SearchTypeOK
    <2>b. bin_boundaries' \in Tables /\ Bin' = Bin /\ Bin = 0 .. N
      BY <2>n DEF Bin, SearchTypeOK
    <2>1. ASSUME NEW v \in Value, Push(v) PROVE SearchTypeOK'
      BY <2>1, <2>n, <2>b DEF Push, SearchTypeOK
    <2>2. CASE Lower
      BY <2>2, <2>n, <2>b, MidInRange DEF Lower, SearchTypeOK
    <2>3. CASE Higher
      BY <2>3, <2>n, <2>b, MidInRange DEF Higher, SearchTypeOK
    <2>4. CASE Hit
      BY <2>4, <2>n, <2>b, MidInRange DEF Hit, SearchTypeOK
    <2>5. CASE Count
      BY <2>5, <2>n, <2>b DEF Count, SearchTypeOK
    <2>6. CASE UNCHANGED searchVars
      BY <2>6, <2>b DEF searchVars, SearchTypeOK
    <2>7. QED
      BY <2>1, <2>2, <2>3, <2>4, <2>5, <2>6 DEF SearchNext, Search
  <1>3. QED
    BY <1>1, <1>2, PTL DEF SearchSpec

\* Ruled-out bins are ruled out for a reason.
THEOREM SearchCorrect == SearchSpec => []SearchInv
  <1>1. SearchInit => SearchInv
    BY DEF SearchInit, SearchInv, CountedInItsBin
  <1>2. SearchTypeOK /\ SearchInv /\ [SearchNext]_searchVars => SearchInv'
    <2> SUFFICES ASSUME SearchTypeOK, SearchInv, [SearchNext]_searchVars, Ascending'
                 PROVE  /\ CountedInItsBin'
                        /\ pc' = "search" =>
                              /\ i_min' <= i_max'
                              /\ i_min' > 0 => bin_boundaries'[i_min'] < val'
                              /\ i_max' < N' => val' <= bin_boundaries'[i_max' + 1]
      BY DEF SearchInv
    <2>n. /\ N \in Nat
          /\ i_min \in Nat /\ i_max \in Nat /\ i_max <= N
          /\ val \in Int
          /\ \A k \in 1 .. N : bin_boundaries[k] \in Int
      BY Lengths, ValueAssumption DEF SearchTypeOK, Bin
    <2>b. bin_boundaries' = bin_boundaries /\ N' = N
      BY DEF SearchNext, Search, Push, Lower, Higher, Hit, Count, searchVars, N
    <2>a. Ascending
      BY <2>b DEF Ascending
    <2>s. /\ CountedInItsBin
          /\ pc = "search" =>
                /\ i_min <= i_max
                /\ i_min > 0 => bin_boundaries[i_min] < val
                /\ i_max < N => val <= bin_boundaries[i_max + 1]
      BY <2>a DEF SearchInv
    <2>c. counted' = counted => CountedInItsBin'
      BY <2>b, <2>s DEF CountedInItsBin, InBin
    <2>1. ASSUME NEW v \in Value, Push(v)
          PROVE  /\ CountedInItsBin'
                 /\ pc' = "search" =>
                       /\ i_min' <= i_max'
                       /\ i_min' > 0 => bin_boundaries'[i_min'] < val'
                       /\ i_max' < N' => val' <= bin_boundaries'[i_max' + 1]
      BY <2>1, <2>n, <2>b, <2>c DEF Push
    <2>2. CASE Lower
      BY <2>2, <2>n, <2>b, <2>c, <2>s, MidInRange DEF Lower
    <2>3. CASE Higher
      BY <2>3, <2>n, <2>b, <2>c, <2>s, MidInRange DEF Higher
    <2>4. CASE Hit
      <3>1. ASSUME Mid > 0 PROVE bin_boundaries[Mid] < val
        BY <3>1, <2>4, <2>n, <2>a, MidInRange DEF Hit, Ascending
      <3>2. QED
        BY <3>1, <2>4, <2>n, <2>b, <2>c, MidInRange DEF Hit
    <2>5. CASE Count
      <3>1. InBin(val, i_min)
        BY <2>5, <2>n, <2>s DEF Count, InBin
      <3>2. CountedInItsBin'
        BY <3>1, <2>5, <2>b DEF Count, CountedInItsBin, InBin
      <3>3. QED
        BY <3>2, <2>5 DEF Count
    <2>6. CASE UNCHANGED searchVars
      BY <2>6, <2>b, <2>c, <2>s DEF searchVars
    <2>7. QED
      BY <2>1, <2>2, <2>3, <2>4, <2>5, <2>6 DEF SearchNext, Search
  <1>3. QED
    BY <1>1, <1>2, SearchTypeCorrect, PTL DEF SearchSpec

\* Every push counts its value in the bin it lies in (CountedInItsBin, of Bins.push), with
\* any ascending boundaries.
THEOREM CountsCorrectly == SearchSpec => [](Ascending => CountedInItsBin)
  <1>1. SearchInv => (Ascending => CountedInItsBin)
    BY DEF SearchInv
  <1>2. QED
    BY <1>1, SearchCorrect, PTL

(***************************************************************************)
(* TokenBucket: the size it reports lets every stretch of packets pass,    *)
(* and no smaller size would do, for all gains, costs and units and        *)
(* however many packets                                                    *)
(***************************************************************************)

\* Rounding up never takes tokens away.
LEMMA CeilUp ==
    ASSUME NEW x \in Nat
    PROVE  CeilBits(x) \in Nat /\ CeilBits(x) >= x
  <1>1. (-x) % Unit \in 0 .. Unit - 1
    BY BucketAssumption
  <1>2. QED
    BY <1>1, BucketAssumption DEF CeilBits

\* What one packet does to level and size: both stay natural numbers, neither
\* does the size shrink, and what is missing from the level grows by the packet's
\* cost after it shrank by at most the gain.
LEMMA PacketEffect ==
    ASSUME BucketTypeOK, NEW gain \in Gain, NEW cost \in Cost, Packet(gain, cost)
    PROVE  /\ filllevel' \in Nat /\ size' \in Nat
           /\ size' >= size
           /\ filllevel' <= size'
           /\ cost <= size' - filllevel'
           /\ size' - filllevel' >= size - filllevel - gain + cost
  <1> DEFINE refilled == IF filllevel + gain > size THEN size ELSE filllevel + gain
             level == refilled - cost
             diff == IF level < 0 THEN CeilBits(-level) ELSE 0
  <1>1. gain \in Nat /\ cost \in Nat
    BY BucketAssumption
  <1>2. filllevel \in Nat /\ size \in Nat /\ filllevel <= size
    BY DEF BucketTypeOK
  <1>3. /\ refilled \in Nat /\ refilled <= size
        /\ refilled <= filllevel + gain
    BY <1>1, <1>2
  <1>4. level \in Int /\ level = refilled - cost
    BY <1>1, <1>3
  <1>5. diff \in Nat /\ level + diff >= 0
    <2>1. CASE level < 0
      <3>1. -level \in Nat
        BY <2>1, <1>4
      <3>2. QED
        BY <2>1, <3>1, <1>4, CeilUp
    <2>2. CASE ~(level < 0)
      BY <2>2, <1>4
    <2>3. QED
      BY <2>1, <2>2
  <1>6. filllevel' = level + diff /\ size' = size + diff
    BY DEF Packet
  <1> HIDE DEF refilled, level, diff
  <1>7. QED
    BY <1>1, <1>2, <1>3, <1>4, <1>5, <1>6

\* Rounding up adds less than one bit.
LEMMA CeilTight ==
    ASSUME NEW x \in Nat
    PROVE  CeilBits(x) \in Nat /\ CeilBits(x) < x + Unit
  <1>1. (-x) % Unit \in 0 .. Unit - 1
    BY BucketAssumption
  <1>2. QED
    BY <1>1, BucketAssumption DEF CeilBits

\* Exactly what one packet does to the deficit, and what a growth leaves in the
\* bucket: less than a bit.
LEMMA PacketExact ==
    ASSUME BucketTypeOK, NEW gain \in Gain, NEW cost \in Cost, Packet(gain, cost)
    PROVE  /\ \/ size' - filllevel' = cost
              \/ size' - filllevel' = size - filllevel - gain + cost
           /\ filllevel = size => size' - filllevel' = cost
           /\ size' = size \/ filllevel' < Unit
  <1> DEFINE refilled == IF filllevel + gain > size THEN size ELSE filllevel + gain
             level == refilled - cost
             diff == IF level < 0 THEN CeilBits(-level) ELSE 0
  <1>1. gain \in Nat /\ cost \in Nat /\ Unit \in Nat
    BY BucketAssumption
  <1>2. filllevel \in Nat /\ size \in Nat /\ filllevel <= size
    BY DEF BucketTypeOK
  <1>3. /\ refilled \in Nat
        /\ refilled = size \/ refilled = filllevel + gain
        /\ filllevel = size => refilled = size
    BY <1>1, <1>2
  <1>4. level \in Int /\ level = refilled - cost
    BY <1>1, <1>3
  <1>5. diff \in Nat /\ (diff = 0 \/ level + diff < Unit)
    <2>1. CASE level < 0
      <3>1. -level \in Nat
        BY <2>1, <1>4
      <3>2. QED
        BY <2>1, <3>1, <1>1, <1>4, CeilTight
    <2>2. CASE ~(level < 0)
      BY <2>2, <1>4
    <2>3. QED
      BY <2>1, <2>2
  <1>6. filllevel' = level + diff /\ size' = size + diff
    BY DEF Packet
  <1> HIDE DEF refilled, level, diff
  <1>7. size' - filllevel' = size - refilled + cost
    BY <1>1, <1>2, <1>3, <1>4, <1>5, <1>6
  <1>8. \/ size' - filllevel' = cost
        \/ size' - filllevel' = size - filllevel - gain + cost
    BY <1>1, <1>2, <1>3, <1>7
  <1>9. filllevel = size => size' - filllevel' = cost
    BY <1>1, <1>2, <1>3, <1>7
  <1>10. size' = size \/ filllevel' < Unit
    BY <1>2, <1>5, <1>6
  <1>11. QED
    BY <1>8, <1>9, <1>10

\* The level is between 0 and the size, both are natural numbers.
THEOREM BucketTypeCorrect == BucketSpec => []BucketTypeOK
  <1>1. BucketInit => BucketTypeOK
    BY DEF BucketInit, BucketTypeOK, Packets
  <1>2. BucketTypeOK /\ [BucketNext]_bucketVars => BucketTypeOK'
    <2> SUFFICES ASSUME BucketTypeOK, [BucketNext]_bucketVars PROVE BucketTypeOK'
      OBVIOUS
    <2>1. ASSUME NEW gain \in Gain, NEW cost \in Cost, Packet(gain, cost)
          PROVE  BucketTypeOK'
      <3>1. gain \in Nat /\ cost \in Nat
        BY BucketAssumption
      <3>2. /\ Total(earned, Packets) \in Nat
            /\ Total(spent, Packets) \in Nat
        BY DEF BucketTypeOK, Total, Packets
      <3>3. /\ earned' \in Seq(Nat) /\ spent' \in Seq(Nat)
            /\ Len(earned') = Len(spent')
        BY <2>1, <3>1, <3>2 DEF Packet, Arrive, BucketTypeOK, Packets
      <3>4. QED
        BY <2>1, <3>3, PacketEffect DEF BucketTypeOK, Packets
    <2>2. CASE UNCHANGED bucketVars
      BY <2>2 DEF bucketVars, BucketTypeOK, Packets
    <2>3. QED
      BY <2>1, <2>2 DEF BucketNext
  <1>3. QED
    BY <1>1, <1>2, PTL DEF BucketSpec

\* The histories only grow: old bursts stay what they were, and a burst that ends
\* with the new packet is the old one, less the gain, plus the cost.
LEMMA Bursts ==
    ASSUME BucketTypeOK, NEW gain \in Gain, NEW cost \in Cost, Packet(gain, cost),
           NEW n \in Nat, n = Packets
    PROVE  /\ Packets' = n + 1
           /\ \A j \in 1 .. n : \A i \in 1 .. j :
                 /\ BurstIn(spent, earned, i, j) \in Int
                 /\ BurstIn(spent', earned', i, j) = BurstIn(spent, earned, i, j)
           /\ \A i \in 1 .. n :
                 BurstIn(spent', earned', i, n + 1) = BurstIn(spent, earned, i, n) - gain + cost
           /\ BurstIn(spent', earned', n + 1, n + 1) = cost
  <1>1. gain \in Nat /\ cost \in Nat
    BY BucketAssumption
  <1>2. /\ earned \in Seq(Nat) /\ spent \in Seq(Nat)
        /\ Len(earned) = n /\ Len(spent) = n
    BY DEF BucketTypeOK, Packets
  <1>3. /\ Total(earned, n) \in Nat
        /\ Total(spent, n) \in Nat
    BY <1>2 DEF Total
  <1>4. /\ earned' = Append(earned, Total(earned, n) + gain)
        /\ spent' = Append(spent, Total(spent, n) + cost)
    BY DEF Packet, Arrive
  <1>5. /\ Packets' = n + 1
        /\ \A k \in 1 .. n : /\ earned'[k] = earned[k] /\ earned[k] \in Nat
                             /\ spent'[k] = spent[k] /\ spent[k] \in Nat
        /\ earned'[n + 1] = Total(earned, n) + gain
        /\ spent'[n + 1] = Total(spent, n) + cost
    BY <1>1, <1>2, <1>3, <1>4 DEF Packets
  <1>6. \A k \in 0 .. n :
           /\ Total(spent', k) = Total(spent, k)
           /\ Total(spent, k) \in Nat
    BY <1>5 DEF Total
  <1>7. \A j \in 1 .. n : \A i \in 1 .. j :
           /\ BurstIn(spent, earned, i, j) \in Int
           /\ BurstIn(spent', earned', i, j) = BurstIn(spent, earned, i, j)
    <2>1. TAKE j \in 1 .. n
    <2>2. TAKE i \in 1 .. j
    <2>3. i \in 1 .. n /\ i - 1 \in 0 .. n
      OBVIOUS
    <2>4. QED
      BY <2>3, <1>5, <1>6 DEF BurstIn
  <1>8. \A i \in 1 .. n :
           BurstIn(spent', earned', i, n + 1) = BurstIn(spent, earned, i, n) - gain + cost
    <2>1. TAKE i \in 1 .. n
    <2>2. i - 1 \in 0 .. n /\ n \in 1 .. n
      OBVIOUS
    <2>3. Total(earned, n) = earned[n] /\ Total(spent, n) = spent[n]
      BY <2>2 DEF Total
    <2>4. QED
      BY <2>2, <2>3, <1>1, <1>5, <1>6 DEF BurstIn
  <1>9. BurstIn(spent', earned', n + 1, n + 1) = cost
    <2>1. Total(spent', n) = Total(spent, n)
      BY <1>6
    <2>2. QED
      BY <2>1, <1>1, <1>3, <1>5 DEF BurstIn
  <1>10. QED
    BY <1>5, <1>7, <1>8, <1>9

\* A burst that fitted the deficit fits it again after a packet.
LEMMA StillFits ==
    ASSUME NEW old \in Int, NEW new \in Int, NEW gain \in Nat, NEW cost \in Nat,
           NEW burst \in Int, burst <= old, new >= old - gain + cost
    PROVE  burst - gain + cost \in Int /\ burst - gain + cost <= new
  OBVIOUS

\* Every burst fits the size; those that may still grow fit the deficit.
THEOREM EnvelopeCorrect == BucketSpec => []EnvelopeInv
  <1>1. BucketInit => EnvelopeInv
    BY DEF BucketInit, EnvelopeInv, Sufficient, Packets
  <1>2. BucketTypeOK /\ EnvelopeInv /\ [BucketNext]_bucketVars => EnvelopeInv'
    <2> SUFFICES ASSUME BucketTypeOK, EnvelopeInv, [BucketNext]_bucketVars PROVE EnvelopeInv'
      OBVIOUS
    <2>1. ASSUME NEW gain \in Gain, NEW cost \in Cost, Packet(gain, cost)
          PROVE  EnvelopeInv'
      <3>1. PICK n \in Nat : n = Packets
        BY DEF BucketTypeOK, Packets
      <3>2. gain \in Nat /\ cost \in Nat /\ filllevel \in Nat /\ size \in Nat
        BY BucketAssumption DEF BucketTypeOK
      <3>3. /\ filllevel' \in Nat /\ size' \in Nat
            /\ size' >= size /\ filllevel' <= size'
        BY <2>1, PacketEffect
      <3>3a. cost <= size' - filllevel'
        BY <2>1, PacketEffect
      <3>3b. size' - filllevel' >= size - filllevel - gain + cost
        BY <2>1, PacketEffect
      <3>3c. size - filllevel \in Int /\ size' - filllevel' \in Int
        BY <3>2, <3>3
      <3>4. /\ Packets' = n + 1
            /\ BurstIn(spent', earned', n + 1, n + 1) = cost
            /\ \A i \in 1 .. n :
                  BurstIn(spent', earned', i, n + 1) = BurstIn(spent, earned, i, n) - gain + cost
            /\ \A j \in 1 .. n : \A i \in 1 .. j :
                  /\ BurstIn(spent, earned, i, j) \in Int
                  /\ BurstIn(spent', earned', i, j) = BurstIn(spent, earned, i, j)
        BY <2>1, <3>1, Bursts
      <3>5. /\ \A i \in 1 .. n : BurstIn(spent, earned, i, n) <= size - filllevel
            /\ \A j \in 1 .. n : \A i \in 1 .. j : BurstIn(spent, earned, i, j) <= size
        BY <3>1 DEF EnvelopeInv, Sufficient, Burst
      <3>6. \A i \in 1 .. n + 1 : /\ BurstIn(spent', earned', i, n + 1) \in Int
                                  /\ BurstIn(spent', earned', i, n + 1) <= size' - filllevel'
        <4>1. TAKE i \in 1 .. n + 1
        <4>2. CASE i = n + 1
          <5>1. BurstIn(spent', earned', i, n + 1) = cost
            BY <4>2, <3>4
          <5>2. cost \in Int /\ cost <= size' - filllevel'
            BY <3>2, <3>3a
          <5>3. QED
            BY <5>1, <5>2
        <4>3. CASE i # n + 1
          <5>1. i \in 1 .. n /\ n \in 1 .. n
            BY <3>1, <4>3
          <5>2. BurstIn(spent, earned, i, n) \in Int
            BY <5>1, <3>4
          <5>3. BurstIn(spent, earned, i, n) <= size - filllevel
            BY <5>1, <3>5
          <5>4. BurstIn(spent', earned', i, n + 1) = BurstIn(spent, earned, i, n) - gain + cost
            BY <5>1, <3>4
          <5>5. QED
            BY <5>2, <5>3, <5>4, <3>2, <3>3b, <3>3c, StillFits
        <4>4. QED
          BY <4>2, <4>3
      <3>7. \A j \in 1 .. n + 1 : \A i \in 1 .. j : BurstIn(spent', earned', i, j) <= size'
        <4>1. TAKE j \in 1 .. n + 1
        <4>2. TAKE i \in 1 .. j
        <4>3. CASE j = n + 1
          BY <4>3, <3>3, <3>6
        <4>4. CASE j # n + 1
          <5>1. j \in 1 .. n
            BY <4>4
          <5>2. BurstIn(spent, earned, i, j) \in Int
            BY <5>1, <3>4
          <5>3. QED
            BY <5>1, <5>2, <3>2, <3>3, <3>4, <3>5
        <4>5. QED
          BY <4>3, <4>4
      <3>8. QED
        BY <3>4, <3>6, <3>7 DEF EnvelopeInv, Sufficient, Burst
    <2>2. CASE UNCHANGED bucketVars
      BY <2>2 DEF bucketVars, EnvelopeInv, Sufficient, Burst, BurstIn, Total, Packets
    <2>3. QED
      BY <2>1, <2>2 DEF BucketNext
  <1>3. QED
    BY <1>1, <1>2, BucketTypeCorrect, PTL DEF BucketSpec

\* The reported size is a burst size the flow conforms to.
THEOREM SizeSuffices == BucketSpec => []Sufficient
  <1>1. EnvelopeInv => Sufficient
    BY DEF EnvelopeInv
  <1>2. QED
    BY <1>1, EnvelopeCorrect, PTL

\* The deficit is a burst, and one that reached into the last bit of the size.
THEOREM MinimalCorrect == BucketSpec => []MinimalInv
  <1>1. BucketInit => MinimalInv
    BY DEF BucketInit, MinimalInv, Minimal, Packets
  <1>2. BucketTypeOK /\ MinimalInv /\ [BucketNext]_bucketVars => MinimalInv'
    <2> SUFFICES ASSUME BucketTypeOK, MinimalInv, [BucketNext]_bucketVars PROVE MinimalInv'
      OBVIOUS
    <2>1. ASSUME NEW gain \in Gain, NEW cost \in Cost, Packet(gain, cost)
          PROVE  MinimalInv'
      <3>1. PICK n \in Nat : n = Packets
        BY DEF BucketTypeOK, Packets
      <3>2. /\ gain \in Nat /\ cost \in Nat /\ Unit \in Nat
            /\ filllevel \in Nat /\ size \in Nat
        BY BucketAssumption DEF BucketTypeOK
      <3>3. filllevel' \in Nat /\ size' \in Nat /\ size' >= size
        BY <2>1, PacketEffect
      <3>4. /\ \/ size' - filllevel' = cost
               \/ size' - filllevel' = size - filllevel - gain + cost
            /\ filllevel = size => size' - filllevel' = cost
            /\ size' = size \/ filllevel' < Unit
        BY <2>1, PacketExact
      <3>5. /\ Packets' = n + 1
            /\ BurstIn(spent', earned', n + 1, n + 1) = cost
            /\ \A i \in 1 .. n :
                  BurstIn(spent', earned', i, n + 1) = BurstIn(spent, earned, i, n) - gain + cost
            /\ \A j \in 1 .. n : \A i \in 1 .. j :
                  BurstIn(spent', earned', i, j) = BurstIn(spent, earned, i, j)
        BY <2>1, <3>1, Bursts
      <3>6. \E i \in 1 .. n + 1 : BurstIn(spent', earned', i, n + 1) = size' - filllevel'
        <4>1. CASE size' - filllevel' = cost
          <5>1. n + 1 \in 1 .. n + 1
            BY <3>1
          <5>2. QED
            BY <4>1, <5>1, <3>5
        <4>2. CASE size' - filllevel' # cost
          <5>1. n # 0 /\ size' - filllevel' = size - filllevel - gain + cost
            BY <4>2, <3>1, <3>4 DEF MinimalInv
          <5>2. PICK i \in 1 .. n : BurstIn(spent, earned, i, n) = size - filllevel
            BY <5>1, <3>1 DEF MinimalInv, Burst
          <5>3. i \in 1 .. n + 1
            BY <3>1
          <5>4. BurstIn(spent', earned', i, n + 1) = size' - filllevel'
            BY <5>1, <5>2, <3>5
          <5>5. QED
            BY <5>3, <5>4
        <4>3. QED
          BY <4>1, <4>2
      <3>7. size' > 0 =>
               \E j \in 1 .. n + 1 : \E i \in 1 .. j : BurstIn(spent', earned', i, j) > size' - Unit
        <4>1. CASE size' = size /\ size > 0
          <5>1. PICK j \in 1 .. n : \E i \in 1 .. j : BurstIn(spent, earned, i, j) > size - Unit
            BY <4>1, <3>1 DEF MinimalInv, Minimal, Burst
          <5>2. j \in 1 .. n + 1
            BY <3>1
          <5>3. QED
            BY <4>1, <5>1, <5>2, <3>5
        <4>2. CASE filllevel' < Unit
          <5>1. size' - filllevel' > size' - Unit
            <6>1. ASSUME NEW s \in Nat, NEW f \in Nat, f < Unit
                  PROVE  s - f > s - Unit
              BY <6>1, <3>2
            <6>2. QED
              BY <4>2, <6>1, <3>3
          <5>2. n + 1 \in 1 .. n + 1
            BY <3>1
          <5>3. QED
            BY <5>1, <5>2, <3>6
        <4>3. QED
          BY <4>1, <4>2, <3>4
      <3>8. n + 1 # 0
        BY <3>1
      <3>9. QED
        BY <3>5, <3>6, <3>7, <3>8 DEF MinimalInv, Minimal, Burst
    <2>2. CASE UNCHANGED bucketVars
      BY <2>2 DEF bucketVars, MinimalInv, Minimal, Burst, BurstIn, Total, Packets
    <2>3. QED
      BY <2>1, <2>2 DEF BucketNext
  <1>3. QED
    BY <1>1, <1>2, BucketTypeCorrect, PTL DEF BucketSpec

\* No smaller number of bits would do.
THEOREM SizeIsMinimal == BucketSpec => []Minimal
  <1>1. MinimalInv => Minimal
    BY DEF MinimalInv
  <1>2. QED
    BY <1>1, MinimalCorrect, PTL

(***************************************************************************)
(* FlowWindow: for all flows, frames, batches, windows and restarts        *)
(***************************************************************************)

(***************************************************************************)
(* Least and greatest elements, and sums                                   *)
(***************************************************************************)

LEMMA LeastNat ==
    ASSUME NEW T \in SUBSET Nat, T # {}
    PROVE  \E x \in T : \A y \in T : x <= y
<1> DEFINE Less == OpToRel(<, Nat)
<1>1. IsWellFoundedOn(Less, Nat)
    BY NatLessThanWellFounded, Zenon
<1>2. \A x, y \in Nat : <<y, x>> \in Less <=> y < x
    BY DEF OpToRel
<1> HIDE DEF Less
<1>3. PICK x \in T : \A y \in T : <<y, x>> \notin Less
    BY <1>1, WFMin
<1>4. \A y \in T : ~(y < x)
    BY <1>2, <1>3
<1> QED
    BY <1>4

\* Induction with a set in the place of a predicate
LEMMA InductionByASet ==
    ASSUME NEW T \in SUBSET Nat, 0 \in T, \A n \in T : n + 1 \in T
    PROVE  T = Nat
<1> SUFFICES ASSUME Nat \ T # {} PROVE FALSE
    OBVIOUS
<1>1. PICK x \in Nat \ T : \A y \in Nat \ T : x <= y
    BY LeastNat
<1>2. x - 1 \in Nat /\ x - 1 < x
    BY <1>1
<1>3. x - 1 \in T
    BY <1>1, <1>2
<1> QED
    BY <1>1, <1>2, <1>3

LEMMA MaxFacts ==
    ASSUME NEW S \in SUBSET Int, S # {}, NEW b \in Int, \A x \in S : x <= b
    PROVE  Max(S) \in S /\ \A x \in S : x <= Max(S)
<1> DEFINE T == {b - x : x \in S}
<1>1. T \in SUBSET Nat /\ T # {}
  <2>1. \A x \in S : b - x \in Nat
      OBVIOUS
  <2> QED
      BY <2>1
<1> HIDE DEF T
<1>2. PICK m \in T : \A y \in T : m <= y
    BY <1>1, LeastNat
<1>3. \E x \in S : \A y \in S : x >= y
    BY <1>2 DEF T
<1> QED
    BY <1>3 DEF Max

LEMMA SumSetIs ==
    ASSUME NEW S
    PROVE  SumSet(S) = LET iter[s \in SUBSET S] == IF s = {} THEN 0
                                    ELSE LET x == CHOOSE x \in s : TRUE IN x + iter[s \ {x}]
                       IN  iter[S]
BY DEF SumSet, FoldSet, MapThenFoldSet

(***************************************************************************)
(* The sum of a set of frames, frame by frame                              *)
(***************************************************************************)

Share(A, k) == IF k \in A THEN k ELSE 0

\* g[k] is the sum of the elements of A up to k.
Adds(g, A) ==
    /\ g \in [0 .. MaxFrame -> Int]
    /\ g[0] = 0
    /\ \A k \in Frame : g[k] = g[k - 1] + Share(A, k)

LEMMA AddsExists == ASSUME NEW A PROVE \E g : Adds(g, A)
<1> DEFINE Upto(g, n) == /\ g \in [0 .. n -> Int]
                         /\ g[0] = 0
                         /\ \A k \in 1 .. n : g[k] = g[k - 1] + Share(A, k)
           T == {n \in Nat : \E g : Upto(g, n)}
<1>1. 0 \in T
  <2>1. Upto([k \in 0 .. 0 |-> 0], 0)
      OBVIOUS
  <2> QED
      BY <2>1
<1>2. ASSUME NEW n \in T PROVE n + 1 \in T
  <2>1. n \in Nat
      OBVIOUS
  <2>2. PICK g : Upto(g, n)
      OBVIOUS
  <2>3. Share(A, n + 1) \in Int
      BY <2>1 DEF Share
  <2> DEFINE h == [k \in 0 .. n + 1 |-> IF k <= n THEN g[k] ELSE g[n] + Share(A, n + 1)]
  <2>4. h \in [0 .. n + 1 -> Int]
    <3>1. \A k \in 0 .. n + 1 : k <= n => k \in 0 .. n
        BY <2>1
    <3>2. g[n] + Share(A, n + 1) \in Int
        BY <2>1, <2>2, <2>3
    <3> QED
        BY <2>2, <3>1, <3>2
  <2>5. h[0] = 0
      BY <2>1, <2>2
  <2>6. ASSUME NEW k \in 1 .. n + 1 PROVE h[k] = h[k - 1] + Share(A, k)
    <3>1. k - 1 \in 0 .. n + 1 /\ k - 1 <= n /\ k \in 0 .. n + 1
        BY <2>1
    <3>2. h[k - 1] = g[k - 1]
        BY <3>1
    <3>3. CASE k <= n
      <4>1. h[k] = g[k] /\ k \in 1 .. n
          BY <2>1, <3>1, <3>3
      <4> QED
          BY <2>2, <3>2, <4>1
    <3>4. CASE k = n + 1
      <4>1. h[k] = g[n] + Share(A, n + 1)
          BY <2>1, <3>1, <3>4
      <4> QED
          BY <2>1, <3>2, <3>4, <4>1
    <3> QED
        BY <2>1, <3>3, <3>4
  <2> HIDE DEF h
  <2>7. Upto(h, n + 1)
      BY <2>4, <2>5, <2>6
  <2> HIDE DEF Upto
  <2> QED
      BY <2>1, <2>7
<1>3. T = Nat
  <2> HIDE DEF T
  <2>1. T \in SUBSET Nat
      BY DEF T
  <2> QED
      BY <1>1, <1>2, <2>1, InductionByASet
<1>4. PICK g : Upto(g, MaxFrame)
    BY <1>3, FlowAssumption
<1> QED
    BY <1>4 DEF Adds, Frame

LEMMA AddsUnique ==
    ASSUME NEW A, NEW g, NEW h, Adds(g, A), Adds(h, A)
    PROVE  g[MaxFrame] = h[MaxFrame]
<1> DEFINE T == {n \in Nat : n \in 0 .. MaxFrame => g[n] = h[n]}
<1>1. 0 \in T
    BY DEF Adds
<1>2. ASSUME NEW n \in T PROVE n + 1 \in T
  <2> SUFFICES ASSUME n + 1 \in 0 .. MaxFrame PROVE g[n + 1] = h[n + 1]
      OBVIOUS
  <2>1. n \in 0 .. MaxFrame /\ n + 1 \in Frame /\ n + 1 - 1 = n
      BY FlowAssumption DEF Frame
  <2>2. g[n] = h[n]
      BY <2>1
  <2> QED
      BY <2>1, <2>2 DEF Adds
<1>3. T = Nat
  <2> HIDE DEF T
  <2>1. T \in SUBSET Nat
      BY DEF T
  <2> QED
      BY <1>1, <1>2, <2>1, InductionByASet
<1> QED
    BY <1>3, FlowAssumption

LEMMA AddsEmpty == ASSUME NEW g, Adds(g, {}) PROVE g[MaxFrame] = 0
<1> DEFINE h == [k \in 0 .. MaxFrame |-> 0]
<1>1. Adds(h, {})
    BY FlowAssumption DEF Adds, Share, Frame
<1>2. h[MaxFrame] = 0
    BY FlowAssumption
<1> HIDE DEF h
<1> QED
    BY <1>1, <1>2, AddsUnique

\* Sums of disjoint sets add up.
LEMMA AddsUnion ==
    ASSUME NEW A, NEW B, A \cap B = {}, NEW g, NEW h, NEW u,
           Adds(g, A), Adds(h, B), Adds(u, A \cup B)
    PROVE  u[MaxFrame] = g[MaxFrame] + h[MaxFrame]
<1> DEFINE v == [k \in 0 .. MaxFrame |-> g[k] + h[k]]
<1>m. MaxFrame \in Nat
    BY FlowAssumption
<1>1. v \in [0 .. MaxFrame -> Int] /\ v[0] = 0
    BY <1>m DEF Adds
<1>2. ASSUME NEW k \in Frame PROVE v[k] = v[k - 1] + Share(A \cup B, k)
  <2>1. k \in 0 .. MaxFrame /\ k - 1 \in 0 .. MaxFrame
      BY <1>m DEF Frame
  <2>2. Share(A \cup B, k) = Share(A, k) + Share(B, k)
      BY <2>1 DEF Share
  <2>3. /\ g[k] = g[k - 1] + Share(A, k) /\ h[k] = h[k - 1] + Share(B, k)
        /\ g[k - 1] \in Int /\ h[k - 1] \in Int
      BY <2>1 DEF Adds
  <2>4. Share(A, k) \in Int /\ Share(B, k) \in Int
      BY <2>1 DEF Share
  <2>5. v[k] = g[k] + h[k] /\ v[k - 1] = g[k - 1] + h[k - 1]
      BY <2>1
  <2> QED
      BY <2>2, <2>3, <2>4, <2>5
<1>3. v[MaxFrame] = g[MaxFrame] + h[MaxFrame]
    BY <1>m
<1> HIDE DEF v
<1>4. Adds(v, A \cup B)
    BY <1>1, <1>2 DEF Adds
<1> QED
    BY <1>3, <1>4, AddsUnique

LEMMA AddsOne == ASSUME NEW x \in Frame, NEW g, Adds(g, {x}) PROVE g[MaxFrame] = x
<1> DEFINE h == [k \in 0 .. MaxFrame |-> IF k < x THEN 0 ELSE x]
<1>m. MaxFrame \in Nat /\ x \in 1 .. MaxFrame
    BY FlowAssumption DEF Frame
<1>1. h \in [0 .. MaxFrame -> Int] /\ h[0] = 0 /\ h[MaxFrame] = x
    BY <1>m
<1>2. ASSUME NEW k \in Frame PROVE h[k] = h[k - 1] + Share({x}, k)
  <2>1. k \in 0 .. MaxFrame /\ k - 1 \in 0 .. MaxFrame
      BY <1>m DEF Frame
  <2> QED
      BY <1>m, <2>1 DEF Share
<1> HIDE DEF h
<1>3. Adds(h, {x})
    BY <1>1, <1>2 DEF Adds
<1> QED
    BY <1>1, <1>3, AddsUnique

(***************************************************************************)
(* SumSet                                                                  *)
(***************************************************************************)

Sum(s) == (CHOOSE g : Adds(g, s))[MaxFrame]

LEMMA SumFacts ==
    /\ Sum({}) = 0
    /\ \A s \in SUBSET Frame : Sum(s) \in Int
    /\ \A s \in SUBSET Frame : \A x \in s : Sum(s) = x + Sum(s \ {x})
    /\ \A s, t \in SUBSET Frame : s \cap t = {} => Sum(s \cup t) = Sum(s) + Sum(t)
<1>1. \A s : \E g : Adds(g, s) /\ Sum(s) = g[MaxFrame]
    BY AddsExists DEF Sum
<1>2. Sum({}) = 0
    BY <1>1, AddsEmpty
<1>3. ASSUME NEW s PROVE Sum(s) \in Int
  <2>1. PICK g : Adds(g, s) /\ Sum(s) = g[MaxFrame]
      BY <1>1
  <2> QED
      BY <2>1, FlowAssumption DEF Adds
<1>4. ASSUME NEW s, NEW t, s \cap t = {} PROVE Sum(s \cup t) = Sum(s) + Sum(t)
  <2>1. PICK g : Adds(g, s) /\ Sum(s) = g[MaxFrame]
      BY <1>1
  <2>2. PICK h : Adds(h, t) /\ Sum(t) = h[MaxFrame]
      BY <1>1
  <2>3. PICK u : Adds(u, s \cup t) /\ Sum(s \cup t) = u[MaxFrame]
      BY <1>1
  <2> QED
      BY <1>4, <2>1, <2>2, <2>3, AddsUnion
<1>5. ASSUME NEW x \in Frame PROVE Sum({x}) = x
    BY <1>1, AddsOne
<1>6. ASSUME NEW s \in SUBSET Frame, NEW x \in s PROVE Sum(s) = x + Sum(s \ {x})
  <2> DEFINE o == {x}
             rest == s \ {x}
  <2>1. s = o \cup rest /\ o \cap rest = {} /\ Sum(o) = x
      BY <1>5
  <2> HIDE DEF o, rest
  <2>2. Sum(s) = Sum(o) + Sum(rest)
      BY <1>4, <2>1
  <2> QED
      BY <2>1, <2>2 DEF rest
<1> QED
    BY <1>2, <1>3, <1>4, <1>6

LEMMA FramesFinite == ASSUME NEW s \in SUBSET Frame
                      PROVE  IsFiniteSet(s) /\ Cardinality(s) \in Nat
<1>1. IsFiniteSet(Frame)
    BY FlowAssumption, FS_Interval DEF Frame
<1>2. IsFiniteSet(s)
    BY <1>1, FS_Subset
<1> QED
    BY <1>2, FS_CardinalityType

\* However the library's fold picks the elements, it comes to the same sum.
LEMMA SumSetIsSum == ASSUME NEW S \in SUBSET Frame PROVE SumSet(S) = Sum(S)
<1> DEFINE pick(s) == CHOOSE x \in s : TRUE
           Iter(f) == f = [s \in SUBSET S |-> IF s = {} THEN 0 ELSE pick(s) + f[s \ {pick(s)}]]
           iter == CHOOSE f : Iter(f)
           F == [s \in SUBSET S |-> Sum(s)]
<1>1. SumSet(S) = iter[S]
    BY SumSetIs
<1>2. Iter(F)
  <2>1. ASSUME NEW s \in SUBSET S
        PROVE  Sum(s) = IF s = {} THEN 0 ELSE pick(s) + F[s \ {pick(s)}]
    <3>1. CASE s = {}
        BY <3>1, SumFacts
    <3>2. CASE s # {}
      <4>1. pick(s) \in s
          BY <3>2
      <4> HIDE DEF pick
      <4>2. s \in SUBSET Frame /\ s \ {pick(s)} \in SUBSET S
          OBVIOUS
      <4>3. Sum(s) = pick(s) + Sum(s \ {pick(s)})
          BY <4>1, <4>2, SumFacts
      <4> QED
          BY <3>2, <4>2, <4>3
    <3> QED
        BY <3>1, <3>2
  <2> QED
      BY <2>1
<1>3. Iter(iter)
  <2> HIDE DEF Iter, F
  <2> QED
      BY <1>2
<1>4. \A s \in SUBSET S : iter[s] = IF s = {} THEN 0 ELSE pick(s) + iter[s \ {pick(s)}]
  <2> HIDE DEF iter, pick
  <2> QED
      BY <1>3
<1> HIDE DEF iter, F
<1>5. ASSUME NEW s \in SUBSET S, s # {}, iter[s] # Sum(s)
      PROVE  \E t \in SUBSET S : iter[t] # Sum(t) /\ Cardinality(t) < Cardinality(s)
  <2> DEFINE x == pick(s)
             t == s \ {x}
  <2>1. x \in s
      BY <1>5
  <2>2. iter[s] = x + iter[t]
      BY <1>4, <1>5
  <2> HIDE DEF x
  <2>3. t \in SUBSET S /\ t \in SUBSET Frame /\ s \in SUBSET Frame
      OBVIOUS
  <2>4. Sum(s) = x + Sum(t)
      BY <2>1, <2>3, SumFacts
  <2>5. Cardinality(t) < Cardinality(s)
    <3>1. IsFiniteSet(s) /\ Cardinality(s) \in Nat
        BY <2>3, FramesFinite
    <3>2. Cardinality(t) = Cardinality(s) - 1
        BY <2>1, <3>1, FS_RemoveElement
    <3> QED
        BY <3>1, <3>2
  <2>6. iter[t] # Sum(t)
      BY <1>5, <2>2, <2>4
  <2> QED
      BY <2>3, <2>5, <2>6
<1>6. ASSUME iter[S] # Sum(S) PROVE FALSE
  <2> DEFINE Bad == {s \in SUBSET S : iter[s] # Sum(s)}
             Sizes == {Cardinality(s) : s \in Bad}
  <2>1. Sizes \in SUBSET Nat /\ Sizes # {}
    <3>1. \A s \in Bad : Cardinality(s) \in Nat
        BY FramesFinite
    <3> QED
        BY <1>6, <3>1
  <2> HIDE DEF Sizes
  <2>2. PICK n \in Sizes : \A m \in Sizes : n <= m
      BY <2>1, LeastNat
  <2>3. PICK s \in Bad : n = Cardinality(s)
      BY <2>2 DEF Sizes
  <2>4. s # {}
    <3>1. iter[{}] = 0
        BY <1>4
    <3> QED
        BY <2>3, <3>1, SumFacts
  <2>5. PICK t \in Bad : Cardinality(t) < n
      BY <1>5, <2>3, <2>4
  <2>6. Cardinality(t) \in Sizes
      BY DEF Sizes
  <2>7. n \in Nat /\ Cardinality(t) \in Nat
      BY <2>1, <2>2, <2>6
  <2> QED
      BY <2>2, <2>5, <2>6, <2>7
<1> QED
    BY <1>1, <1>6

\* Sizes of disjoint sets of frames add up, those without the frame check sequence and
\* those with it.
LEMMA BytesAdd ==
    ASSUME NEW A \in SUBSET Frame, NEW B \in SUBSET Frame, A \cap B = {}
    PROVE  /\ Bytes(A) \in Int /\ Bytes(B) \in Int
           /\ Bytes(A \cup B) = Bytes(A) + Bytes(B)
<1> DEFINE C == A \cup B
<1>1. /\ SumSet(A) = Sum(A) /\ SumSet(B) = Sum(B) /\ SumSet(C) = Sum(C)
      /\ Sum(A) \in Int /\ Sum(B) \in Int /\ Sum(C) = Sum(A) + Sum(B)
    BY SumSetIsSum, SumFacts
<1>2. /\ Cardinality(A) \in Nat /\ Cardinality(B) \in Nat
      /\ Cardinality(C) = Cardinality(A) + Cardinality(B)
  <2>1. IsFiniteSet(A) /\ IsFiniteSet(B) /\ Cardinality(A) \in Nat /\ Cardinality(B) \in Nat
      BY FramesFinite
  <2>2. Cardinality(A \cap B) = 0
      BY FS_EmptySet
  <2>3. Cardinality(C) = Cardinality(A) + Cardinality(B) - Cardinality(A \cap B)
      BY <2>1, FS_Union
  <2> QED
      BY <2>1, <2>2, <2>3
<1> HIDE DEF C
<1>3. Bytes(C) = Bytes(A) + Bytes(B) /\ Bytes(A) \in Int /\ Bytes(B) \in Int
    BY <1>1, <1>2 DEF Bytes, FCS
<1> QED
    BY <1>3 DEF C

(***************************************************************************)
(* What one refresh does, and the types                                    *)
(***************************************************************************)

New(last) == read + 1 .. last
Stamp(last, start) == [f \in Frame |-> IF f \in New(last) THEN f - start - DELAY ELSE ts[f]]
Rows(last) == DATA \cup New(last)
MinTs(last, start) == Max({Stamp(last, start)[f] : f \in Rows(last)}) - TIMEDELTA
Old(last, start) == {f \in Rows(last) : Stamp(last, start)[f] < MinTs(last, start)}
Column == [ts : Int, frames : SUBSET Frame, gaps : SUBSET [frame : Frame, gap : Int]]
ColumnOf(fl, last, start) ==
    [ts |-> Stamp(last, start)[read + 1], frames |-> Counted(fl, New(last)),
     gaps |-> Gaps(fl, New(last), Stamp(last, start))]
Pushed(fl, last, start) ==
    IF New(last) = {} THEN bins[fl] ELSE Append(bins[fl], ColumnOf(fl, last, start))

\* Bucket.lastts after a batch that reached the bucket
Latest(fl, last, start) == Max({lastts[fl]} \cup {Stamp(last, start)[f] : f \in Of(fl, New(last))})

\* The guard of Refresh
Refreshing(last, start) ==
    /\ last \in Frame /\ last >= read /\ (last > read \/ DATA # {})
    /\ start \in Frame /\ START_TIME \in {None, start}

ReadTypes ==
    /\ flowOf \in [Frame -> Flow] /\ TIMEDELTA \in Nat /\ DELAY \in Int
    /\ read \in 0 .. MaxFrame /\ START_TIME \in 0 .. MaxFrame /\ origin \in 0 .. read
    /\ origin = None <=> START_TIME = None
    /\ ts \in [Frame -> Int]
    /\ DATA \subseteq 1 .. read
    /\ START_TIME = None => DATA = {}

KeptTypes ==
    /\ WINDOW_CUMM_DATA \in [ACTIVE_FLOWS -> Int]
    /\ lastts \in [ACTIVE_FLOWS -> Int]
    /\ LAST_TS \in [Flow \cup {0} -> Int]
    /\ bins \in [ACTIVE_FLOWS -> Seq(Column)]
    /\ START_TIME = None => \A fl \in ACTIVE_FLOWS : bins[fl] = <<>>

WindowTypes == ReadTypes /\ KeptTypes

\* Where a session begins if it does so with this batch
From == IF origin = None THEN read + 1 ELSE origin

Belongs(fl, f) == fl = 0 \/ flowOf[f] = fl

LEMMA OfFacts ==
    ASSUME NEW fl, NEW A, NEW B
    PROVE  /\ Of(fl, A) \subseteq A
           /\ Of(fl, A \cup B) = Of(fl, A) \cup Of(fl, B)
           /\ A \subseteq B => Of(fl, A) \subseteq Of(fl, B)
           /\ A \cap B = {} => Of(fl, A) \cap Of(fl, B) = {}
           /\ \A f : f \in Of(fl, A) <=> f \in A /\ Belongs(fl, f)
BY DEF Of, Belongs

LEMMA WindowFacts ==
    ASSUME WindowTypes
    PROVE  /\ MaxFrame \in Nat /\ Frame = 1 .. MaxFrame
           /\ Flow \subseteq Nat \ {0} /\ ACTIVE_FLOWS \subseteq Flow \cup {0}
           /\ TIMEDELTA \in Nat /\ read \in Nat /\ START_TIME \in Nat /\ origin \in Nat
           /\ origin <= read /\ read <= MaxFrame
           /\ DATA \subseteq 1 .. read /\ DATA \subseteq Frame
           /\ ts \in [Frame -> Int] /\ DELAY \in Int
           /\ From \in Nat \ {0} /\ From <= read + 1
           /\ Session = From .. read
           /\ origin = None => From = read + 1
           /\ origin # None => START_TIME # None /\ From = origin
<1>1. /\ MaxFrame \in Nat /\ Frame = 1 .. MaxFrame
      /\ Flow \subseteq Nat \ {0} /\ ACTIVE_FLOWS \subseteq Flow \cup {0}
      /\ TIMEDELTA \in Nat /\ read \in Nat /\ START_TIME \in Nat /\ origin \in Nat
      /\ origin <= read /\ read <= MaxFrame
      /\ DATA \subseteq 1 .. read
      /\ ts \in [Frame -> Int] /\ DELAY \in Int
      /\ origin = None <=> START_TIME = None
    BY FlowAssumption DEF WindowTypes, ReadTypes, Frame
<1>2. DATA \subseteq Frame
    BY <1>1
<1>3. From \in Nat \ {0} /\ From <= read + 1
    BY <1>1 DEF From, None
<1>4. Session = From .. read
  <2>1. read + 1 .. read = {}
      BY <1>1
  <2> QED
      BY <2>1 DEF Session, From
<1> QED
    BY <1>1, <1>2, <1>3, <1>4 DEF From

\* Time stamps are bounded, as there are only so many frames.
LEMMA StampsBounded ==
    ASSUME NEW v \in [Frame -> Int]
    PROVE  \E b \in Int : \A f \in Frame : v[f] <= b
<1> DEFINE Below(n) == \E b \in Int : \A f \in Frame : f <= n => v[f] <= b
           T == {n \in Nat : Below(n)}
<1>1. 0 \in T
  <2>1. \A f \in Frame : ~(f <= 0)
      BY DEF Frame
  <2> QED
      BY <2>1
<1>2. ASSUME NEW n \in T PROVE n + 1 \in T
  <2>1. PICK b \in Int : \A f \in Frame : f <= n => v[f] <= b
      OBVIOUS
  <2>2. \A f \in Frame : f \in Int
      BY DEF Frame
  <2>3. CASE n + 1 \in Frame
    <3> DEFINE c == IF v[n + 1] <= b THEN b ELSE v[n + 1]
    <3>1. v[n + 1] \in Int
        BY <2>3
    <3>2. c \in Int /\ b <= c /\ v[n + 1] <= c
        BY <3>1
    <3> HIDE DEF c
    <3>3. ASSUME NEW f \in Frame, f <= n + 1 PROVE v[f] <= c
      <4>1. v[f] \in Int /\ (f <= n \/ f = n + 1)
          BY <2>2, <3>3
      <4> QED
          BY <2>1, <3>2, <4>1
    <3> QED
        BY <3>2, <3>3
  <2>4. CASE n + 1 \notin Frame
    <3>1. ASSUME NEW f \in Frame, f <= n + 1 PROVE v[f] <= b
      <4>1. f <= n
          BY <2>2, <2>4, <3>1
      <4> QED
          BY <2>1, <4>1
    <3> QED
        BY <3>1
  <2> QED
      BY <2>3, <2>4
<1>3. T = Nat
  <2> HIDE DEF T
  <2>1. T \in SUBSET Nat
      BY DEF T
  <2> QED
      BY <1>1, <1>2, <2>1, InductionByASet
<1>4. PICK b \in Int : \A f \in Frame : f <= MaxFrame => v[f] <= b
    BY <1>3, FlowAssumption
<1> QED
    BY <1>4, FlowAssumption DEF Frame

\* The greatest of some time stamps, and of them and one number
LEMMA MaxStamp ==
    ASSUME NEW v \in [Frame -> Int], NEW A \in SUBSET Frame, NEW X \in SUBSET Int,
           X \cup A # {}, NEW x \in Int, X \subseteq {x}
    PROVE  LET S == X \cup {v[f] : f \in A}
           IN  Max(S) \in S /\ Max(S) \in Int /\ \A y \in S : y <= Max(S)
<1> DEFINE S == X \cup {v[f] : f \in A}
<1>1. PICK b \in Int : \A f \in Frame : v[f] <= b
    BY StampsBounded
<1> DEFINE c == IF x <= b THEN b ELSE x
<1>2. c \in Int /\ b <= c /\ x <= c
    OBVIOUS
<1> HIDE DEF c
<1>3. S \in SUBSET Int /\ S # {}
    OBVIOUS
<1>4. ASSUME NEW y \in S PROVE y <= c
  <2>1. CASE y \in X
      BY <1>2, <2>1
  <2>2. CASE y \notin X
    <3>1. PICK f \in A : y = v[f]
        BY <2>2
    <3>2. v[f] \in Int /\ v[f] <= b
        BY <1>1
    <3> QED
        BY <1>2, <3>1, <3>2
  <2> QED
      BY <2>1, <2>2
<1> HIDE DEF S
<1>5. Max(S) \in S /\ \A y \in S : y <= Max(S)
    BY <1>2, <1>3, <1>4, MaxFacts
<1> QED
    BY <1>3, <1>5 DEF S

LEMMA RefreshFacts ==
    ASSUME WindowTypes, NEW last, NEW start, Refreshing(last, start)
    PROVE  /\ start \in Nat \ {0} /\ last \in Nat /\ last <= MaxFrame
           /\ read <= last /\ From <= last
           /\ New(last) \subseteq Frame /\ DATA \cap New(last) = {}
           /\ \A f \in New(last) : f \in Int /\ read + 1 <= f /\ f <= last
           /\ New(last) # {} => read + 1 \in New(last)
           /\ Rows(last) \subseteq Frame /\ Rows(last) \subseteq 1 .. last
           /\ Old(last, start) \subseteq Rows(last)
           /\ Stamp(last, start) \in [Frame -> Int]
           /\ \A f \in Frame : f <= read => Stamp(last, start)[f] = ts[f]
           /\ MinTs(last, start) \in Int
<1> DEFINE v == Stamp(last, start)
           A == Rows(last)
<1>f. /\ MaxFrame \in Nat /\ Frame = 1 .. MaxFrame /\ read \in Nat
      /\ read <= MaxFrame /\ DATA \subseteq 1 .. read /\ TIMEDELTA \in Nat
      /\ ts \in [Frame -> Int] /\ DELAY \in Int
      /\ From \in Nat \ {0} /\ From <= read + 1 /\ origin \in Nat /\ origin <= read
      /\ (origin # None => From = origin)
    BY WindowFacts
<1>r. /\ last \in Frame /\ last >= read /\ (last > read \/ DATA # {})
      /\ start \in Frame
    BY DEF Refreshing
<1>1. start \in Nat \ {0} /\ last \in Nat /\ last <= MaxFrame /\ read <= last
    BY <1>f, <1>r
<1>2. From <= last
  <2>1. CASE last > read
      BY <1>f, <1>1, <2>1
  <2>2. CASE DATA # {}
    <3>1. origin # None
        BY <2>2 DEF WindowTypes, ReadTypes
    <3> QED
        BY <1>f, <1>1, <3>1
  <2> QED
      BY <1>r, <2>1, <2>2
<1>3. \A f \in New(last) : f \in Int /\ read + 1 <= f /\ f <= last /\ f \in Frame
    BY <1>f, <1>1 DEF New
<1>4. New(last) # {} => read + 1 \in New(last)
    BY <1>f, <1>1 DEF New
<1>5. DATA \cap New(last) = {}
    BY <1>f, <1>3
<1>6. A \subseteq Frame /\ A \subseteq 1 .. last /\ A # {}
  <2>1. \A f \in DATA : f \in Frame /\ f \in 1 .. last
      BY <1>f, <1>1
  <2>2. \A f \in New(last) : f \in Frame /\ f \in 1 .. last
      BY <1>f, <1>1, <1>3
  <2>3. last > read => last \in New(last)
      BY <1>f, <1>1 DEF New
  <2> QED
      BY <1>r, <2>1, <2>2, <2>3 DEF Rows
<1>7. v \in [Frame -> Int]
  <2>1. \A f \in Frame : f - start - DELAY \in Int /\ ts[f] \in Int
      BY <1>f, <1>1
  <2> QED
      BY <2>1 DEF Stamp
<1>8. \A f \in Frame : f <= read => v[f] = ts[f]
  <2> SUFFICES ASSUME NEW f \in Frame, f <= read PROVE v[f] = ts[f]
      OBVIOUS
  <2>1. f \notin New(last)
      BY <1>f, <1>3
  <2> QED
      BY <2>1 DEF Stamp
<1>9. MinTs(last, start) \in Int
  <2> DEFINE X == {}
             P == {v[f] : f \in A}
             S == X \cup P
  <2>1. /\ X \in SUBSET Int /\ X \cup A # {} /\ X \subseteq {read} /\ A \in SUBSET Frame
        /\ read \in Int
      BY <1>f, <1>6
  <2>2. S = P
      OBVIOUS
  <2>3. Max(S) \in Int
    <3> HIDE DEF v, A, X
    <3> QED
        BY <1>7, <2>1, MaxStamp
  <2> HIDE DEF S
  <2>4. Max(P) \in Int
      BY <2>2, <2>3
  <2>5. MinTs(last, start) = Max(P) - TIMEDELTA
      BY DEF MinTs
  <2> HIDE DEF P
  <2> QED
      BY <1>f, <2>4, <2>5
<1> QED
    BY <1>1, <1>2, <1>3, <1>4, <1>5, <1>6, <1>7, <1>8, <1>9 DEF Old

\* What a refresh assigns
LEMMA RefreshEffect ==
    ASSUME WindowTypes, NEW last, NEW start, Refreshing(last, start), RefreshWith(last, start)
    PROVE  /\ START_TIME' = start /\ read' = last /\ origin' = From
           /\ flowOf' = flowOf /\ TIMEDELTA' = TIMEDELTA /\ DELAY' = DELAY
           /\ ts' = Stamp(last, start)
           /\ DATA' = Rows(last) \ Old(last, start)
           /\ WINDOW_CUMM_DATA' = [fl \in ACTIVE_FLOWS |->
                 WINDOW_CUMM_DATA[fl] + Bytes(Of(fl, New(last))) - Bytes(Of(fl, Old(last, start)))]
           /\ bins' = [fl \in ACTIVE_FLOWS |->
                 OlderDropped(Pushed(fl, last, start), MinTs(last, start))]
           /\ LAST_TS' = [fl \in DOMAIN LAST_TS |->
                 IF Of(fl, New(last)) = {} THEN LAST_TS[fl]
                                           ELSE Stamp(last, start)[Max(Of(fl, New(last)))]]
           /\ failed' => \E fl \in ACTIVE_FLOWS : \E f \in Of(fl, New(last)) :
                            Stamp(last, start)[f] < lastts[fl]
           /\ \E done \in SUBSET ACTIVE_FLOWS :
                 lastts' = [fl \in ACTIVE_FLOWS |->
                    IF fl \in done THEN Latest(fl, last, start) ELSE lastts[fl]]
<1>1. /\ START_TIME' = start /\ read' = last /\ origin' = From
      /\ flowOf' = flowOf /\ TIMEDELTA' = TIMEDELTA /\ DELAY' = DELAY
      /\ ts' = Stamp(last, start)
      /\ DATA' = Rows(last) \ Old(last, start)
    BY DEF RefreshWith, From, New, Rows, MinTs, Old, Stamp
<1>2. WINDOW_CUMM_DATA' = [fl \in ACTIVE_FLOWS |->
         WINDOW_CUMM_DATA[fl] + Bytes(Of(fl, New(last))) - Bytes(Of(fl, Old(last, start)))]
    BY DEF RefreshWith, New, Rows, MinTs, Old, Stamp, Dropped
<1>3. bins' = [fl \in ACTIVE_FLOWS |->
         OlderDropped(Pushed(fl, last, start), MinTs(last, start))]
    BY DEF RefreshWith, New, Rows, MinTs, Stamp, Pushed, ColumnOf
<1>4. LAST_TS' = [fl \in DOMAIN LAST_TS |->
         IF Of(fl, New(last)) = {} THEN LAST_TS[fl]
                                   ELSE Stamp(last, start)[Max(Of(fl, New(last)))]]
    BY DEF RefreshWith, New, Stamp
<1>5. failed' => \E fl \in ACTIVE_FLOWS : \E f \in Of(fl, New(last)) :
                    Stamp(last, start)[f] < lastts[fl]
    BY DEF RefreshWith, New, Stamp
<1>6. \E done \in SUBSET ACTIVE_FLOWS :
         lastts' = [fl \in ACTIVE_FLOWS |->
            IF fl \in done THEN Latest(fl, last, start) ELSE lastts[fl]]
    BY DEF RefreshWith, New, Stamp, Latest
<1> QED
    BY <1>1, <1>2, <1>3, <1>4, <1>5, <1>6

\* The greatest frame of a set that is not empty
LEMMA LastFrame ==
    ASSUME NEW A \in SUBSET Frame, A # {}
    PROVE  Max(A) \in A /\ \A f \in A : f <= Max(A)
<1>1. A \in SUBSET Int /\ MaxFrame \in Int /\ \A f \in A : f <= MaxFrame
    BY FlowAssumption DEF Frame
<1> QED
    BY <1>1, MaxFacts

LEMMA LastBeforeType ==
    ASSUME WindowTypes, NEW fl \in Flow \cup {0}, NEW f, NEW A \in SUBSET Frame,
           NEW v \in [Frame -> Int]
    PROVE  LastBefore(fl, f, A, v) \in Int
<1> DEFINE earlier == {g \in Of(fl, A) : g < f}
<1>1. LAST_TS[fl] \in Int
    BY DEF WindowTypes, KeptTypes
<1>2. earlier \in SUBSET Frame
    BY OfFacts
<1>3. ASSUME earlier # {} PROVE v[Max(earlier)] \in Int
  <2> HIDE DEF earlier
  <2>1. Max(earlier) \in Frame
      BY <1>2, <1>3, LastFrame
  <2> QED
      BY <2>1
<1> QED
    BY <1>1, <1>3 DEF LastBefore

LEMMA ColumnType ==
    ASSUME WindowTypes, NEW last, NEW start, Refreshing(last, start), New(last) # {},
           NEW fl \in ACTIVE_FLOWS
    PROVE  ColumnOf(fl, last, start) \in Column
<1> DEFINE v == Stamp(last, start)
           A == New(last)
<1>1. /\ A \in SUBSET Frame /\ fl \in Flow \cup {0} /\ v \in [Frame -> Int] /\ read + 1 \in A
    BY RefreshFacts, WindowFacts
<1> HIDE DEF v, A
<1>2. Counted(fl, A) \subseteq Frame
    BY <1>1, OfFacts DEF Counted
<1>3. ASSUME NEW f \in Counted(fl, A) PROVE v[f] - LastBefore(fl, f, A, v) \in Int
  <2>1. LastBefore(fl, f, A, v) \in Int
      BY <1>1, LastBeforeType
  <2>2. v[f] \in Int
      BY <1>1, <1>2
  <2> QED
      BY <2>1, <2>2
<1>4. Gaps(fl, A, v) \subseteq [frame : Frame, gap : Int]
    BY <1>2, <1>3 DEF Gaps
<1>5. v[read + 1] \in Int
    BY <1>1
<1> QED
    BY <1>2, <1>4, <1>5 DEF ColumnOf, Column, v, A

LEMMA PushedType ==
    ASSUME WindowTypes, NEW last, NEW start, Refreshing(last, start), NEW fl \in ACTIVE_FLOWS
    PROVE  Pushed(fl, last, start) \in Seq(Column)
<1>1. bins[fl] \in Seq(Column)
    BY DEF WindowTypes, KeptTypes
<1>2. CASE New(last) = {}
    BY <1>1, <1>2 DEF Pushed
<1>3. CASE New(last) # {}
  <2>1. ColumnOf(fl, last, start) \in Column
      BY <1>3, ColumnType
  <2>2. Append(bins[fl], ColumnOf(fl, last, start)) \in Seq(Column)
      BY <1>1, <2>1, AppendProperties
  <2> QED
      BY <1>3, <2>2 DEF Pushed
<1> QED
    BY <1>2, <1>3

\* drop_older_than takes columns off the front.
LEMMA DroppedType ==
    ASSUME NEW cols \in Seq(Column), NEW t \in Int
    PROVE  LET n == Cardinality({k \in 1 .. Len(cols) : cols[k].ts < t})
               kept == OlderDropped(cols, t)
           IN  /\ n \in 0 .. Len(cols) /\ kept \in Seq(Column) /\ Len(kept) = Len(cols) - n
               /\ \A k \in 1 .. Len(kept) : n + k \in 1 .. Len(cols) /\ kept[k] = cols[n + k]
<1> DEFINE Early == {k \in 1 .. Len(cols) : cols[k].ts < t}
           n == Cardinality(Early)
           kept == SubSeq(cols, 1 + n, Len(cols))
<1>1. Len(cols) \in Nat
    BY LenProperties
<1>2. n \in 0 .. Len(cols)
  <2>1. IsFiniteSet(1 .. Len(cols)) /\ Cardinality(1 .. Len(cols)) = Len(cols)
    <3> DEFINE m == Len(cols)
    <3>1. m \in Nat
        BY <1>1
    <3> HIDE DEF m
    <3>2. IsFiniteSet(1 .. m) /\ Cardinality(1 .. m) = IF 1 > m THEN 0 ELSE m - 1 + 1
        BY <3>1, FS_Interval
    <3>3. Cardinality(1 .. m) = m
        BY <3>1, <3>2
    <3> QED
        BY <3>2, <3>3 DEF m
  <2>2. Early \in SUBSET (1 .. Len(cols))
      OBVIOUS
  <2> HIDE DEF Early
  <2>3. IsFiniteSet(Early) /\ n <= Len(cols)
      BY <2>1, <2>2, FS_Subset
  <2>4. n \in Nat
      BY <2>3, FS_CardinalityType
  <2> QED
      BY <1>1, <2>3, <2>4
<1> HIDE DEF n
<1>3. \A i \in 1 + n .. Len(cols) : cols[i] \in Column
  <2>1. \A i \in 1 + n .. Len(cols) : i \in 1 .. Len(cols)
      BY <1>1, <1>2
  <2> QED
      BY <2>1, ElementOfSeq
<1>4. /\ kept \in Seq(Column)
      /\ Len(kept) = IF 1 + n <= Len(cols) THEN Len(cols) - (1 + n) + 1 ELSE 0
      /\ \A i \in 1 .. Len(cols) - (1 + n) + 1 : kept[i] = cols[1 + n + i - 1]
  <2>1. 1 + n \in Int /\ Len(cols) \in Int
      BY <1>1, <1>2
  <2> QED
      BY <1>3, <2>1, SubSeqProperties
<1> HIDE DEF kept
<1>5. Len(kept) = Len(cols) - n
  <2> DEFINE m == Len(cols)
  <2>1. m \in Nat /\ n \in 0 .. m /\ Len(kept) = IF 1 + n <= m THEN m - (1 + n) + 1 ELSE 0
      BY <1>1, <1>2, <1>4
  <2> HIDE DEF m
  <2>2. Len(kept) = m - n
      BY <2>1
  <2> QED
      BY <2>2 DEF m
<1>6. \A k \in 1 .. Len(kept) : n + k \in 1 .. Len(cols) /\ kept[k] = cols[n + k]
  <2> SUFFICES ASSUME NEW k \in 1 .. Len(kept)
               PROVE  n + k \in 1 .. Len(cols) /\ kept[k] = cols[n + k]
      OBVIOUS
  <2>1. /\ k \in 1 .. Len(cols) - (1 + n) + 1 /\ 1 + n + k - 1 = n + k
        /\ n + k \in 1 .. Len(cols)
      BY <1>1, <1>2, <1>5
  <2> QED
      BY <1>4, <2>1
<1> QED
    BY <1>2, <1>4, <1>5, <1>6 DEF n, kept, OlderDropped

\* If columns begin one after the other, what is left begins no earlier than the window.
LEMMA DroppedOlder ==
    ASSUME NEW cols \in Seq(Column), NEW t \in Int,
           \A k, l \in 1 .. Len(cols) : k < l => cols[k].ts < cols[l].ts,
           NEW k \in 1 .. Len(cols), k > Cardinality({i \in 1 .. Len(cols) : cols[i].ts < t})
    PROVE  cols[k].ts >= t
<1> DEFINE Early == {i \in 1 .. Len(cols) : cols[i].ts < t}
<1>1. Len(cols) \in Nat /\ \A i \in 1 .. Len(cols) : cols[i].ts \in Int
  <2>1. Len(cols) \in Nat /\ \A i \in 1 .. Len(cols) : cols[i] \in Column
      BY ElementOfSeq, LenProperties
  <2>2. \A col \in Column : col.ts \in Int
      BY DEF Column
  <2> QED
      BY <2>1, <2>2
<1> SUFFICES ASSUME cols[k].ts < t PROVE FALSE
    BY <1>1
<1>2. 1 .. k \in SUBSET Early
  <2>1. \A i \in 1 .. k : i \in 1 .. Len(cols) /\ (i < k \/ i = k)
      BY <1>1
  <2> QED
      BY <1>1, <2>1
<1>3. IsFiniteSet(Early) /\ Cardinality(Early) \in Nat
  <2>1. IsFiniteSet(1 .. Len(cols)) /\ Early \in SUBSET (1 .. Len(cols))
      BY <1>1, FS_Interval
  <2> HIDE DEF Early
  <2>2. IsFiniteSet(Early)
      BY <2>1, FS_Subset
  <2> QED
      BY <2>2, FS_CardinalityType
<1> HIDE DEF Early
<1>4. Cardinality(1 .. k) = k /\ k \in Nat
  <2>1. k \in Nat \ {0}
      BY <1>1
  <2> QED
      BY <2>1, FS_Interval
<1>5. Cardinality(1 .. k) <= Cardinality(Early)
    BY <1>2, <1>3, FS_Subset
<1>6. k > Cardinality(Early)
    BY DEF Early
<1> QED
    BY <1>3, <1>4, <1>5, <1>6

LEMMA WindowTypesStep == ASSUME WindowTypes, Next PROVE WindowTypes'
<1>t. ReadTypes /\ KeptTypes
    BY DEF WindowTypes
<1>f. /\ MaxFrame \in Nat /\ Frame = 1 .. MaxFrame
      /\ Deltas \subseteq Nat /\ Delays \subseteq Int /\ ACTIVE_FLOWS \subseteq Flow \cup {0}
      /\ read \in Nat /\ origin \in Nat /\ origin <= read /\ From \in Nat \ {0}
    BY WindowFacts, FlowAssumption
<1>1. CASE Start
  <2>1. ReadTypes'
      BY <1>t, <1>f, <1>1 DEF Start, Forget, ReadTypes, None
  <2>2. KeptTypes'
      BY <1>t, <1>1, EmptySeq DEF Start, Forget, KeptTypes
  <2> QED
      BY <2>1, <2>2 DEF WindowTypes
<1>2. ASSUME NEW delta \in Deltas, UpdateTimedelta(delta) PROVE WindowTypes'
  <2>1. ReadTypes'
      BY <1>t, <1>f, <1>2 DEF UpdateTimedelta, ReadTypes
  <2>2. KeptTypes'
      BY <1>t, <1>2 DEF UpdateTimedelta, KeptTypes
  <2> QED
      BY <2>1, <2>2 DEF WindowTypes
<1>3. ASSUME NEW delay \in Delays, StopCalibration(delay) PROVE WindowTypes'
  <2>1. ReadTypes'
      BY <1>t, <1>f, <1>3 DEF StopCalibration, ReadTypes
  <2>2. KeptTypes'
      BY <1>t, <1>3 DEF StopCalibration, KeptTypes
  <2> QED
      BY <2>1, <2>2 DEF WindowTypes
<1>4. ASSUME NEW last, NEW start, Refreshing(last, start), RefreshWith(last, start)
      PROVE  WindowTypes'
  <2> DEFINE v == Stamp(last, start)
  <2>e. /\ START_TIME' = start /\ read' = last /\ origin' = From
        /\ flowOf' = flowOf /\ TIMEDELTA' = TIMEDELTA /\ DELAY' = DELAY /\ ts' = v
        /\ DATA' = Rows(last) \ Old(last, start)
        /\ WINDOW_CUMM_DATA' = [fl \in ACTIVE_FLOWS |->
              WINDOW_CUMM_DATA[fl] + Bytes(Of(fl, New(last))) - Bytes(Of(fl, Old(last, start)))]
        /\ bins' = [fl \in ACTIVE_FLOWS |->
              OlderDropped(Pushed(fl, last, start), MinTs(last, start))]
        /\ LAST_TS' = [fl \in DOMAIN LAST_TS |->
              IF Of(fl, New(last)) = {} THEN LAST_TS[fl] ELSE v[Max(Of(fl, New(last)))]]
      BY <1>4, RefreshEffect
  <2>d. \E done \in SUBSET ACTIVE_FLOWS :
           lastts' = [fl \in ACTIVE_FLOWS |->
              IF fl \in done THEN Latest(fl, last, start) ELSE lastts[fl]]
      BY <1>4, RefreshEffect
  <2>r. /\ start \in Nat \ {0} /\ last \in Nat /\ last <= MaxFrame /\ From <= last
        /\ Rows(last) \subseteq 1 .. last /\ MinTs(last, start) \in Int
        /\ New(last) \subseteq Frame /\ Old(last, start) \subseteq Frame
        /\ v \in [Frame -> Int] /\ start \in Frame
    <3>1. Old(last, start) \subseteq Rows(last) /\ Rows(last) \subseteq Frame
        BY <1>4, RefreshFacts
    <3> QED
        BY <1>4, <3>1, RefreshFacts DEF Refreshing
  <2> HIDE DEF v
  <2>1. ReadTypes'
    <3>1. START_TIME' \in 0 .. MaxFrame /\ START_TIME' # None
        BY <1>f, <2>e, <2>r DEF None
    <3>2. origin' \in 0 .. read' /\ origin' # None
        BY <1>f, <2>e, <2>r DEF None
    <3>3. read' \in 0 .. MaxFrame
        BY <2>e, <2>r
    <3>4. DATA' \subseteq 1 .. read'
        BY <2>e, <2>r
    <3>5. ts' \in [Frame -> Int]
        BY <2>e, <2>r
    <3> QED
        BY <1>t, <2>e, <3>1, <3>2, <3>3, <3>4, <3>5 DEF ReadTypes
  <2>2. WINDOW_CUMM_DATA' \in [ACTIVE_FLOWS -> Int]
    <3>1. ASSUME NEW fl, NEW A \in SUBSET Frame PROVE Bytes(Of(fl, A)) \in Int
      <4> DEFINE B == Of(fl, A)
      <4>1. B \in SUBSET Frame /\ B \cap {} = {} /\ {} \in SUBSET Frame
          BY OfFacts
      <4> HIDE DEF B
      <4>2. Bytes(B) \in Int
          BY <4>1, BytesAdd
      <4> QED
          BY <4>2 DEF B
    <3>2. ASSUME NEW fl \in ACTIVE_FLOWS
          PROVE  WINDOW_CUMM_DATA[fl] + Bytes(Of(fl, New(last))) - Bytes(Of(fl, Old(last, start))) \in Int
      <4>1. WINDOW_CUMM_DATA[fl] \in Int
          BY <1>t DEF KeptTypes
      <4>2. Bytes(Of(fl, New(last))) \in Int /\ Bytes(Of(fl, Old(last, start))) \in Int
          BY <2>r, <3>1
      <4> QED
          BY <4>1, <4>2
    <3> QED
        BY <2>e, <3>2
  <2>3. bins' \in [ACTIVE_FLOWS -> Seq(Column)]
    <3>1. ASSUME NEW fl \in ACTIVE_FLOWS
          PROVE  OlderDropped(Pushed(fl, last, start), MinTs(last, start)) \in Seq(Column)
      <4> DEFINE cols == Pushed(fl, last, start)
      <4>1. cols \in Seq(Column)
          BY <1>4, PushedType
      <4> HIDE DEF cols
      <4>2. OlderDropped(cols, MinTs(last, start)) \in Seq(Column)
          BY <4>1, <2>r, DroppedType
      <4> QED
          BY <4>2 DEF cols
    <3> QED
        BY <2>e, <3>1
  <2>4. LAST_TS' \in [Flow \cup {0} -> Int]
    <3>1. ASSUME NEW fl, Of(fl, New(last)) # {}
          PROVE  v[Max(Of(fl, New(last)))] \in Int
      <4> DEFINE A == Of(fl, New(last))
      <4>1. A \in SUBSET Frame /\ A # {}
          BY <2>r, <3>1, OfFacts
      <4> HIDE DEF A
      <4>2. Max(A) \in Frame
          BY <4>1, LastFrame
      <4>3. v[Max(A)] \in Int
          BY <2>r, <4>2
      <4> QED
          BY <4>3 DEF A
    <3>2. LAST_TS \in [Flow \cup {0} -> Int]
        BY <1>t DEF KeptTypes
    <3> QED
        BY <2>e, <3>1, <3>2
  <2>5. lastts' \in [ACTIVE_FLOWS -> Int]
    <3>1. ASSUME NEW fl \in ACTIVE_FLOWS
          PROVE  Latest(fl, last, start) \in Int
      <4> DEFINE X == {lastts[fl]}
                 A == Of(fl, New(last))
      <4>1. lastts[fl] \in Int
          BY <1>t DEF KeptTypes
      <4>2. X \in SUBSET Int /\ X \cup A # {} /\ X \subseteq {lastts[fl]} /\ A \in SUBSET Frame
          BY <2>r, <4>1, OfFacts
      <4> HIDE DEF X, A
      <4>3. Max(X \cup {v[f] : f \in A}) \in Int
          BY <2>r, <4>1, <4>2, MaxStamp
      <4> QED
          BY <4>3 DEF X, A, Latest, v
    <3> QED
        BY <1>t, <2>d, <3>1 DEF KeptTypes
  <2>6. KeptTypes'
    <3>1. START_TIME' # None
        BY <2>e, <2>r DEF None
    <3> QED
        BY <2>2, <2>3, <2>4, <2>5, <3>1 DEF KeptTypes
  <2> QED
      BY <2>1, <2>6 DEF WindowTypes
<1> QED
    BY <1>1, <1>2, <1>3, <1>4 DEF Next, Refresh, Refreshing

LEMMA WindowTypesAlways == Spec => []WindowTypes
<1>1. Init => WindowTypes
  <2> SUFFICES ASSUME Init PROVE WindowTypes
      OBVIOUS
  <2>1. ReadTypes
      BY FlowAssumption DEF Init, ReadTypes, None
  <2>2. KeptTypes
      BY EmptySeq DEF Init, KeptTypes
  <2> QED
      BY <2>1, <2>2 DEF WindowTypes
<1>2. ASSUME WindowTypes, UNCHANGED vars PROVE WindowTypes'
    BY <1>2 DEF WindowTypes, ReadTypes, KeptTypes, vars
<1>3. WindowTypes /\ [Next]_vars => WindowTypes'
    BY <1>2, WindowTypesStep
<1> QED
    BY <1>1, <1>3, PTL DEF Spec

(***************************************************************************)
(* The volume of the window                                                *)
(***************************************************************************)

LEMMA NoBytes == Bytes({}) = 0
<1> DEFINE e == {}
           n == Bytes(e)
<1>1. e \in SUBSET Frame /\ e \cap e = {} /\ e \cup e = e
    OBVIOUS
<1> HIDE DEF e
<1>2. Bytes(e \cup e) = n + n /\ n \in Int
    BY <1>1, BytesAdd
<1>3. n = n + n /\ n \in Int
    BY <1>1, <1>2
<1> HIDE DEF n
<1>4. n = 0
    BY <1>3
<1> QED
    BY <1>4 DEF n, e

LEMMA VolumeStep == ASSUME WindowTypes, VolumeOfWindow, Next PROVE VolumeOfWindow'
<1>1. CASE Start
  <2> SUFFICES ASSUME NEW fl \in ACTIVE_FLOWS
               PROVE  WINDOW_CUMM_DATA'[fl] = Bytes(Of(fl, DATA)')
      BY DEF VolumeOfWindow
  <2>1. Of(fl, DATA)' = {} /\ WINDOW_CUMM_DATA'[fl] = 0
      BY <1>1 DEF Start, Forget, Of
  <2> QED
      BY <2>1, NoBytes
<1>2. ASSUME NEW delta \in Deltas, UpdateTimedelta(delta) PROVE VolumeOfWindow'
    BY <1>2 DEF UpdateTimedelta, VolumeOfWindow, Of
<1>3. ASSUME NEW delay \in Delays, StopCalibration(delay) PROVE VolumeOfWindow'
    BY <1>3 DEF StopCalibration, VolumeOfWindow, Of
<1>4. ASSUME NEW last, NEW start, Refreshing(last, start), RefreshWith(last, start)
      PROVE  VolumeOfWindow'
  <2> SUFFICES ASSUME NEW fl \in ACTIVE_FLOWS
               PROVE  WINDOW_CUMM_DATA'[fl] = Bytes(Of(fl, DATA)')
      BY DEF VolumeOfWindow
  <2> DEFINE before == Of(fl, DATA)
             new == Of(fl, New(last))
             old == Of(fl, Old(last, start))
             after == Of(fl, Rows(last) \ Old(last, start))
  <2>1. /\ WINDOW_CUMM_DATA'[fl] = WINDOW_CUMM_DATA[fl] + Bytes(new) - Bytes(old)
        /\ Of(fl, DATA)' = after
    <3>1. /\ DATA' = Rows(last) \ Old(last, start) /\ flowOf' = flowOf
          /\ WINDOW_CUMM_DATA' = [e \in ACTIVE_FLOWS |->
                 WINDOW_CUMM_DATA[e] + Bytes(Of(e, New(last))) - Bytes(Of(e, Old(last, start)))]
        BY <1>4, RefreshEffect
    <3> QED
        BY <3>1 DEF Of
  <2>2. WINDOW_CUMM_DATA[fl] = Bytes(before)
      BY DEF VolumeOfWindow
  <2>3. /\ before \in SUBSET Frame /\ new \in SUBSET Frame /\ before \cap new = {}
        /\ old \in SUBSET Frame /\ after \in SUBSET Frame /\ old \cap after = {}
        /\ before \cup new = old \cup after
    <3>1. /\ DATA \subseteq Frame /\ New(last) \subseteq Frame /\ DATA \cap New(last) = {}
          /\ Rows(last) \subseteq Frame /\ Old(last, start) \subseteq Rows(last)
        BY <1>4, RefreshFacts, WindowFacts
    <3>2. Rows(last) = DATA \cup New(last)
        BY DEF Rows
    <3> QED
        BY <3>1, <3>2 DEF Of
  <2> HIDE DEF before, new, old, after
  <2>4. /\ Bytes(before \cup new) = Bytes(before) + Bytes(new)
        /\ Bytes(before) \in Int /\ Bytes(new) \in Int
      BY <2>3, BytesAdd
  <2>5. /\ Bytes(old \cup after) = Bytes(old) + Bytes(after)
        /\ Bytes(old) \in Int /\ Bytes(after) \in Int
      BY <2>3, BytesAdd
  <2>6. Bytes(after) = Bytes(before) + Bytes(new) - Bytes(old)
    <3>1. Bytes(before \cup new) = Bytes(old \cup after)
        BY <2>3
    <3>2. Bytes(before) + Bytes(new) = Bytes(old) + Bytes(after)
        BY <2>4, <2>5, <3>1
    <3> DEFINE a == Bytes(before)
               b == Bytes(new)
               c == Bytes(old)
               d == Bytes(after)
    <3>3. a \in Int /\ b \in Int /\ c \in Int /\ d \in Int /\ a + b = c + d
        BY <2>4, <2>5, <3>2
    <3> HIDE DEF a, b, c, d
    <3>4. d = a + b - c
        BY <3>3
    <3> QED
        BY <3>4 DEF a, b, c, d
  <2> QED
      BY <2>1, <2>2, <2>6
<1> QED
    BY <1>1, <1>2, <1>3, <1>4 DEF Next, Refresh, Refreshing

\* The volume of a flow is that of its rows in the window (VolumeOfWindow, of evaluate_pipe):
\* what is added line by line and subtracted window by window does not drift, whatever
\* calibrations do to the time stamps.
THEOREM VolumeDoesNotDrift == Spec => []VolumeOfWindow
<1>1. Init => VolumeOfWindow
  <2> SUFFICES ASSUME Init, NEW fl \in ACTIVE_FLOWS
               PROVE  WINDOW_CUMM_DATA[fl] = Bytes(Of(fl, DATA))
      BY DEF VolumeOfWindow
  <2>1. Of(fl, DATA) = {} /\ WINDOW_CUMM_DATA[fl] = 0
      BY DEF Init, Of
  <2> QED
      BY <2>1, NoBytes
<1>2. ASSUME VolumeOfWindow, UNCHANGED vars PROVE VolumeOfWindow'
    BY <1>2 DEF VolumeOfWindow, Of, vars
<1>3. WindowTypes /\ VolumeOfWindow /\ [Next]_vars => VolumeOfWindow'
    BY <1>2, VolumeStep
<1> QED
    BY <1>1, <1>3, WindowTypesAlways, PTL DEF Spec

(***************************************************************************)
(* The order of time stamps                                                *)
(***************************************************************************)

\* The frames of this session were given ascending time stamps.
Ascends(v, from, to) == \A f, g \in from .. to : f < g => v[f] < v[g]
Steady == Ascends(ts, From, read)

\* A calibration that leaves DELAY or lowers it leaves time stamps in order.
LEMMA SteadyUnlessRaised == ASSUME WindowTypes, ~DelayRaised PROVE Steady
<1> SUFFICES ASSUME NEW f \in From .. read, NEW g \in From .. read, f < g
             PROVE  ts[f] < ts[g]
    BY DEF Steady, Ascends
<1>1. /\ f \in Session /\ g \in Session /\ f \in Frame /\ g \in Frame
      /\ f \in Int /\ g \in Int /\ START_TIME \in Int /\ ts[f] \in Int /\ ts[g] \in Int
    BY WindowFacts
<1>2. f - START_TIME - ts[f] >= g - START_TIME - ts[g]
    BY <1>1 DEF DelayRaised, StampedWith
<1> QED
    BY <1>1, <1>2

\* A bucket knows no later time stamp than that of the last frame.
BucketInv ==
    /\ failed => origin # None /\ (Steady => ts[origin] < 0)
    /\ Steady => \A fl \in ACTIVE_FLOWS :
                    lastts[fl] = 0 \/ (origin # None /\ lastts[fl] <= ts[read])

\* What a refresh does to the session: it only grows, and keeps its time stamps.
LEMMA SteadyBefore ==
    ASSUME WindowTypes, NEW last, NEW start, Refreshing(last, start),
           Ascends(Stamp(last, start), From, last)
    PROVE  Steady
<1> DEFINE v == Stamp(last, start)
<1>f. /\ From \in Nat \ {0} /\ read \in Nat /\ last \in Nat /\ read <= last
      /\ read <= MaxFrame /\ MaxFrame \in Nat /\ Frame = 1 .. MaxFrame
      /\ \A f \in Frame : f <= read => v[f] = ts[f]
    BY RefreshFacts, WindowFacts
<1> HIDE DEF v
<1>1. ASSUME NEW f \in From .. read, NEW g \in From .. read, f < g PROVE ts[f] < ts[g]
  <2>1. f \in From .. last /\ g \in From .. last /\ ts[f] = v[f] /\ ts[g] = v[g]
      BY <1>f
  <2> QED
      BY <1>1, <2>1 DEF Ascends, v
<1> QED
    BY <1>1 DEF Steady, Ascends

LEMMA BucketStep == ASSUME WindowTypes, BucketInv, Next PROVE BucketInv'
<1>1. CASE Start
    BY <1>1 DEF Start, Forget, BucketInv
<1>2. ASSUME NEW delta \in Deltas, UpdateTimedelta(delta) PROVE BucketInv'
    BY <1>2 DEF UpdateTimedelta, BucketInv, Steady, Ascends, From
<1>3. ASSUME NEW delay \in Delays, StopCalibration(delay) PROVE BucketInv'
    BY <1>3 DEF StopCalibration, BucketInv, Steady, Ascends, From
<1>4. ASSUME NEW last, NEW start, Refreshing(last, start), RefreshWith(last, start)
      PROVE  BucketInv'
  <2> DEFINE v == Stamp(last, start)
  <2>e. /\ read' = last /\ origin' = From /\ ts' = v
        /\ failed' => \E fl \in ACTIVE_FLOWS : \E f \in Of(fl, New(last)) : v[f] < lastts[fl]
        /\ \E done \in SUBSET ACTIVE_FLOWS :
              lastts' = [fl \in ACTIVE_FLOWS |->
                 IF fl \in done THEN Latest(fl, last, start) ELSE lastts[fl]]
      BY <1>4, RefreshEffect
  <2>t. /\ last \in Nat /\ read \in Nat /\ origin \in Nat /\ From \in Nat \ {0}
        /\ read <= last /\ From <= last /\ last <= MaxFrame /\ MaxFrame \in Nat
        /\ Frame = 1 .. MaxFrame /\ From <= read + 1 /\ origin <= read
        /\ origin # None => From = origin
        /\ v \in [Frame -> Int]
        /\ \A f \in Frame : f <= read => v[f] = ts[f]
        /\ \A f \in New(last) : f \in Int /\ read + 1 <= f /\ f <= last
      BY <1>4, RefreshFacts, WindowFacts
  <2>o. origin' # None
      BY <2>e, <2>t DEF None
  <2>s. Steady' <=> Ascends(v, From, last)
    <3>1. From' = From
        BY <2>e, <2>o DEF From
    <3> QED
        BY <2>e, <3>1 DEF Steady, Ascends
  <2>b. Steady' => Steady
      BY <1>4, <2>s, SteadyBefore
  <2> HIDE DEF v
  <2>i. \A fl \in ACTIVE_FLOWS : lastts[fl] \in Int
      BY DEF WindowTypes, KeptTypes
  <2>l. ASSUME Steady', NEW fl \in ACTIVE_FLOWS, lastts[fl] # 0
        PROVE  /\ read \in From .. last /\ lastts[fl] <= v[read] /\ v[read] \in Int
    <3>1. origin # None /\ lastts[fl] <= ts[read]
        BY <2>b, <2>l DEF BucketInv
    <3>2. read \in From .. last /\ read \in Frame
        BY <2>t, <3>1 DEF None
    <3> QED
        BY <2>t, <3>1, <3>2
  \* A frame that is read now is earlier than the bucket's time stamp only if that is still
  \* 0 and its own is negative.
  <2>1. ASSUME Steady', NEW fl \in ACTIVE_FLOWS, NEW f \in Of(fl, New(last)), v[f] < lastts[fl]
        PROVE  v[From] < 0
    <3>1. f \in From .. last /\ f \in Frame /\ f > read /\ From \in From .. last /\ From \in Frame
      <4>1. f \in New(last)
          BY OfFacts
      <4> QED
          BY <2>t, <4>1
    <3>2. v[f] \in Int /\ v[From] \in Int
        BY <2>t, <3>1
    <3>3. lastts[fl] = 0
      <4> SUFFICES ASSUME lastts[fl] # 0 PROVE FALSE
          OBVIOUS
      <4>1. read \in From .. last /\ lastts[fl] <= v[read] /\ v[read] \in Int
          BY <2>1, <2>l
      <4>2. v[read] < v[f]
          BY <2>1, <2>s, <3>1, <4>1 DEF Ascends
      <4> QED
          BY <2>1, <2>i, <3>2, <4>1, <4>2
    <3>4. v[From] <= v[f]
      <4>1. CASE From = f
          BY <3>2, <4>1
      <4>2. CASE From < f
        <5>1. v[From] < v[f]
            BY <2>1, <2>s, <3>1, <4>2 DEF Ascends
        <5> QED
            BY <3>2, <5>1
      <4> QED
          BY <2>t, <3>1, <4>1, <4>2
    <3> QED
        BY <2>1, <3>2, <3>3, <3>4
  <2>2. failed' => origin' # None /\ (Steady' => ts'[origin'] < 0)
      BY <2>e, <2>o, <2>1
  <2>3. ASSUME Steady', NEW fl \in ACTIVE_FLOWS PROVE lastts'[fl] = 0 \/ lastts'[fl] <= v[last]
    <3> DEFINE X == {lastts[fl]}
               A == Of(fl, New(last))
               S == X \cup {v[f] : f \in A}
    <3>1. lastts'[fl] = lastts[fl] \/ lastts'[fl] = Max(S)
        BY <2>e DEF Latest, v
    <3>2. Max(S) \in S
      <4>1. A \in SUBSET Frame
        <5>1. \A f \in A : f \in Frame
            BY <2>t, OfFacts
        <5> QED
            BY <5>1
      <4>2. X \in SUBSET Int /\ X \cup A # {} /\ X \subseteq {lastts[fl]} /\ lastts[fl] \in Int
          BY <2>i
      <4> HIDE DEF X, A
      <4> QED
          BY <2>t, <4>1, <4>2, MaxStamp
    <3>3. last \in From .. last /\ last \in Frame /\ v[last] \in Int
        BY <2>t
    <3>4. ASSUME NEW f \in Int, f \in From .. last PROVE v[f] <= v[last]
      <4>1. f = last \/ f < last
          BY <2>t, <3>4
      <4>2. f < last => v[f] < v[last]
          BY <2>3, <2>s, <3>3, <3>4 DEF Ascends
      <4>3. v[f] \in Int
          BY <2>t, <3>4
      <4> QED
          BY <3>3, <4>1, <4>2, <4>3
    <3>5. lastts[fl] = 0 \/ lastts[fl] <= v[last]
      <4> SUFFICES ASSUME lastts[fl] # 0 PROVE lastts[fl] <= v[last]
          OBVIOUS
      <4>1. read \in From .. last /\ lastts[fl] <= v[read] /\ v[read] \in Int
          BY <2>3, <2>l
      <4>2. v[read] <= v[last]
          BY <2>t, <3>4, <4>1
      <4> QED
          BY <2>i, <3>3, <4>1, <4>2
    <3>6. ASSUME NEW f \in A PROVE v[f] <= v[last]
      <4>1. f \in New(last)
          BY OfFacts
      <4>2. f \in Int /\ f \in From .. last
          BY <2>t, <4>1
      <4> QED
          BY <3>4, <4>2
    <3>7. \A y \in S : y = 0 \/ y <= v[last]
        BY <3>5, <3>6
    <3> HIDE DEF S
    <3> QED
        BY <3>1, <3>2, <3>5, <3>7
  <2> QED
      BY <2>2, <2>3, <2>e, <2>o DEF BucketInv
<1> QED
    BY <1>1, <1>2, <1>3, <1>4 DEF Next, Refresh, Refreshing

\* A refresh ends with tsncalc's ValueError, whatever batches, windows, calibrations and
\* restarts there are, only if the first frame of the session has a negative time stamp or a
\* calibration has raised DELAY since (OrderedForBucket, of evaluate_pipe and
\* refresh_buckets).
THEOREM BucketsGetOrdered == Spec => []OrderedForBucket
<1>1. Init => BucketInv
    BY DEF Init, BucketInv
<1>2. ASSUME BucketInv, UNCHANGED vars PROVE BucketInv'
    BY <1>2 DEF BucketInv, Steady, Ascends, From, vars
<1>3. WindowTypes /\ BucketInv /\ [Next]_vars => BucketInv'
    BY <1>2, BucketStep
<1>4. WindowTypes /\ BucketInv => OrderedForBucket
    BY SteadyUnlessRaised DEF BucketInv, OrderedForBucket
<1> QED
    BY <1>1, <1>3, <1>4, WindowTypesAlways, PTL DEF Spec

(***************************************************************************)
(* The columns                                                             *)
(***************************************************************************)

\* LAST_TS is the time stamp of the last frame of this session.
LastOf(fl) ==
    \/ LAST_TS[fl] = -1 /\ \A f \in From .. read : ~Belongs(fl, f)
    \/ \E p \in From .. read :
          /\ Belongs(fl, p) /\ LAST_TS[fl] = ts[p]
          /\ \A q \in p + 1 .. read : ~Belongs(fl, q)

LastInv == \A fl \in Flow \cup {0} : LastOf(fl)

\* The gap of a column begins with the flow's last frame before, no earlier than `from`.
Follows(fl, g, from, v) ==
    \E p \in from .. g.frame - 1 :
        /\ Belongs(fl, p) /\ g.gap = v[g.frame] - v[p]
        /\ \A q \in p + 1 .. g.frame - 1 : ~Belongs(fl, q)

\* A column counts frames of this session and gaps that end with them.
ColumnGood(fl, col, from, to, v) ==
    /\ \A f \in col.frames : f \in from .. to /\ Belongs(fl, f)
    /\ \A g \in col.gaps : g.frame \in col.frames /\ Follows(fl, g, from, v)

\* The frames of a column lie before those of the next one.
ColumnsGood(fl, cols, from, to, v) ==
    \A k \in 1 .. Len(cols) :
        /\ ColumnGood(fl, cols[k], from, to, v)
        /\ \A l \in 1 .. Len(cols) : k < l =>
              \A f \in cols[k].frames, g \in cols[l].frames : f < g

\* A column begins with the earliest time stamp of its frames; they are in the window.
Timely(col, rows, to, v) ==
    /\ col.ts <= v[to]
    /\ \A f \in col.frames : f \in rows /\ v[f] >= col.ts

\* As long as time stamps ascend, columns do so too.
ColumnsTimely(cols, rows, to, v) ==
    \A k \in 1 .. Len(cols) :
        /\ Timely(cols[k], rows, to, v)
        /\ \A l \in 1 .. Len(cols) : k < l => cols[k].ts < cols[l].ts

GoodInv(fl) == ColumnsGood(fl, bins[fl], From, read, ts)
TimelyInv(fl) == Steady => ColumnsTimely(bins[fl], DATA, read, ts)
ColumnsInv(fl) == GoodInv(fl) /\ TimelyInv(fl)

BinsInv == \A fl \in ACTIVE_FLOWS : ColumnsInv(fl)

\* The members of a batch that belong to a flow
LEMMA NewOf ==
    ASSUME WindowTypes, NEW last \in Nat, NEW fl
    PROVE  \A g \in Int : g \in Of(fl, New(last)) <=> read + 1 <= g /\ g <= last /\ Belongs(fl, g)
BY WindowFacts, OfFacts DEF New

\* What LAST_TS says when a line is reached: the flow's last frame before it.
LEMMA LastBeforeFacts ==
    ASSUME WindowTypes, LastInv, NEW last, NEW start, Refreshing(last, start),
           NEW fl \in Flow \cup {0}, NEW f \in New(last)
    PROVE  LET v == Stamp(last, start)
               l == LastBefore(fl, f, New(last), v)
           IN  \/ l = -1 /\ \A q \in From .. f - 1 : ~Belongs(fl, q)
               \/ \E p \in From .. f - 1 :
                     /\ Belongs(fl, p) /\ l = v[p]
                     /\ \A q \in p + 1 .. f - 1 : ~Belongs(fl, q)
<1> DEFINE v == Stamp(last, start)
           l == LastBefore(fl, f, New(last), v)
           earlier == {g \in Of(fl, New(last)) : g < f}
<1> SUFFICES \/ l = -1 /\ \A q \in From .. f - 1 : ~Belongs(fl, q)
             \/ \E p \in From .. f - 1 :
                   /\ Belongs(fl, p) /\ l = v[p]
                   /\ \A q \in p + 1 .. f - 1 : ~Belongs(fl, q)
    OBVIOUS
<1>t. /\ last \in Nat /\ read \in Nat /\ From \in Nat \ {0} /\ From <= read + 1
      /\ New(last) \subseteq Frame /\ Frame = 1 .. MaxFrame /\ read <= MaxFrame /\ MaxFrame \in Nat
      /\ \A g \in Frame : g <= read => v[g] = ts[g]
    BY RefreshFacts, WindowFacts
<1>f. f \in Int /\ f >= read + 1 /\ f <= last
    BY RefreshFacts
<1>m. \A g \in Int : g \in earlier <=> read + 1 <= g /\ g < f /\ Belongs(fl, g)
  <2>1. \A g \in Int : g \in Of(fl, New(last)) <=> read + 1 <= g /\ g <= last /\ Belongs(fl, g)
      BY <1>t, NewOf
  <2> QED
      BY <1>t, <1>f, <2>1
<1> HIDE DEF v
<1>1. CASE earlier = {}
  <2>1. l = LAST_TS[fl]
      BY <1>1 DEF LastBefore
  <2>n. \A q \in Int : q >= read + 1 /\ q <= f - 1 => ~Belongs(fl, q)
      BY <1>1, <1>m, <1>t, <1>f
  <2>2. CASE LAST_TS[fl] = -1 /\ \A q \in From .. read : ~Belongs(fl, q)
    <3>1. ASSUME NEW q \in From .. f - 1 PROVE ~Belongs(fl, q)
        BY <1>t, <1>f, <2>n, <2>2
    <3> QED
        BY <2>1, <2>2, <3>1
  <2>3. CASE \E p \in From .. read :
                /\ Belongs(fl, p) /\ LAST_TS[fl] = ts[p]
                /\ \A q \in p + 1 .. read : ~Belongs(fl, q)
    <3>1. PICK p \in From .. read :
             /\ Belongs(fl, p) /\ LAST_TS[fl] = ts[p]
             /\ \A q \in p + 1 .. read : ~Belongs(fl, q)
        BY <2>3
    <3>2. p \in From .. f - 1 /\ p \in Frame /\ p <= read
        BY <1>t, <1>f
    <3>3. l = v[p]
        BY <1>t, <2>1, <3>1, <3>2
    <3>4. ASSUME NEW q \in p + 1 .. f - 1 PROVE ~Belongs(fl, q)
        BY <1>t, <1>f, <2>n, <3>1
    <3> QED
        BY <3>1, <3>2, <3>3, <3>4
  <2> QED
      BY <2>2, <2>3 DEF LastInv, LastOf
<1>2. CASE earlier # {}
  <2> DEFINE p == Max(earlier)
  <2>1. l = v[p]
      BY <1>2 DEF LastBefore
  <2>2. p \in earlier /\ \A g \in earlier : g <= p
    <3>1. earlier \in SUBSET Frame
        BY <1>t, OfFacts
    <3> HIDE DEF earlier
    <3> QED
        BY <1>2, <3>1, LastFrame
  <2>3. p \in Int
      BY <1>t, <2>2, OfFacts
  <2> HIDE DEF p, earlier
  <2>4. p \in From .. f - 1 /\ Belongs(fl, p)
      BY <1>m, <1>t, <1>f, <2>2, <2>3
  <2>5. ASSUME NEW q \in p + 1 .. f - 1 PROVE ~Belongs(fl, q)
    <3>1. Belongs(fl, q) => q \in earlier
        BY <1>m, <1>t, <1>f, <2>2, <2>3
    <3> QED
        BY <1>f, <2>2, <2>3, <3>1
  <2> HIDE DEF l
  <2> QED
      BY <2>1, <2>4, <2>5
<1> QED
    BY <1>1, <1>2

LEMMA LastStep == ASSUME WindowTypes, LastInv, Next PROVE LastInv'
<1>i. LastInv' <=> \A fl \in Flow \cup {0} : LastOf(fl)'
    BY DEF LastInv
<1>1. CASE Start
  <2>1. From' = read + 1 /\ read' = read
      BY <1>1 DEF Start, Forget, From
  <2>2. read + 1 .. read = {}
      BY WindowFacts
  <2> SUFFICES ASSUME NEW fl \in Flow \cup {0} PROVE LastOf(fl)'
      BY <1>i
  <2>3. LAST_TS'[fl] = -1
      BY <1>1 DEF Start, Forget
  <2> QED
      BY <2>1, <2>2, <2>3 DEF LastOf
<1>2. ASSUME NEW delta \in Deltas, UpdateTimedelta(delta) PROVE LastInv'
    BY <1>2 DEF UpdateTimedelta, LastInv, LastOf, Belongs, From
<1>3. ASSUME NEW delay \in Delays, StopCalibration(delay) PROVE LastInv'
    BY <1>3 DEF StopCalibration, LastInv, LastOf, Belongs, From
<1>4. ASSUME NEW last, NEW start, Refreshing(last, start), RefreshWith(last, start)
      PROVE  LastInv'
  <2> DEFINE v == Stamp(last, start)
  <2>e. /\ read' = last /\ origin' = From /\ flowOf' = flowOf /\ ts' = v
        /\ LAST_TS' = [fl \in DOMAIN LAST_TS |->
              IF Of(fl, New(last)) = {} THEN LAST_TS[fl] ELSE v[Max(Of(fl, New(last)))]]
      BY <1>4, RefreshEffect
  <2>t. /\ last \in Nat /\ read \in Nat /\ read <= last
        /\ New(last) \subseteq Frame /\ Frame = 1 .. MaxFrame /\ read <= MaxFrame
        /\ MaxFrame \in Nat
        /\ From \in Nat \ {0} /\ From <= read + 1
        /\ \A g \in Frame : g <= read => v[g] = ts[g]
      BY <1>4, RefreshFacts, WindowFacts
  <2>o. From' = From
      BY <2>e, <2>t DEF From, None
  <2> HIDE DEF v
  <2> SUFFICES ASSUME NEW fl \in Flow \cup {0}
               PROVE  \/ LAST_TS'[fl] = -1 /\ \A f \in From .. last : ~Belongs(fl, f)
                      \/ \E p \in From .. last :
                            /\ Belongs(fl, p) /\ LAST_TS'[fl] = v[p]
                            /\ \A q \in p + 1 .. last : ~Belongs(fl, q)
    <3> SUFFICES ASSUME NEW fl \in Flow \cup {0},
                        \/ LAST_TS'[fl] = -1 /\ \A f \in From .. last : ~Belongs(fl, f)
                        \/ \E p \in From .. last :
                              /\ Belongs(fl, p) /\ LAST_TS'[fl] = v[p]
                              /\ \A q \in p + 1 .. last : ~Belongs(fl, q)
                 PROVE  LastOf(fl)'
        BY <1>i
    <3> QED
        BY <2>e, <2>o DEF LastOf, Belongs
  <2>a. fl \in DOMAIN LAST_TS
      BY DEF WindowTypes, KeptTypes
  <2>m. \A g \in Int : g \in Of(fl, New(last)) <=> read + 1 <= g /\ g <= last /\ Belongs(fl, g)
      BY <2>t, NewOf
  <2>1. CASE Of(fl, New(last)) = {}
    <3>1. LAST_TS'[fl] = LAST_TS[fl]
        BY <2>1, <2>a, <2>e
    <3>n. \A g \in Int : g >= read + 1 /\ g <= last => ~Belongs(fl, g)
        BY <2>1, <2>m
    <3>2. CASE LAST_TS[fl] = -1 /\ \A f \in From .. read : ~Belongs(fl, f)
      <4>1. ASSUME NEW g \in From .. last PROVE ~Belongs(fl, g)
          BY <2>t, <3>2, <3>n
      <4> QED
          BY <3>1, <3>2, <4>1
    <3>3. CASE \E p \in From .. read :
                  /\ Belongs(fl, p) /\ LAST_TS[fl] = ts[p]
                  /\ \A q \in p + 1 .. read : ~Belongs(fl, q)
      <4>1. PICK p \in From .. read :
               /\ Belongs(fl, p) /\ LAST_TS[fl] = ts[p]
               /\ \A q \in p + 1 .. read : ~Belongs(fl, q)
          BY <3>3
      <4>2. p \in From .. last /\ p \in Frame /\ p <= read
          BY <2>t
      <4>3. LAST_TS'[fl] = v[p]
          BY <2>t, <3>1, <4>1, <4>2
      <4>4. ASSUME NEW q \in p + 1 .. last PROVE ~Belongs(fl, q)
          BY <2>t, <3>n, <4>1
      <4> QED
          BY <4>1, <4>2, <4>3, <4>4
    <3> QED
        BY <3>2, <3>3 DEF LastInv, LastOf
  <2>2. CASE Of(fl, New(last)) # {}
    <3> DEFINE A == Of(fl, New(last))
               p == Max(A)
    <3>1. A \in SUBSET Frame /\ A # {} /\ LAST_TS'[fl] = v[p]
        BY <2>2, <2>a, <2>e, <2>t, OfFacts
    <3> HIDE DEF A
    <3>2. p \in A /\ \A g \in A : g <= p
        BY <3>1, LastFrame
    <3>3. p \in Int
      <4>1. p \in Frame
          BY <3>1, <3>2
      <4> QED
          BY <4>1 DEF Frame
    <3> HIDE DEF p
    <3>4. p \in From .. last /\ Belongs(fl, p)
        BY <2>m, <2>t, <3>2, <3>3 DEF A
    <3>5. ASSUME NEW q \in p + 1 .. last PROVE ~Belongs(fl, q)
      <4>1. Belongs(fl, q) => q \in A
          BY <2>m, <2>t, <3>2, <3>3 DEF A
      <4> QED
          BY <3>2, <3>3, <4>1
    <3> QED
        BY <3>1, <3>4, <3>5
  <2> QED
      BY <2>1, <2>2
<1> QED
    BY <1>1, <1>2, <1>3, <1>4 DEF Next, Refresh, Refreshing

\* The gaps a refresh counts begin with the frame before, whatever the batches.
LEMMA GapsGood ==
    ASSUME WindowTypes, LastInv, NEW last, NEW start, Refreshing(last, start),
           NEW fl \in ACTIVE_FLOWS, NEW g \in Gaps(fl, New(last), Stamp(last, start))
    PROVE  g.frame \in Counted(fl, New(last)) /\ Follows(fl, g, From, Stamp(last, start))
<1> DEFINE v == Stamp(last, start)
           A == New(last)
           before(fl2, f) == LastBefore(fl2, f, A, v)
<1>1. PICK f \in Counted(fl, A) : /\ g = [frame |-> f, gap |-> v[f] - before(fl, f)]
                                  /\ before(flowOf[f], f) > -1
    BY DEF Gaps
<1> DEFINE l == before(fl, f)
           m == before(flowOf[f], f)
<1>2. f \in A /\ Belongs(fl, f) /\ flowOf[f] \in ACTIVE_FLOWS
    BY DEF Counted, Of, Belongs
<1>t. ACTIVE_FLOWS \subseteq Flow \cup {0}
    BY WindowFacts
<1>3. \/ l = -1 /\ \A q \in From .. f - 1 : ~Belongs(fl, q)
      \/ \E p \in From .. f - 1 :
            /\ Belongs(fl, p) /\ l = v[p]
            /\ \A q \in p + 1 .. f - 1 : ~Belongs(fl, q)
    BY <1>2, <1>t, LastBeforeFacts
<1>4. \/ m = -1
      \/ \E p \in From .. f - 1 : Belongs(flowOf[f], p)
  <2>1. flowOf[f] \in Flow \cup {0}
      BY <1>2, <1>t
  <2> QED
      BY <1>2, <2>1, LastBeforeFacts
<1>5. g = [frame |-> f, gap |-> v[f] - l] /\ m > -1
    BY <1>1
<1> HIDE DEF A, before, l, m, v
<1>6. \E p \in From .. f - 1 : Belongs(fl, p)
  <2>1. m # -1
      BY <1>5
  <2>2. PICK p \in From .. f - 1 : Belongs(flowOf[f], p)
      BY <1>4, <2>1
  <2>3. Belongs(fl, p)
    <3>1. flowOf[f] # 0
      <4>1. f \in Frame
          BY <1>2, RefreshFacts DEF A
      <4>2. flowOf[f] \in Flow
          BY <4>1 DEF WindowTypes, ReadTypes
      <4> QED
          BY <4>2, WindowFacts
    <3> QED
        BY <1>2, <2>2, <3>1 DEF Belongs
  <2> QED
      BY <2>3
<1>7. PICK p \in From .. f - 1 :
         /\ Belongs(fl, p) /\ l = v[p]
         /\ \A q \in p + 1 .. f - 1 : ~Belongs(fl, q)
    BY <1>3, <1>6
<1>8. g.frame = f /\ g.gap = v[g.frame] - v[p]
    BY <1>5, <1>7
<1> QED
    BY <1>1, <1>7, <1>8 DEF Follows, A, v

\* Where a session goes on, its columns keep what they say.
LEMMA ColumnGoodStays ==
    ASSUME WindowTypes, NEW last, NEW start, Refreshing(last, start),
           NEW fl, NEW col \in Column, ColumnGood(fl, col, From, read, ts)
    PROVE  ColumnGood(fl, col, From, last, Stamp(last, start))
<1> DEFINE v == Stamp(last, start)
<1>t. /\ last \in Nat /\ read \in Nat /\ read <= last /\ From \in Nat \ {0}
      /\ Frame = 1 .. MaxFrame /\ read <= MaxFrame /\ MaxFrame \in Nat
      /\ \A f \in Frame : f <= read => v[f] = ts[f]
    BY RefreshFacts, WindowFacts
<1> HIDE DEF v
<1>1. ASSUME NEW f \in col.frames PROVE f \in From .. last /\ Belongs(fl, f)
  <2>1. f \in From .. read /\ Belongs(fl, f)
      BY DEF ColumnGood
  <2> QED
      BY <1>t, <2>1
<1>2. ASSUME NEW g \in col.gaps PROVE g.frame \in col.frames /\ Follows(fl, g, From, v)
  <2>1. g.frame \in col.frames /\ Follows(fl, g, From, ts)
      BY DEF ColumnGood
  <2>2. g.frame \in From .. read
      BY <2>1 DEF ColumnGood
  <2>3. PICK p \in From .. g.frame - 1 :
           /\ Belongs(fl, p) /\ g.gap = ts[g.frame] - ts[p]
           /\ \A q \in p + 1 .. g.frame - 1 : ~Belongs(fl, q)
      BY <2>1 DEF Follows
  <2>4. ts[g.frame] = v[g.frame] /\ ts[p] = v[p]
    <3> DEFINE f == g.frame
    <3>1. f \in From .. read /\ p \in From .. f - 1
        BY <2>2
    <3> HIDE DEF f
    <3>2. f \in Frame /\ f <= read /\ p \in Frame /\ p <= read
        BY <1>t, <3>1
    <3>3. ts[f] = v[f] /\ ts[p] = v[p]
        BY <1>t, <3>2
    <3> QED
        BY <3>3 DEF f
  <2>5. Follows(fl, g, From, v)
      BY <2>3, <2>4 DEF Follows
  <2> QED
      BY <2>1, <2>5
<1> QED
    BY <1>1, <1>2 DEF ColumnGood, v

\* The column of a batch
LEMMA ColumnOfFacts ==
    ASSUME WindowTypes, LastInv, NEW last, NEW start, Refreshing(last, start),
           NEW fl \in ACTIVE_FLOWS, New(last) # {}
    PROVE  LET col == ColumnOf(fl, last, start)
               v == Stamp(last, start)
           IN  /\ col \in Column /\ ColumnGood(fl, col, From, last, v)
               /\ \A f \in col.frames : f \in New(last)
               /\ Ascends(v, From, last) => Timely(col, Rows(last), last, v)
               /\ col.ts = v[read + 1]
<1> DEFINE col == ColumnOf(fl, last, start)
           v == Stamp(last, start)
<1>t. /\ last \in Nat /\ read \in Nat /\ read <= last /\ From \in Nat \ {0} /\ From <= read + 1
      /\ Frame = 1 .. MaxFrame /\ last <= MaxFrame /\ MaxFrame \in Nat
      /\ v \in [Frame -> Int]
      /\ \A f \in New(last) : f \in Int /\ read + 1 <= f /\ f <= last
      /\ read + 1 \in New(last)
    BY RefreshFacts, WindowFacts
<1>1. col \in Column
    BY ColumnType
<1>2. /\ col.ts = v[read + 1]
      /\ col.frames = Counted(fl, New(last)) /\ col.gaps = Gaps(fl, New(last), v)
    BY DEF ColumnOf
<1>3. ASSUME NEW f \in col.frames PROVE f \in New(last) /\ Belongs(fl, f)
    BY <1>2 DEF Counted, Of, Belongs
<1>4. ASSUME NEW g \in col.gaps PROVE g.frame \in col.frames /\ Follows(fl, g, From, v)
    BY <1>2, GapsGood
<1> HIDE DEF col, v
<1>5. ASSUME NEW f \in col.frames PROVE f \in From .. last
    BY <1>t, <1>3
<1>6. ColumnGood(fl, col, From, last, v)
    BY <1>3, <1>4, <1>5 DEF ColumnGood
<1>7. ASSUME Ascends(v, From, last) PROVE Timely(col, Rows(last), last, v)
  <2>1. ASSUME NEW f \in Int, NEW g \in Int, From <= f, f <= g, g <= last PROVE v[f] <= v[g]
    <3>1. f \in From .. last /\ g \in From .. last /\ f \in Frame /\ g \in Frame
        BY <1>t, <2>1
    <3>2. v[f] \in Int /\ v[g] \in Int
        BY <1>t, <3>1
    <3>3. f < g => v[f] < v[g]
        BY <1>7, <3>1 DEF Ascends
    <3>4. f = g \/ f < g
        BY <2>1
    <3> QED
        BY <3>2, <3>3, <3>4
  <2>2. col.ts <= v[last]
    <3>1. v[read + 1] <= v[last]
        BY <1>t, <2>1
    <3> QED
        BY <1>2, <3>1
  <2>3. ASSUME NEW f \in col.frames PROVE f \in Rows(last) /\ v[f] >= col.ts
    <3>1. f \in New(last)
        BY <1>3
    <3>2. v[read + 1] <= v[f]
        BY <1>t, <2>1, <3>1
    <3>3. v[f] \in Int /\ v[read + 1] \in Int
        BY <1>t, <3>1
    <3> QED
        BY <1>2, <3>1, <3>2, <3>3 DEF Rows
  <2> QED
      BY <2>2, <2>3 DEF Timely
<1> QED
    BY <1>1, <1>2, <1>3, <1>6, <1>7 DEF col, v

\* What columns there are after a refresh, before the old ones go
LEMMA ColumnsPushed ==
    ASSUME WindowTypes, LastInv, NEW last, NEW start, Refreshing(last, start),
           NEW fl \in ACTIVE_FLOWS, ColumnsInv(fl)
    PROVE  LET cols == Pushed(fl, last, start)
               v == Stamp(last, start)
           IN  /\ cols \in Seq(Column)
               /\ ColumnsGood(fl, cols, From, last, v)
               /\ Ascends(v, From, last) => ColumnsTimely(cols, Rows(last), last, v)
<1> DEFINE v == Stamp(last, start)
           cols == Pushed(fl, last, start)
           old == bins[fl]
           new == ColumnOf(fl, last, start)
           n == Len(old)
           A == New(last)
           R == Rows(last)
<1>1. old \in Seq(Column) /\ cols \in Seq(Column)
    BY PushedType DEF WindowTypes, KeptTypes
<1>t. /\ last \in Nat /\ read \in Nat /\ read <= last /\ From \in Nat \ {0} /\ From <= read + 1
      /\ Frame = 1 .. MaxFrame /\ last <= MaxFrame /\ MaxFrame \in Nat
      /\ v \in [Frame -> Int]
      /\ \A f \in Frame : f <= read => v[f] = ts[f]
      /\ \A f \in A : f \in Int /\ read + 1 <= f /\ f <= last
      /\ A # {} => read + 1 \in A
      /\ DATA \subseteq R
      /\ From <= last
    BY RefreshFacts, WindowFacts DEF Rows
<1>s. Ascends(v, From, last) => Steady
    BY SteadyBefore
<1>n. A # {} => /\ new \in Column /\ ColumnGood(fl, new, From, last, v)
                /\ \A f \in new.frames : f \in A
                /\ Ascends(v, From, last) => Timely(new, R, last, v)
                /\ new.ts = v[read + 1]
    BY ColumnOfFacts
<1>h. n = Len(old)
    OBVIOUS
<1>2. /\ n \in Nat /\ \A k \in 1 .. n : old[k] \in Column
      /\ A = {} => cols = old /\ Len(cols) = n
      /\ A # {} => /\ Len(cols) = n + 1 /\ cols[n + 1] = new
                   /\ \A k \in 1 .. n : cols[k] = old[k]
  <2>1. n \in Nat /\ \A k \in 1 .. n : old[k] \in Column
      BY <1>1, LenProperties, ElementOfSeq
  <2>2. A = {} => cols = old
      BY DEF Pushed
  <2>3. ASSUME A # {}
        PROVE  Len(cols) = n + 1 /\ cols[n + 1] = new /\ \A k \in 1 .. n : cols[k] = old[k]
    <3>1. cols = Append(old, new)
        BY <2>3 DEF Pushed
    <3> HIDE DEF cols, old, new
    <3> QED
        BY <1>1, <1>n, <2>3, <3>1, AppendProperties
  <2> QED
      BY <2>1, <2>2, <2>3
<1>g. ColumnsGood(fl, old, From, read, ts)
    BY DEF ColumnsInv, GoodInv
<1>o. Ascends(v, From, last) => ColumnsTimely(old, DATA, read, ts)
    BY <1>s DEF ColumnsInv, TimelyInv
<1>3. ASSUME NEW k \in 1 .. n PROVE ColumnGood(fl, old[k], From, last, v)
  <2>1. old[k] \in Column /\ ColumnGood(fl, old[k], From, read, ts)
      BY <1>2, <1>g DEF ColumnsGood
  <2> QED
      BY <2>1, ColumnGoodStays
<1>p. ASSUME n # 0 PROVE From <= read
  <2>1. START_TIME = None => n = 0
      BY DEF WindowTypes, KeptTypes
  <2>2. origin # None
      BY <1>p, <2>1 DEF WindowTypes, ReadTypes
  <2> QED
      BY <2>2, WindowFacts
<1> HIDE DEF v, cols, old, new, n, A, R
<1>4. ASSUME NEW k \in 1 .. Len(cols)
      PROVE  k \in 1 .. n \/ (A # {} /\ k = n + 1 /\ cols[k] = new)
      BY <1>2
<1>k. \A k \in 1 .. n : cols[k] = old[k]
    BY <1>2
<1>5. ASSUME NEW k \in 1 .. Len(cols) PROVE ColumnGood(fl, cols[k], From, last, v)
    BY <1>3, <1>4, <1>n, <1>k
<1>6. ASSUME NEW k \in 1 .. Len(cols), NEW l \in 1 .. Len(cols), k < l,
             NEW f \in cols[k].frames, NEW g \in cols[l].frames
      PROVE  f < g
  <2>1. k \in 1 .. n /\ cols[k] = old[k]
      BY <1>2, <1>4, <1>6, <1>k
  <2>2. CASE l \in 1 .. n
      BY <1>6, <1>g, <1>h, <1>k, <2>1, <2>2 DEF ColumnsGood
  <2>3. CASE A # {} /\ l = n + 1 /\ cols[l] = new
    <3>1. g \in A
        BY <1>n, <2>3
    <3>2. f \in From .. read
        BY <1>g, <1>h, <2>1 DEF ColumnsGood, ColumnGood
    <3> QED
        BY <1>t, <3>1, <3>2
  <2> QED
      BY <1>4, <2>2, <2>3
<1>7. ColumnsGood(fl, cols, From, last, v)
    BY <1>5, <1>6 DEF ColumnsGood
<1>8. ASSUME Ascends(v, From, last) PROVE ColumnsTimely(cols, R, last, v)
  <2>1. ASSUME NEW k \in 1 .. n
        PROVE  /\ old[k].ts \in Int /\ old[k].ts <= v[read] /\ Timely(old[k], R, last, v)
    <3> DEFINE col == old[k]
    <3>1. Timely(col, DATA, read, ts) /\ ColumnGood(fl, col, From, read, ts) /\ col \in Column
        BY <1>8, <1>2, <1>h, <1>o, <1>g DEF ColumnsTimely, ColumnsGood
    <3>2. read \in From .. last /\ last \in From .. last /\ read \in Frame /\ last \in Frame
      <4>1. From <= read
          BY <1>2, <1>p
      <4> QED
          BY <1>t, <4>1
    <3>3. ts[read] = v[read] /\ v[read] \in Int /\ v[last] \in Int
        BY <1>t, <3>2
    <3>4. v[read] <= v[last]
      <4>1. read < last => v[read] < v[last]
          BY <1>8, <3>2 DEF Ascends
      <4> QED
          BY <1>t, <3>3, <4>1
    <3> HIDE DEF col
    <3>5. col.ts \in Int /\ col.ts <= ts[read]
        BY <3>1 DEF Column, Timely
    <3>6. ASSUME NEW f \in col.frames PROVE f \in R /\ v[f] >= col.ts
      <4>1. f \in DATA /\ ts[f] >= col.ts /\ f \in From .. read
          BY <3>1 DEF Timely, ColumnGood
      <4>2. f \in Frame /\ f <= read
          BY <1>t, <4>1
      <4> QED
          BY <1>t, <4>1, <4>2
    <3>7. Timely(col, R, last, v)
        BY <3>3, <3>4, <3>5, <3>6 DEF Timely
    <3> QED
        BY <3>3, <3>5, <3>7 DEF col
  <2>2. ASSUME NEW k \in 1 .. Len(cols) PROVE Timely(cols[k], R, last, v)
      BY <1>4, <1>8, <1>n, <1>k, <2>1
  <2>3. ASSUME NEW k \in 1 .. Len(cols), NEW l \in 1 .. Len(cols), k < l
        PROVE  cols[k].ts < cols[l].ts
    <3>1. k \in 1 .. n /\ cols[k] = old[k]
        BY <1>2, <1>4, <2>3, <1>k
    <3>2. CASE l \in 1 .. n
        BY <1>8, <1>h, <1>o, <1>k, <2>3, <3>1, <3>2 DEF ColumnsTimely
    <3>3. CASE A # {} /\ l = n + 1 /\ cols[l] = new
      <4>1. From <= read
          BY <1>2, <1>p, <3>1
      <4>2. read \in From .. last /\ read + 1 \in From .. last /\ read \in Frame /\ read + 1 \in Frame
          BY <1>t, <3>3, <4>1
      <4>3. v[read] < v[read + 1] /\ v[read] \in Int /\ v[read + 1] \in Int
          BY <1>t, <1>8, <4>2 DEF Ascends
      <4>4. cols[k].ts \in Int /\ cols[k].ts <= v[read] /\ cols[l].ts = v[read + 1]
          BY <1>n, <2>1, <3>1, <3>3
      <4> QED
          BY <4>3, <4>4
    <3> QED
        BY <1>4, <3>2, <3>3
  <2> QED
      BY <2>2, <2>3 DEF ColumnsTimely
<1> QED
    BY <1>1, <1>7, <1>8 DEF cols, v, R

\* What columns stay, once the old ones are gone
LEMMA ColumnsStep == ASSUME WindowTypes, LastInv, BinsInv, Next PROVE BinsInv'
<1>i. BinsInv' <=> \A fl \in ACTIVE_FLOWS : ColumnsInv(fl)'
    BY DEF BinsInv
<1> SUFFICES ASSUME NEW fl \in ACTIVE_FLOWS PROVE ColumnsInv(fl)'
    BY <1>i
<1>c. ColumnsInv(fl)
    BY DEF BinsInv
<1>1. CASE Start
  <2>1. bins'[fl] = <<>>
      BY <1>1 DEF Start, Forget
  <2>2. Len(bins'[fl]) = 0
      BY <2>1
  <2> QED
      BY <2>2 DEF ColumnsInv, GoodInv, TimelyInv, ColumnsGood, ColumnsTimely
<1>2. ASSUME NEW delta \in Deltas, UpdateTimedelta(delta) PROVE ColumnsInv(fl)'
    BY <1>c, <1>2 DEF UpdateTimedelta, ColumnsInv, GoodInv, TimelyInv, ColumnsGood, ColumnGood,
                      ColumnsTimely, Timely, Follows, Belongs, Steady, Ascends, From
<1>3. ASSUME NEW delay \in Delays, StopCalibration(delay) PROVE ColumnsInv(fl)'
    BY <1>c, <1>3 DEF StopCalibration, ColumnsInv, GoodInv, TimelyInv, ColumnsGood, ColumnGood,
                      ColumnsTimely, Timely, Follows, Belongs, Steady, Ascends, From
<1>4. ASSUME NEW last, NEW start, Refreshing(last, start), RefreshWith(last, start)
      PROVE  ColumnsInv(fl)'
  <2> DEFINE v == Stamp(last, start)
             t == MinTs(last, start)
             cols == Pushed(fl, last, start)
             n == Cardinality({k \in 1 .. Len(cols) : cols[k].ts < t})
             kept == OlderDropped(cols, t)
             rows == Rows(last) \ Old(last, start)
  <2>e. /\ read' = last /\ origin' = From /\ flowOf' = flowOf /\ ts' = v
        /\ DATA' = rows /\ bins'[fl] = kept
      BY <1>4, RefreshEffect
  <2>f. From' = From
      BY <2>e, WindowFacts DEF From, None
  <2>2. /\ cols \in Seq(Column) /\ ColumnsGood(fl, cols, From, last, v)
        /\ Ascends(v, From, last) => ColumnsTimely(cols, Rows(last), last, v)
      BY <1>4, <1>c, ColumnsPushed
  <2>t. t \in Int /\ v \in [Frame -> Int] /\ Rows(last) \subseteq Frame
      BY <1>4, RefreshFacts
  <2>o. \A f \in Rows(last) : v[f] >= t => f \in rows
      BY <2>t DEF Old
  <2> HIDE DEF v, t, cols, rows
  <2>3. /\ n \in 0 .. Len(cols) /\ kept \in Seq(Column) /\ Len(kept) = Len(cols) - n
        /\ \A k \in 1 .. Len(kept) : n + k \in 1 .. Len(cols) /\ kept[k] = cols[n + k]
      BY <2>2, <2>t, DroppedType
  <2>4. ASSUME Ascends(v, From, last), NEW k \in 1 .. Len(cols), k > n PROVE cols[k].ts >= t
    <3>1. \A i, j \in 1 .. Len(cols) : i < j => cols[i].ts < cols[j].ts
        BY <2>2, <2>4 DEF ColumnsTimely
    <3> QED
        BY <2>2, <2>4, <2>t, <3>1, DroppedOlder
  <2> HIDE DEF n, kept
  <2>l. Len(cols) \in Nat
      BY <2>2, LenProperties
  <2>k. ASSUME NEW k \in 1 .. Len(kept)
        PROVE  n + k \in 1 .. Len(cols) /\ kept[k] = cols[n + k] /\ n + k > n
      BY <2>3, <2>l
  <2>m. ASSUME NEW k \in 1 .. Len(kept), NEW l \in 1 .. Len(kept), k < l PROVE n + k < n + l
      BY <2>3, <2>l, <2>m
  <2>5. ColumnsGood(fl, kept, From, last, v)
    <3>1. ASSUME NEW k \in 1 .. Len(kept) PROVE ColumnGood(fl, kept[k], From, last, v)
        BY <2>2, <2>k DEF ColumnsGood
    <3>2. ASSUME NEW k \in 1 .. Len(kept), NEW l \in 1 .. Len(kept), k < l,
                 NEW f \in kept[k].frames, NEW g \in kept[l].frames
          PROVE  f < g
        BY <2>2, <2>k, <2>m, <3>2 DEF ColumnsGood
    <3> QED
        BY <3>1, <3>2 DEF ColumnsGood
  <2>6. ASSUME Ascends(v, From, last) PROVE ColumnsTimely(kept, rows, last, v)
    <3>1. ASSUME NEW k \in 1 .. Len(kept) PROVE Timely(kept[k], rows, last, v)
      <4> DEFINE j == n + k
                 col == cols[j]
      <4>1. j \in 1 .. Len(cols) /\ kept[k] = col /\ j > n
          BY <2>k
      <4>2. col.ts >= t /\ col \in Column
          BY <2>2, <2>4, <2>6, <4>1, ElementOfSeq
      <4>3. Timely(col, Rows(last), last, v)
          BY <2>2, <2>6, <4>1 DEF ColumnsTimely
      <4> HIDE DEF j, col
      <4>4. ASSUME NEW f \in col.frames PROVE f \in rows
        <5>1. f \in Rows(last) /\ v[f] >= col.ts /\ col.ts \in Int
            BY <4>2, <4>3 DEF Timely, Column
        <5>2. v[f] \in Int
            BY <2>t, <5>1
        <5>3. v[f] >= t
            BY <2>t, <4>2, <5>1, <5>2
        <5> QED
            BY <2>o, <5>1, <5>3
      <4>5. Timely(col, rows, last, v)
          BY <4>3, <4>4 DEF Timely
      <4> QED
          BY <4>1, <4>5
    <3>2. ASSUME NEW k \in 1 .. Len(kept), NEW l \in 1 .. Len(kept), k < l
          PROVE  kept[k].ts < kept[l].ts
        BY <2>2, <2>6, <2>k, <2>m, <3>2 DEF ColumnsTimely
    <3> QED
        BY <3>1, <3>2 DEF ColumnsTimely
  <2>7. GoodInv(fl)'
      BY <2>5, <2>e, <2>f DEF GoodInv, ColumnsGood, ColumnGood, Follows, Belongs
  <2>8. TimelyInv(fl)'
    <3>1. Steady' <=> Ascends(v, From, last)
        BY <2>e, <2>f DEF Steady, Ascends
    <3> QED
        BY <2>6, <2>e, <3>1 DEF TimelyInv, ColumnsTimely, Timely
  <2> QED
      BY <2>7, <2>8 DEF ColumnsInv
<1> QED
    BY <1>1, <1>2, <1>3, <1>4 DEF Next, Refresh, Refreshing

LEMMA ColumnsEnough == ASSUME WindowTypes, BinsInv PROVE BinsInWindow
<1> SUFFICES ASSUME NEW fl \in ACTIVE_FLOWS
             PROVE  \A k \in 1 .. Len(bins[fl]) :
                      /\ ~DelayRaised => bins[fl][k].frames \subseteq Of(fl, DATA)
                      /\ \A g \in bins[fl][k].gaps : g.frame \in bins[fl][k].frames /\ Successive(fl, g)
                      /\ \A l \in 1 .. Len(bins[fl]) :
                            k # l => bins[fl][k].frames \cap bins[fl][l].frames = {}
    BY DEF BinsInWindow
<1> DEFINE cols == bins[fl]
           n == Len(cols)
<1>t. /\ n \in Nat /\ Frame \subseteq Int
      /\ From \in Nat \ {0} /\ read \in Nat /\ Session = From .. read
  <2>1. cols \in Seq(Column)
      BY DEF WindowTypes, KeptTypes
  <2>2. Frame \subseteq Int
      BY DEF Frame
  <2> QED
      BY <2>1, <2>2, LenProperties, WindowFacts
<1>1. /\ ColumnsGood(fl, cols, From, read, ts)
      /\ ~DelayRaised => ColumnsTimely(cols, DATA, read, ts)
    BY SteadyUnlessRaised DEF BinsInv, ColumnsInv, GoodInv, TimelyInv
<1> HIDE DEF cols
<1>2. ASSUME NEW k \in 1 .. n, ~DelayRaised PROVE cols[k].frames \subseteq Of(fl, DATA)
  <2>1. Timely(cols[k], DATA, read, ts) /\ ColumnGood(fl, cols[k], From, read, ts)
      BY <1>1, <1>2 DEF ColumnsTimely, ColumnsGood
  <2> QED
      BY <2>1, OfFacts DEF Timely, ColumnGood
<1>3. ASSUME NEW k \in 1 .. n, NEW g \in cols[k].gaps
      PROVE  g.frame \in cols[k].frames /\ Successive(fl, g)
  <2>1. ColumnGood(fl, cols[k], From, read, ts)
      BY <1>1 DEF ColumnsGood
  <2>2. g.frame \in cols[k].frames /\ Follows(fl, g, From, ts) /\ g.frame \in From .. read
      BY <2>1 DEF ColumnGood
  <2>3. PICK p \in From .. g.frame - 1 :
           /\ Belongs(fl, p) /\ g.gap = ts[g.frame] - ts[p]
           /\ \A q \in p + 1 .. g.frame - 1 : ~Belongs(fl, q)
      BY <2>2 DEF Follows
  <2>4. p \in Of(fl, Session) /\ p < g.frame
    <3> DEFINE f == g.frame
    <3>1. f \in From .. read /\ p \in From .. f - 1
        BY <2>2
    <3> HIDE DEF f
    <3>2. p \in From .. read /\ p < f
        BY <1>t, <3>1
    <3> QED
        BY <1>t, <2>3, <3>2, OfFacts DEF f
  <2>5. Of(fl, p + 1 .. g.frame - 1) = {}
    <3> DEFINE between == p + 1 .. g.frame - 1
    <3>1. \A q \in between : ~Belongs(fl, q)
        BY <2>3
    <3> HIDE DEF between
    <3>2. Of(fl, between) = {}
        BY <3>1, OfFacts
    <3> QED
        BY <3>2 DEF between
  <2> QED
      BY <2>2, <2>3, <2>4, <2>5 DEF Successive
<1>4. ASSUME NEW k \in 1 .. n, NEW l \in 1 .. n, k < l
      PROVE  cols[k].frames \cap cols[l].frames = {}
  <2> SUFFICES ASSUME NEW f \in cols[k].frames, f \in cols[l].frames PROVE FALSE
      OBVIOUS
  <2>1. f < f
      BY <1>1, <1>4 DEF ColumnsGood
  <2>2. f \in Int
      BY <1>1, <1>t DEF ColumnsGood, ColumnGood
  <2> QED
      BY <2>1, <2>2
<1>5. ASSUME NEW k \in 1 .. n, NEW l \in 1 .. n, k # l
      PROVE  cols[k].frames \cap cols[l].frames = {}
  <2>1. k < l \/ l < k
      BY <1>t, <1>5
  <2> QED
      BY <1>4, <2>1
<1> QED
    BY <1>2, <1>3, <1>5 DEF cols

\* A histogram counts no frame twice and only inter-arrival times of successive frames, and
\* no frame that has left the window unless a calibration has raised DELAY (BinsInWindow, of
\* evaluate_pipe and drop_older_than), across batches, windows, calibrations and restarts.
THEOREM BinsStayInWindow == Spec => []BinsInWindow
<1>1. Init => LastInv /\ BinsInv
  <2> SUFFICES ASSUME Init PROVE LastInv /\ BinsInv
      OBVIOUS
  <2>1. LastInv
    <3>1. From = 1 /\ read = 0 /\ \A fl \in Flow \cup {0} : LAST_TS[fl] = -1
        BY DEF Init, From
    <3>2. 1 .. 0 = {}
        OBVIOUS
    <3> QED
        BY <3>1, <3>2 DEF LastInv, LastOf
  <2>2. \A fl \in ACTIVE_FLOWS : Len(bins[fl]) = 0
      BY DEF Init
  <2>3. BinsInv
      BY <2>2 DEF BinsInv, ColumnsInv, GoodInv, TimelyInv, ColumnsGood, ColumnsTimely
  <2> QED
      BY <2>1, <2>3
<1>2. ASSUME LastInv, BinsInv, UNCHANGED vars PROVE LastInv' /\ BinsInv'
  <2>1. LastInv'
      BY <1>2 DEF vars, LastInv, LastOf, Belongs, From
  <2>2. BinsInv'
      BY <1>2 DEF vars, BinsInv, ColumnsInv, GoodInv, TimelyInv, ColumnsGood, ColumnGood,
                  ColumnsTimely, Timely, Follows, Belongs, Steady, Ascends, From
  <2> QED
      BY <2>1, <2>2
<1>3. WindowTypes /\ LastInv /\ BinsInv /\ [Next]_vars => LastInv' /\ BinsInv'
    BY <1>2, LastStep, ColumnsStep
<1>4. WindowTypes /\ BinsInv => BinsInWindow
    BY ColumnsEnough
<1> QED
    BY <1>1, <1>3, <1>4, WindowTypesAlways, PTL DEF Spec
=============================================================================
