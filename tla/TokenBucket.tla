------------------------------ MODULE TokenBucket ------------------------------
(***************************************************************************)
(* ui/tsncalc.py, validate_envelope_bucket_calc: the smallest burst size   *)
(* for which a flow conforms to its rate.  "Bucket starts full but with    *)
(* size 0.  When more tokens are needed than the bucket can offer, correct *)
(* the bucket size (and thereby the fill level) retroactively."            *)
(*                                                                         *)
(* The state survives from batch to batch (refresh_buckets), so the loop   *)
(* body is the only action.  Tokens are counted in fractions of a bit;     *)
(* Unit of them make one bit, the step np.ceil rounds to.  A gain is what  *)
(* the rate yields between two time stamps.  Arithmetic is exact.          *)
(***************************************************************************)
EXTENDS Integers, Sequences

CONSTANTS
    Gain,       \* tokens earned between two packets: rate * (ts - lastts)
    Cost,       \* tokens a packet needs: its size in bits
    Unit,       \* tokens per bit
    MaxPacket   \* packets (bound)

ASSUME BucketAssumption ==
    /\ Gain \subseteq Nat
    /\ Cost \subseteq Nat
    /\ Unit \in Nat \ {0}
    /\ MaxPacket \in Nat

VARIABLES
    filllevel,  \* Bucket.filllevel
    size,       \* Bucket.size
    earned,     \* history: tokens earned until each packet came
    spent       \* history: tokens spent when each packet was through

bucketVars == <<filllevel, size, earned, spent>>

Packets == Len(spent)
Total(history, k) == IF k = 0 THEN 0 ELSE history[k]

\* np.ceil(np.abs(x)) bits, for a deficit of x tokens
CeilBits(x) == x + ((-x) % Unit)

\* Bucket(0, 0, 0)
BucketInit ==
    /\ filllevel = 0
    /\ size = 0
    /\ earned = <<>>
    /\ spent = <<>>

Arrive(gain, cost) ==
    /\ Packets < MaxPacket
    /\ earned' = Append(earned, Total(earned, Packets) + gain)
    /\ spent' = Append(spent, Total(spent, Packets) + cost)

\* Faulty variants of Packet: the level is not limited by the size; the size is
\* corrected and the level is not
PacketUnlimited(gain, cost) ==
    LET level == filllevel + gain - cost
        diff == IF level < 0 THEN CeilBits(-level) ELSE 0
    IN  /\ Arrive(gain, cost)
        /\ filllevel' = level + diff
        /\ size' = size + diff

PacketInDebt(gain, cost) ==
    LET refilled == IF filllevel + gain > size THEN size ELSE filllevel + gain
        level == refilled - cost
        diff == IF level < 0 THEN CeilBits(-level) ELSE 0
    IN  /\ Arrive(gain, cost)
        /\ filllevel' = level
        /\ size' = size + diff

\* One packet: refill, at most to the size; take the tokens; grow if they lack
Packet(gain, cost) ==
    LET refilled == IF filllevel + gain > size THEN size ELSE filllevel + gain
        level == refilled - cost
        diff == IF level < 0 THEN CeilBits(-level) ELSE 0
    IN  /\ Arrive(gain, cost)
        /\ filllevel' = level + diff
        /\ size' = size + diff

BucketNext == \E gain \in Gain, cost \in Cost : Packet(gain, cost)

BucketSpec == BucketInit /\ [][BucketNext]_bucketVars
-------------------------------------------------------------------------------
BucketTypeOK ==
    /\ filllevel \in Nat
    /\ size \in Nat
    /\ earned \in Seq(Nat)
    /\ spent \in Seq(Nat)
    /\ Len(earned) = Packets
    /\ filllevel <= size

\* What packets i to j spent beyond what they earned on the way: the burst they
\* make up
BurstIn(s, e, i, j) == s[j] - Total(s, i - 1) - (e[j] - e[i])
Burst(i, j) == BurstIn(spent, earned, i, j)

\* No stretch of packets makes up a burst above the size: a token bucket of that
\* size, full at the start, lets all of them pass.
Sufficient ==
    \A j \in 1 .. Packets : \A i \in 1 .. j : Burst(i, j) <= size

\* No smaller number of bits would do: some stretch needs the last of them.
Minimal ==
    size > 0 => \E j \in 1 .. Packets : \E i \in 1 .. j : Burst(i, j) > size - Unit

\* The deficit size - filllevel is a burst that ends with the last packet.
\* (With BucketTypeOK and Minimal inductive.)
MinimalInv ==
    /\ Minimal
    /\ Packets = 0 => filllevel = size
    /\ Packets > 0 => \E i \in 1 .. Packets : Burst(i, Packets) = size - filllevel

\* The deficit size - filllevel covers every burst that ends with the last
\* packet.  (With BucketTypeOK and Sufficient inductive.)
EnvelopeInv ==
    /\ Sufficient
    /\ \A i \in 1 .. Packets : Burst(i, Packets) <= size - filllevel
=============================================================================
