\* Gains and costs on both sides of each other, not all whole bits.
CONSTANTS
    Gain = {0, 1, 3, 7}
    Cost = {2, 4, 6}
    Unit = 2
    MaxPacket = 4
SPECIFICATION BucketSpec
INVARIANTS
    Sufficient
    Minimal
CHECK_DEADLOCK FALSE
