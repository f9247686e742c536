\* Either arbitrary traffic (repeated frames, lost copies) or that of the bench;
\* contents whose hashes share a table slot, and the hash 0 that is also the mark
\* of an empty slot.
CONSTANTS
    MaxFrame = 3
    Hash = {0, 1, 2, 4}
    Slots = 3
    Capacity = 2
    Traffics <- AnyTraffic
    PerInterface = TRUE
SPECIFICATION FairSpec
INVARIANTS
    LinesMatch
    ReportedOnce
    RawIsAll
    PairsOneFrame
PROPERTIES
    EveryFrameReported
