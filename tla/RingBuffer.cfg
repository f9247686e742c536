CONSTANTS
    Capacity = 3
    Piece = {lo, hi}
    Value = {v1, v2}
    Zero = zero
SPECIFICATION FairSpec
INVARIANTS
    DisjointAccess
PROPERTIES
    ImplementsFifo
    EveryRecordRead
