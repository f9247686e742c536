\* All traffic and one of two flows selected; a window of one or two time units; DELAY is
\* moved back and forth by calibrations.
CONSTANTS
    MaxFrame = 5
    Flow = {1, 2}
    ACTIVE_FLOWS = {0, 1}
    Deltas = {1, 2}
    Delays = {0, 2}
SPECIFICATION Spec
INVARIANTS
    VolumeOfWindow
    BinsInWindow
    OrderedForBucket
