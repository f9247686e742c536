\* What is lost is lost in the kernel rings: the taps deliver every frame.  More
\* frames than slots in either kernel ring, and rings of one record: every
\* queue of the pipeline fills up and every index wraps.
CONSTANTS
    Interface = {1, 2}
    MaxFrame = 3
    FrameNr = 2
    PerBlock = 1
    Capacity = 1
    Lossy = FALSE
    Hash = {1, 2}
    Slots = 2
SPECIFICATION PipelineFairSpec
INVARIANTS
    OwnsWhatItReads
    HandedOver
PROPERTIES
    ImplementsMatcher
    AcceptedIsReported
