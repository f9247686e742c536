\* A connection that may be lost, the one that replaces it, and one more that comes up with
\* a callback thread of its own when late news of the loss arrive while the client destroys.
\* The program ends, so that states without a successor are expected.
CONSTANTS
    MaxSockets = 3
    MaxLosses = 1
    MaxContexts = 2
SPECIFICATION FairSpec
INVARIANTS
    ProbeHasSocket
PROPERTIES
    HealthyKept
    LossRepaired
    DestroyReturns
CHECK_DEADLOCK FALSE
