\* The plans of MCLifecycle, and a reader of the pipe that may come late, stay or go
\* away.  A plan need not be carried out: the signals that are sent come at
\* whatever stage, so that the handlers of two processes may meet.
CONSTANT Plans <- StopPlans
SPECIFICATION FairSpec
INVARIANTS
    ClosedOnce
PROPERTIES
    AllStop
    ReaderGoneStops
CHECK_DEADLOCK FALSE
