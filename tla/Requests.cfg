\* Two threads with one call each, of every function that asks something or sets something
\* with and without a response, through one or two device objects of one uid; three
\* request numbers, which is as many as there are requests, so that none comes twice; one
\* callback that runs at any time.  The program ends.
SPECIFICATION FairSpec
CONSTANTS
    Calls <- MCCalls
    Cycle = 3
    MaxCalls = 1
    MaxCallbacks = 1
INVARIANTS
    TypeOK
    OwnAnswer
    VerdictRight
    DevicesAlive
    TableCurrent
    NoFalseTimeout
PROPERTIES
    CallReturns
CHECK_DEADLOCK FALSE
