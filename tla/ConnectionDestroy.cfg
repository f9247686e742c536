\* The program of Connection.cfg; the client may destroy the connection while it is lost.
CONSTANTS
    MaxSockets = 3
    MaxLosses = 1
    MaxContexts = 2
SPECIFICATION Spec
INVARIANTS
    ThreadsTerminated
CHECK_DEADLOCK FALSE
