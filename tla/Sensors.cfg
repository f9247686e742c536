\* The clock ends two units after the last request; rings of one value are full as soon
\* as the aggregator is late.  The processes may really all end.
CONSTANTS
    Enabled = {"hum", "lig"}
    Capacity = 1
    Batches = {1, 2}
    Delay <- Periods
    Duration = 3
SPECIFICATION FairSpec
INVARIANTS
    OnePerPeriod
    AllAccountedFor
PROPERTIES
    EveryValueTaken
    AllStop
CHECK_DEADLOCK FALSE
