\* One tool for each of Detect, Start and a restart; the pipe of the pairs and one
\* of the two alike pipes of the interfaces.
CONSTANTS
    Pipe = {0, 1}
    PipeSize = 2
    MaxTool = 3
    MaxCal = 1
    MaxLine = 3
SPECIFICATION FairSpec
INVARIANTS
    OneWriter
    LinesKept
PROPERTIES
    FollowedLineRead
