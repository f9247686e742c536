\* Two counts in a row of values around every boundary, in each of the three tables.
CONSTANTS
    Tables <- AllBoundaries
    Value <- AroundAll
SPECIFICATION FairSpec
INVARIANTS
    CountedInItsBin
PROPERTIES
    SearchEnds
