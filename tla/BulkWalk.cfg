\* Up to two oids of six, any rows, two changes of the rows.
CONSTANTS
    Name <- Tables
    MaxRequested = 2
    MaxChanges = 2
SPECIFICATION FairSpec
INVARIANTS
    TypeOK
    WalkSound
    WalkComplete
PROPERTIES
    RoundFindsRows
    WalkEnds
CHECK_DEADLOCK FALSE
