SPECIFICATION FairSpec
CONSTANTS
    None = None
PROPERTIES
    WorkEnds
    WellAgain
    ComesToRest
CHECK_DEADLOCK FALSE
