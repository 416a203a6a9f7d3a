SPECIFICATION FairSpec
CONSTANT Groups <- AllGroups
CHECK_DEADLOCK FALSE
INVARIANTS
    TypeOK
    RunningMeansAll
    NothingLeft
    OutcomeTells
PROPERTIES
    CoreEnds
    OutcomeSpec
