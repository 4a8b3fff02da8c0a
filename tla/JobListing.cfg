SPECIFICATION FairSpec
CONSTANTS
    Jobs <- MCJobs
    DefaultListLimit = 2
    MaxListLimit = 3
    Inputs <- MCInputs
    Omitted = omitted
    Malformed = malformed
INVARIANTS
    WalkMissesNothing
    RepeatsAreInserts
PROPERTIES
    WalkEnds
CHECK_DEADLOCK FALSE
