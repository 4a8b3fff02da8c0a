SPECIFICATION FairSpec
CONSTANTS
    Workers = {w1, w2}
    Jobs = {j1, j2}
    Messages = {m1, m2}
    MaxReceive = 2
    Garbage = garbage
    None = none
    Bodies <- MCBodies
    Faults <- NoFaults
INVARIANTS
    ProcessingIsOwned
    DeadLettersAreFailures
PROPERTIES
    JobsSettle
