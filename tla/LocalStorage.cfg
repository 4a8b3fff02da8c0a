SPECIFICATION Spec
CONSTANTS
    Puts = {p1, p2}
    Gets = {g1}
    Deletes = {d1}
    Keys = {k1, k2}
    None = none
    Size = 2
    Faults <- AllFaults
    Root <- StorageRoot
    Names = {"srv", "data", "a"}
    MaxSegments = 5
SYMMETRY Symmetry
INVARIANTS
    NoTornObject
    WholeReads
    TemporariesAreOwned
    KeysLeadBelowRoot
CHECK_DEADLOCK FALSE
