SPECIFICATION Spec
CONSTANTS
    Workers = {w1, w2}
    Jobs = {j1}
    Messages = {m1, m2}
    MaxReceive = 2
    Garbage = garbage
    None = none
    Bodies <- MCBodies
    Faults <- UnsignalledFaults
SYMMETRY Symmetry
INVARIANTS
    IInv
    AckedJobIsCompleted
    AtMostOneExecution
    ResultMatchesStatus
    RenewalIsJoined
PROPERTIES
    ImplementsLifecycle
