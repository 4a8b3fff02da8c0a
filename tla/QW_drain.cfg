SPECIFICATION FairSpec
CONSTANTS
    Workers = {w1, w2}
    Jobs = {j1}
    Messages = {m1}
    MaxReceive = 2
    Garbage = garbage
    None = none
    Bodies <- MCBodies
    Faults <- QueueFaults
PROPERTIES
    QueueDrains
    DeliveryEnds
    ShutdownCompletes
    LostLeaseStopsWorker
