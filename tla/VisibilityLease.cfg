SPECIFICATION Spec
CONSTANTS
    MaxTimeout = 9
    QueueVisibility = 4
    MaxErrors = 4
INVARIANTS
    LeaseHeld
    OnlyCancellationIsQuiet
CHECK_DEADLOCK FALSE
