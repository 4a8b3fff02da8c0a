SPECIFICATION FairSpec
CONSTANTS
    Requests = {u1}
    Uploads = {u1}
    Duplicates = {}
    Workers = {w1, w2}
    MaxReceive = 2
    Garbage = garbage
    None = none
    ApiFaults <- MCApiFaults
    WorkerFaults <- MCWorkerFaults
INVARIANTS
    ExecutionFindsItsInput
    DeliveredJobIsKnown
    UnheardJobIsReported
    CreatedJobIsAccountedFor
PROPERTIES
    AcceptedRequestsEnd
