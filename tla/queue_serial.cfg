\* Requests that do not overlap, with failures and crashes between calls.
SPECIFICATION FairSpec
CONSTANTS
    Queues = {qa, qb}
    Ids <- MCIds
    Handlers = {h1}
    Timeouts <- MCTimeouts
    BatchCap = 2
    MaxBatch = 3
    MaxTime = 2
    MaxReceipts = 3
    NoMessage = NoMessage
INVARIANTS NoOrphans DequeueCountExact
PROPERTIES Implements NoResurrection ExclusiveReservation DeletesLatest
