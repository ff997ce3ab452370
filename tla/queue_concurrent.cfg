\* Two requests at once.
SPECIFICATION FairSpec
CONSTANTS
    Queues = {qa}
    Ids <- MCIds
    Handlers = {h1, h2}
    Timeouts <- MCTimeouts
    BatchCap = 2
    MaxBatch = 2
    MaxTime = 1
    MaxReceipts = 3
    NoMessage = NoMessage
PROPERTIES LeavesOnlyBy Responds
