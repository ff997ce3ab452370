\* Two requests at a time for one deployment.
SPECIFICATION FairSpec
CONSTANTS
    Names = {na}
    Resources = {ra, rb}
    Handlers = {h1, h2}
    MaxResources = 2
    MaxOperations = 3
    MaxFaults = 0
    NoOperation = NoOperation
    NoDeployment = NoDeployment
    NoTemplate = NoTemplate
INVARIANTS SucceededIsComplete PollsOwnOutcome
PROPERTY Responds
CHECK_DEADLOCK FALSE
