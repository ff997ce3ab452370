\* One request at a time, with a failed call or a crash: what the buckets hold
\* of a deployment agrees while nothing fails, and a redeployment repairs it.
SPECIFICATION Spec
CONSTANTS
    Names = {na}
    Resources = {ra, rb}
    Handlers = {h1}
    MaxResources = 2
    MaxOperations = 3
    MaxFaults = 1
    NoOperation = NoOperation
    NoDeployment = NoDeployment
    NoTemplate = NoTemplate
INVARIANTS OperationsMatch ExportsDeployed
PROPERTY RedeployRepairs
CHECK_DEADLOCK FALSE
