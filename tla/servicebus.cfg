\* One request after the other from an empty database; and, once every entity
\* is there, requests cut short by crashes and requests that overlap.
SPECIFICATION Spec
CONSTANTS
    Clients = {c1, c2}
    Couriers = {}
    Modes = {"serial", "crashing", "concurrent"}
    QueueIds <- MCQueueIds
    SubIds <- MCSubIds
    MaxDraws <- MCMaxDraws
    Provisioned = {"crashing", "concurrent"}
INVARIANT IndexAgrees
PROPERTIES OneCopyPerSubscription ReceiveCreatesNothing
\* The bound on draws stops a behaviour without a control plane.
CHECK_DEADLOCK FALSE
