\* One request at a time, with failed calls and crashes.
SPECIFICATION Spec
CONSTANTS
    Groups = {g1}
    Namespaces = {ns}
    HubNames = {ha, hb}
    Handlers = {h1}
    MaxEvents = 3
    MaxBatch = 2
    MaxFaults = 1
    NoEvent = NoEvent
INVARIANTS IndexConfirms NothingSkipped
PROPERTY IsALog
