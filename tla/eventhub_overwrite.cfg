\* Two producers at a time.
SPECIFICATION Spec
CONSTANTS
    Groups = {g1}
    Namespaces = {ns}
    HubNames = {ha}
    Handlers = {h1, h2}
    MaxEvents = 3
    MaxBatch = 2
    MaxFaults = 1
    NoEvent = NoEvent
PROPERTY AppendOnly
