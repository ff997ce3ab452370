\* An enabled workflow is put again without a Recurrence trigger.
SPECIFICATION FairSpec
CONSTANTS
    Keys = {k1}
    Definitions = {hourly, manual}
    Recurring = {hourly}
    Handlers = {h1}
    MaxLoops = 2
    MaxRestarts = 1
    Absent = Absent
INVARIANT PassthroughNeverFires
