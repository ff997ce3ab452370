\* Two requests at once, with firing goroutines and a restart.
SPECIFICATION FairSpec
CONSTANTS
    Keys = {k1}
    Definitions = {hourly, manual}
    Recurring = {hourly}
    Handlers = {h1, h2}
    MaxLoops = 2
    MaxRestarts = 1
    Absent = Absent
INVARIANTS OneLiveLoop RegisteredIsOpen
