\* One request at a time, with firing goroutines, their fairness and restarts.
SPECIFICATION FairSpec
CONSTANTS
    Keys = {k1}
    Definitions = {hourly, daily, manual}
    Recurring = {hourly, daily}
    Handlers = {h1}
    MaxLoops = 2
    MaxRestarts = 1
    Absent = Absent
INVARIANT FiresAsAsked
PROPERTIES StoppedLoopEnds KeepsFiring
