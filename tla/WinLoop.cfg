CONSTANTS
    w1 = w1
    t1 = t1  t2 = t2
    Workers = {w1}
    Tasks = {t1, t2}
    MaxStops = 1
    MaxIo = 1
    MaxTicks = 1
    MaxRuns = 2
    BatchSize = 2
    CountMod = 8
    NoTask = NoTask
SPECIFICATION FairSpec
INVARIANTS TypeOK NoLostWakeup TimerThreadInsideRun
PROPERTIES PacketsAreKept BoxSafety BoxProgress StopEndsRun TickServed
