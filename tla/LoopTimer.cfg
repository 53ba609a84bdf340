CONSTANTS
    w1 = w1
    Workers = {w1}
    Loop = Loop
    Delays = {0, 1}
    MaxWait = 2
    MaxTimers = 2
    MaxTime = 2
    NoId = NoId
SPECIFICATION FairSpec
INVARIANTS TypeOK CancelledStaysCancelled FiresOnceWhenDue SameDelayInOrder AwaitsTimers
PROPERTIES TimerRuns
