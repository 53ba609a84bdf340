CONSTANTS
    w1 = w1  w2 = w2
    u1 = u1  s1 = s1  t1 = t1
    Workers = {w1, w2}
    UserTasks = {u1}
    StopTasks = {s1}
    TimerTasks = {t1}
    MaxIo = 1
    CountMod = 16
    NoTask = NoTask
SPECIFICATION FairSpec
INVARIANTS TypeOK IndInv NoLostWakeup EventfdReadable SpinsAfterLocalPost StopIsKept
PROPERTIES BoxSafety BoxProgress StopEndsRun
