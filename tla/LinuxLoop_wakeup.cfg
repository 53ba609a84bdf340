CONSTANTS
    w1 = w1  w2 = w2
    u1 = u1  u2 = u2  s1 = s1  t1 = t1
    Workers = {w1, w2}
    UserTasks = {u1, u2}
    StopTasks = {s1}
    TimerTasks = {t1}
    MaxIo = 1
    CountMod = 16
    NoTask = NoTask
SPECIFICATION Spec
INVARIANT WakeupFindsEventfd
