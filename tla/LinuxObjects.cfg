CONSTANTS
    s = s  t = t  a = a  c = c
    Streams = {s, t}
    Acceptors = {a}
    Clients = {c}
    Scenes = {{s, t, c}}
    LongScenes = {{s, a}}
    NoObject = NoObject
    CqSize = 2
    MaxMistaken = 1
    LateWrites = {"alloc", "read"}
    StopFailed = FALSE
    StopClients = FALSE
SPECIFICATION FairSpec
INVARIANTS TypeOK CallbacksFindObject FlagsMatchKernel ClosedIsQuiet NoPanic StopIsHeard
PROPERTIES CloseSafety StopClosesWithPeer CancelCloses
CHECK_DEADLOCK FALSE
