CONSTANTS
    s = s  a = a  c = c
    Streams = {s}
    Acceptors = {a}
    Clients = {c}
    Scenes = {{s, a}, {s, c}}
    NSlots = 2
    NoObject = NoObject
    MaxDepth = 2
    MaxInline = 2
    LateWrites = {"read"}
SPECIFICATION FairSpec
INVARIANTS TypeOK FlagsMatchSystem ClosedIsQuiet ClosesOnce SilenceIsTold StopIsHeard
PROPERTIES CloseSafety StopClosesWithPeer
