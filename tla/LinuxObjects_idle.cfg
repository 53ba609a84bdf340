CONSTANTS
    s = s  c = c
    Streams = {s}
    Acceptors = {}
    Clients = {c}
    Scenes = {{s, c}}
    LongScenes = {}
    NoObject = NoObject
    CqSize = 2
    MaxMistaken = 1
    LateWrites = {"read"}
    StopFailed = FALSE
    StopClients = FALSE
SPECIFICATION FairSpec
PROPERTIES StopClosesIdle
