CONSTANTS
    a = a
    Streams = {}
    Acceptors = {a}
    Clients = {}
    Scenes = {{a}}
    LongScenes = {}
    NoObject = NoObject
    CqSize = 2
    MaxMistaken = 1
    LateWrites = {"read"}
    StopFailed = TRUE
    StopClients = FALSE
SPECIFICATION Spec
INVARIANT StopFindsRegistered
