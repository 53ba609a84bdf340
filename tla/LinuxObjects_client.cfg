CONSTANTS
    c = c
    Streams = {}
    Acceptors = {}
    Clients = {c}
    Scenes = {{c}}
    LongScenes = {}
    NoObject = NoObject
    CqSize = 2
    MaxMistaken = 1
    LateWrites = {"read"}
    StopFailed = FALSE
    StopClients = TRUE
SPECIFICATION FairSpec
PROPERTIES StopCloses
CHECK_DEADLOCK FALSE
