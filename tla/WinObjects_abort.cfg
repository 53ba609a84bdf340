CONSTANTS
    s = s  c = c
    Streams = {s}
    Acceptors = {}
    Clients = {c}
    Scenes = {{s, c}}
    NSlots = 2
    NoObject = NoObject
    MaxDepth = 2
    MaxInline = 2
    LateWrites = {"read"}
SPECIFICATION Spec
INVARIANT AbortBeforeClose
