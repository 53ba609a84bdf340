CONSTANTS
    c = c
    Streams = {}
    Acceptors = {}
    Clients = {c}
    Scenes = {{c}}
    NSlots = 2
    NoObject = NoObject
    MaxDepth = 2
    MaxInline = 2
    LateWrites = {"read"}
SPECIFICATION Spec
PROPERTY ConnTellsOutcome
