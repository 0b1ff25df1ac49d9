SPECIFICATION Spec
CONSTANTS
    mem = mem
    dev = dev
    app = app
    h1 = h1
    h2 = h2
    v1 = v1
    v2 = v2
    b1 = b1
    b2 = b2
    b3 = b3
    b4 = b4
    b5 = b5
    none = none
    nobuf = nobuf
    noval = noval
    Areas <- TwoAreas
    Layouts <- OneOrTwoTiles
    ChildAreas <- SecondArea
    Memory = mem
    Devices <- OneOtherDevice
    Unreliable <- MemoryUnreliable
    Handles <- TwoThreads
    Buffers <- FiveBuffers
    Values <- TwoValues
    Unknown = noval
    NoBuffer = nobuf
    NoDevice = none
    User = app
    Careful = TRUE
    OneDevice = TRUE
SYMMETRY Symmetries
INVARIANTS ContentKept PointersValid HandlesValid StorageAsRequested OneUse
