SPECIFICATION Spec
CONSTANTS
    Capacity = 2
    MaxFrame = 3
    PutSizes = {1}
    KeepValues = {1}
    MaxValues = {2}
    MaxDeferred = 2
    MaxResets = 0
    WaitsFor = {"compression", "frames"}
INVARIANT FrameDelivered
