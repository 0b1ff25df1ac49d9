SPECIFICATION Spec
CONSTANTS
    Capacity = 2
    MaxFrame = 3
    PutSizes = {2}
    KeepValues = {1}
    MaxValues = {2}
    MaxDeferred = 1
    MaxResets = 1
    WaitsFor = {"images", "compression", "frames"}
INVARIANTS FrameDelivered BuffersContiguous WindowKept CountsAgree
