SPECIFICATION StreamFairSpec
CONSTANTS
    Window = 2
    MaxFrameSize = 2
    Faults = {"lose", "duplicate", "delay", "sendError", "expire"}
    MaxBytes = 3
    MaxResume = 1
    MaxFaults = 1
    MaxClose = 1
INVARIANTS WindowBounds BytesInOrder NothingLost
PROPERTIES ResumeRepairs
CHECK_DEADLOCK FALSE
