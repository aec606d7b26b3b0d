SPECIFICATION StreamFairSpec
CONSTANTS
    Window = 2
    MaxFrameSize = 2
    Faults = {}
    MaxBytes = 4
    MaxResume = 0
    MaxFaults = 0
    MaxClose = 0
PROPERTY WriterWakes
CHECK_DEADLOCK FALSE
