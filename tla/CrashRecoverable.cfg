SPECIFICATION AudioSpec
CONSTANTS
    Streams = {s1}
    MaxSeq = 3
    MinTake = 2
    MaxTake = 2
    MaxCrashes = 1
PROPERTIES
    CrashRecoverable
CHECK_DEADLOCK FALSE
