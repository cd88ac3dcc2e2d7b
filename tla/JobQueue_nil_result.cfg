\* What a success without a result document leaves behind.
CONSTANTS
    j1 = j1  j2 = j2  j3 = j3
    Jobs = {j1, j2, j3}
    Slots = {s1, s2}
    NoJob = NoJob
    Kind <- MixedKind
    Priority <- MixedPriority
    MaxAttempts <- MixedMax
    Overrun = {}
SPECIFICATION Spec
PROPERTIES SuccessIsRecorded
CHECK_DEADLOCK FALSE
