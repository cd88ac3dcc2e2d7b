\* Two goroutines, three jobs; the dispatch job may outlive its lock.
CONSTANTS
    j1 = j1  j2 = j2  j3 = j3
    Jobs = {j1, j2, j3}
    Slots = {s1, s2}
    NoJob = NoJob
    Kind <- MixedKind
    Priority <- MixedPriority
    MaxAttempts <- MixedMax
    Overrun = {j2}
SPECIFICATION FairSpec
INVARIANTS TypeOK AttemptRunsOnce HolderIsCurrent WaitingHasAttemptLeft
PROPERTIES TerminalIsFinal ImplementsLedger NoJobWaitsForever InterruptedJobResumes
CHECK_DEADLOCK FALSE
