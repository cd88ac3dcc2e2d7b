CONSTANTS
    u1 = u1
    chat1 = chat1
    hook1 = hook1
    hook2 = hook2
    p1 = p1
    NoVal = NoVal
    Users = {u1}
    ActiveUsers = {u1}
    Kinds <- MCKinds
    Profiles <- MCProfiles
    Switches <- MCSwitches
    Chats = {chat1}
    Hooks = {hook1, hook2}
    Emitters = {p1}
    MaxNotes = 2
    MaxJobs = 2
    MaxEdits = 1
    MaxAttempts = 2
    Schedules <- MCSchedules
    Hours = 2
SPECIFICATION FairSpec
INVARIANTS NotifierTypeOK HeldOnce SettledNotResent
PROPERTIES DigestsLeave
ACTION_CONSTRAINT FewSteps
CHECK_DEADLOCK FALSE
