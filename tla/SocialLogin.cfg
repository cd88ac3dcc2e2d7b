SPECIFICATION Spec
CONSTANTS
    ann = ann
    placeholder = placeholder
    ext = ext
    p1 = p1
    p2 = p2
    s1 = s1
    s2 = s2
    FirstUsers <- MCFirstUsers
    NoVal = NoVal
    Emails <- MCEmails
    RealEmails = {ann}
    Passwords = {p1, p2}
    Externals = {ext}
    Browsers = {b1}
    Slots = {s1, s2}
    PlaceholderOf <- MCPlaceholderOf
    OneTimeTTL <- MCOneTimeTTL
    LockFor <- MCLockFor
    IdleTTL = 1
    AbsoluteTTL = 2
    RefreshBelow = 1
    MaxTokens = 3
    MaxRequests = 3
    MaxFails = 2
    MaxClock = 2
INVARIANTS AccessTypeOK SessionsFollowPassword LockHasCause OneAccountBehind
PROPERTIES NoEntryForBarred
SYMMETRY Alike
CHECK_DEADLOCK FALSE
