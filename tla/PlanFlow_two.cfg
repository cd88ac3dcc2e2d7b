\* Two goroutines, locks that expire under running handlers, and a plan that is
\* calculated twice and dispatched twice.
CONSTANTS
    r1 = r1  d1 = d1  d2 = d2  p1 = p1  x1 = x1  x2 = x2  lo = lo
    Jobs = {r1, d1, d2}
    Slots = {s1, s2}
    NoJob = NoJob
    Kind <- FlowKind
    Priority <- FlowPriority
    MaxAttempts <- RecalcTwice
    Overrun = {r1, d1}
    Plans = {p1}
    PlanOf <- FlowPlan
    Products = {x1}
    Prices = {lo}
    Calculations <- OneProduct
    ChunkSize = 1
    Clients = {c1}
SPECIFICATION FlowSpec
INVARIANTS DispatchedWasAnswered NoDoubleDispatch
CHECK_DEADLOCK FALSE
SYMMETRY SlotSymmetry
VIEW WithoutAccepted
