\* A call answered without an error, its rows, and what the marketplace took.
CONSTANTS
    r1 = r1  d1 = d1  d2 = d2  p1 = p1  x1 = x1  x2 = x2  lo = lo
    Jobs = {r1, d1}
    Slots = {s1}
    NoJob = NoJob
    Kind <- FlowKind
    Priority <- FlowPriority
    MaxAttempts <- DispatchTwice
    Overrun = {}
    Plans = {p1}
    PlanOf <- FlowPlan
    Products = {x1}
    Prices = {lo}
    Calculations <- OneProduct
    ChunkSize = 1
    Clients = {c1}
SPECIFICATION FlowSpec
INVARIANTS DispatchedWasAccepted
CHECK_DEADLOCK FALSE
