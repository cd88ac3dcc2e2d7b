\* One goroutine, as configured by default; two products in chunks of one;
\* for the liveness, the daily cleanup is the only fairness assumed.
CONSTANTS
    r1 = r1  d1 = d1  d2 = d2  p1 = p1  x1 = x1  x2 = x2  lo = lo
    Jobs = {r1, d1}
    Slots = {s1}
    NoJob = NoJob
    Kind <- FlowKind
    Priority <- FlowPriority
    MaxAttempts <- FlowMax
    Overrun = {}
    Plans = {p1}
    PlanOf <- FlowPlan
    Products = {x1, x2}
    Prices = {lo}
    Calculations <- TwoProducts
    ChunkSize = 1
    Clients = {c1}
SPECIFICATION FairFlowSpec
INVARIANTS FlowTypeOK CancelStopsWithinChunk SentUntilMarked StatusMatchesRows
PROPERTIES RunsTheQueue PlanNeverHangs
CHECK_DEADLOCK FALSE
VIEW WithoutAccepted
