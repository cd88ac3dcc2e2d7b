CONSTANTS
    h1 = h1  c1 = c1  c2 = c2
    ShopIds = {h1}
    NoVal = NoVal
    Clients = {u1}
    DefaultCron = 3
    Crons <- MCCrons
    ShopPatches <- MCPatches
    Existing <- MCExisting
    CompIds = {c1, c2}
    ShopOf <- MCShopOf
    Targets <- MCTargets
    OzonSource = "bff"
    JobIds = {q1}
    MaxTries = 2
    Replicas = {r1, r2}
    BatchSize = 1
    Budgets <- MCBudgets
SPECIFICATION FairSchedulerSpec
INVARIANTS ScheduleTypeOK ScheduledOnce QuotesMatchTarget
PROPERTIES StaleIsRechecked
CHECK_DEADLOCK FALSE
