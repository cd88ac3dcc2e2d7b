------------------------------ MODULE PlanFlow ------------------------------
(***************************************************************************)
(* The life of a price plan: the HTTP operations Recalculate, Dispatch and *)
(* Cancel, the worker's handlers ExecuteRecalcJob (service/pricing) and    *)
(* ExecuteDispatchJob (service/dispatcher), and the scheduler's cleanup of *)
(* stale plans, on top of the job queue of JobQueue.  Each SQL statement   *)
(* and each call of the marketplace is a step of its own; a read whose     *)
(* answer is only compared again by the statement that follows it is       *)
(* merged with that statement.                                             *)
(***************************************************************************)
EXTENDS JobQueue, FiniteSets

CONSTANTS
    Plans,
    PlanOf,        \* the plan named in a job's payload
    Products,
    Prices,        \* final prices a calculation may produce
    Calculations,  \* what calculateItemForProduct may return, per product:
                   \* "none" (no strategy), "skipped", "failed", or a price
    ChunkSize,     \* items per UpdatePrices call (dispatcher.chunkSize)
    Clients        \* concurrent HTTP requests

ASSUME FlowAssumption ==
    /\ PlanOf \in [Jobs -> Plans]
    /\ \A j \in Jobs : Kind[j] \in {"price_recalculation", "price_dispatch"}
    /\ Calculations \subseteq [Products -> Prices \cup {"none", "skipped", "failed"}]
    /\ ChunkSize \in Nat \ {0}

VARIABLES
    plan,       \* price_plans.status, "absent" before the INSERT
    item,       \* price_plan_items.status by row, "absent" before the INSERT
    price,      \* price_plan_items.final_price by row
    pc,         \* where the handler run by a slot stands
    todo,       \* rows ListItemsForDispatch returned, not yet dealt with
    chunk,      \* rows of the UpdatePrices call under way, not yet marked
    final,      \* the plan status finalizePlanStatus has chosen
    ret,        \* the verdict the handler is heading for
    api,        \* what an HTTP request still has to write
    \* Observed, never read by the program:
    accepted,   \* rows whose price the marketplace has taken
    answered,   \* rows in a chunk whose call was answered with nil
    calcRuns,   \* times the plan was marked calculated
    lateCalls   \* UpdatePrices calls of the slot's attempt on a cancelled plan

localVars == <<pc, todo, chunk, final, ret>>
planVars  == <<plan, item, price>>
ghostVars == <<accepted, answered, calcRuns, lateCalls>>
flowVars  == <<planVars, localVars, api, ghostVars>>
allVars   == <<vars, flowVars>>

\* A row is identified by plan, product and the attempt of the recalculation
\* job that inserted it (one INSERT batch per attempt).
MaxTries == CHOOSE n \in {MaxAttempts[j] : j \in Jobs} :
                \A j \in Jobs : MaxAttempts[j] <= n
Rows     == Plans \X Products \X (1..MaxTries)

PlanTerminal == {"applied", "partial", "failed", "cancelled"}
PlanStatuses == {"absent", "pending", "processing", "calculated", "dispatching"}
                    \cup PlanTerminal
ItemStatuses == {"absent", "pending", "dispatched", "skipped", "failed"}
NoFinal      == "none"
NoRequest    == [op |-> "idle"]

\* Mutant of PendingRows: the list also takes rows already sent.
UnsettledRows(p) ==
    {r \in Rows : r[1] = p /\ item[r] \in {"pending", "dispatched"}}

PendingRows(p) == {r \in Rows : r[1] = p /\ item[r] = "pending"}

FlowInit ==
    /\ Init
    /\ plan   = [p \in Plans |-> "absent"]
    /\ item   = [r \in Rows |-> "absent"]
    /\ price  = [r \in Rows |-> "none"]
    /\ pc     = [s \in Slots |-> "idle"]
    /\ todo   = [s \in Slots |-> {}]
    /\ chunk  = [s \in Slots |-> {}]
    /\ final  = [s \in Slots |-> NoFinal]
    /\ ret    = [s \in Slots |-> "succeed"]
    /\ api    = [c \in Clients |-> NoRequest]
    /\ accepted  = {}
    /\ answered  = {}
    /\ calcRuns  = [p \in Plans |-> 0]
    /\ lateCalls = [s \in Slots |-> 0]

-----------------------------------------------------------------------------
(* Statements on price_plans.                                              *)

\* UpdateStatus: WHERE id = $1 and nothing else.
UpdateStatus(p, st) == plan' = [plan EXCEPT ![p] = st]

\* Mutant of CanTransition: a status check without the comparison.
NotTerminal(p, from) == plan[p] \notin PlanTerminal \cup {"absent"}

\* TransitionStatus: compare and set.
CanTransition(p, from) == plan[p] = from

-----------------------------------------------------------------------------
(* HTTP requests.                                                          *)

\* Recalculate: the plan is inserted, then its job.
CreatePlan(c, p) ==
    /\ api[c] = NoRequest
    /\ plan[p] = "absent"
    /\ UpdateStatus(p, "pending")
    /\ api' = [api EXCEPT ![c] = [op |-> "enqueueRecalc", plan |-> p]]
    /\ UNCHANGED <<vars, item, price, localVars, ghostVars>>

\* EnqueueDispatch up to its compare-and-set.
ClickDispatch(c, p) ==
    /\ api[c] = NoRequest
    /\ CanTransition(p, "calculated")
    /\ UpdateStatus(p, "dispatching")
    /\ api' = [api EXCEPT ![c] = [op |-> "enqueueDispatch", plan |-> p]]
    /\ UNCHANGED <<vars, item, price, localVars, ghostVars>>

\* Cancel reads the status first; the write that follows has no condition.
ReadForCancel(c, p) ==
    /\ api[c] = NoRequest
    /\ plan[p] \notin PlanTerminal \cup {"absent"}
    /\ api' = [api EXCEPT ![c] = [op |-> "cancel", plan |-> p]]
    /\ UNCHANGED <<vars, planVars, localVars, ghostVars>>

WriteCancel(c) ==
    /\ api[c].op = "cancel"
    /\ UpdateStatus(api[c].plan, "cancelled")
    /\ api' = [api EXCEPT ![c] = NoRequest]
    /\ UNCHANGED <<vars, item, price, localVars, ghostVars>>

\* A row of the payload's plan that is still to be inserted.
FreshJob(k, p, j) == Kind[j] = k /\ PlanOf[j] = p /\ status[j] = "absent"

EnqueueRecalc(c) ==
    /\ api[c].op = "enqueueRecalc"
    /\ \E j \in Jobs : FreshJob("price_recalculation", api[c].plan, j) /\ Enqueue(j)
    /\ api' = [api EXCEPT ![c] = NoRequest]
    /\ UNCHANGED <<planVars, localVars, ghostVars>>

RecalcNotEnqueued(c) ==
    /\ api[c].op = "enqueueRecalc"
    /\ UpdateStatus(api[c].plan, "failed")
    /\ api' = [api EXCEPT ![c] = NoRequest]
    /\ UNCHANGED <<vars, item, price, localVars, ghostVars>>

EnqueueDispatch(c) ==
    /\ api[c].op = "enqueueDispatch"
    /\ \E j \in Jobs : FreshJob("price_dispatch", api[c].plan, j) /\ Enqueue(j)
    /\ api' = [api EXCEPT ![c] = NoRequest]
    /\ UNCHANGED <<planVars, localVars, ghostVars>>

\* The roll-back of a failed enqueue, itself a compare-and-set.
RollBack(p) ==
    IF CanTransition(p, "dispatching")
    THEN UpdateStatus(p, "calculated") ELSE UNCHANGED plan

DispatchNotEnqueued(c) ==
    /\ api[c].op = "enqueueDispatch"
    /\ RollBack(api[c].plan)
    /\ api' = [api EXCEPT ![c] = NoRequest]
    /\ UNCHANGED <<vars, item, price, localVars, ghostVars>>

\* The API process dies between two writes of a request.
RequestLost(c) ==
    /\ api[c] # NoRequest
    /\ api' = [api EXCEPT ![c] = NoRequest]
    /\ UNCHANGED <<vars, planVars, localVars, ghostVars>>

\* StalePlanCleanupTick: one UPDATE over the plans older than 24 hours.
Stale(p) == plan[p] \in {"pending", "processing", "dispatching"}

\* created_at is 24 hours back: the request that created the plan has ended.
Old(p) == \A c \in Clients : api[c] # [op |-> "enqueueRecalc", plan |-> p]

\* Mutant of StalePlanCleanup: plans of the second stage are forgotten.
CleanupSkipsDispatching(p) ==
    /\ plan[p] \in {"pending", "processing"}
    /\ Old(p)
    /\ UpdateStatus(p, "cancelled")
    /\ UNCHANGED <<vars, item, price, localVars, api, ghostVars>>

\* The plans the UPDATE takes are independent of one another: one step each.
StalePlanCleanup(p) ==
    /\ Stale(p)
    /\ Old(p)
    /\ UpdateStatus(p, "cancelled")
    /\ UNCHANGED <<vars, item, price, localVars, api, ghostVars>>

-----------------------------------------------------------------------------
(* The worker's slots.                                                     *)

Target(s) == PlanOf[holds[s]]
At(s, where) == holds[s] # NoJob /\ pc[s] = where
Goto(s, where) == pc' = [pc EXCEPT ![s] = where]

ClearLocals(s) ==
    /\ todo'   = [todo EXCEPT ![s] = {}]
    /\ chunk'  = [chunk EXCEPT ![s] = {}]
    /\ final'  = [final EXCEPT ![s] = NoFinal]
    /\ ret'    = [ret EXCEPT ![s] = "succeed"]

\* processJob picks the handler of the claimed job's type.
FlowClaim(s) ==
    /\ Claim(s)
    /\ Goto(s, IF Kind[holds'[s]] = "price_recalculation"
               THEN "processing" ELSE "load")
    /\ lateCalls' = [lateCalls EXCEPT ![s] = 0]
    /\ UNCHANGED <<planVars, todo, chunk, final, ret, api,
                   accepted, answered, calcRuns>>

\* Mutant of AfterError: job.Attempts is not compared.
AlwaysRetry(s) == Goto(s, "done") /\ ret' = [ret EXCEPT ![s] = "retry"]

\* What an error means to processPricingJob and processDispatchJob: another
\* attempt, or the end; a dispatch then gives its remaining items up first
\* (MarkExhausted), and an error in there is only logged.
AfterError(s) ==
    IF ret[s] = "succeed" /\ tryNo[s] < MaxAttempts[holds[s]]
    THEN Goto(s, "done") /\ ret' = [ret EXCEPT ![s] = "retry"]
    ELSE /\ ret' = [ret EXCEPT ![s] = "fail"]
         /\ Goto(s, IF ret[s] = "succeed" /\ Kind[holds[s]] = "price_dispatch"
                    THEN "exhaust" ELSE "done")

\* A read, a write or a call that fails before it changed anything.
HandlerError(s) ==
    /\ holds[s] # NoJob
    /\ pc[s] \in {"processing", "calculated", "load", "list", "shop", "check",
                  "count", "write", "exhaust"}
    /\ AfterError(s)
    /\ UNCHANGED <<vars, planVars, todo, chunk, final, api, ghostVars>>

-----------------------------------------------------------------------------
(* ExecuteRecalcJob.                                                       *)

MarkProcessing(s) ==
    /\ At(s, "processing")
    /\ UpdateStatus(Target(s), "processing")
    /\ Goto(s, "insert")
    /\ UNCHANGED <<vars, item, price, todo, chunk, final, ret, api,
                   ghostVars>>

\* ux_price_plan_items_dedup: one pending row per product and price, in all
\* the plans together.
Conflict(calc) ==
    \E x \in Products : calc[x] \in Prices /\
        \E r \in Rows : /\ r[2] = x
                        /\ item[r] = "pending"
                        /\ price[r] = calc[x]

\* loadProductsForRecalc, calculateItemForProduct and the batch INSERT, which
\* is one transaction.
InsertItems(s) ==
    /\ At(s, "insert")
    /\ \E calc \in Calculations :
        /\ ~Conflict(calc)
        /\ LET new == {<<Target(s), x, tryNo[s]>> :
                            x \in {y \in Products : calc[y] # "none"}}
               priced(r) == calc[r[2]] \in Prices
           IN  /\ item' = [r \in Rows |->
                    IF r \notin new THEN item[r]
                    ELSE IF priced(r) THEN "pending" ELSE calc[r[2]]]
               /\ price' = [r \in Rows |->
                    IF r \in new /\ priced(r) THEN calc[r[2]] ELSE price[r]]
    /\ Goto(s, "calculated")
    /\ UNCHANGED <<vars, plan, todo, chunk, final, ret, api, ghostVars>>

\* The products cannot be loaded, or the transaction fails or conflicts: the
\* plan is marked failed, best effort, and the job errs.
RecalcFails(s) ==
    /\ At(s, "insert")
    /\ UpdateStatus(Target(s), "failed") \/ UNCHANGED plan
    /\ AfterError(s)
    /\ UNCHANGED <<vars, item, price, todo, chunk, final, api, ghostVars>>

MarkCalculated(s) ==
    /\ At(s, "calculated")
    /\ UpdateStatus(Target(s), "calculated")
    /\ calcRuns' = [calcRuns EXCEPT ![Target(s)] = @ + 1]
    /\ Goto(s, "auto")
    /\ UNCHANGED <<vars, item, price, todo, chunk, final, ret, api,
                   accepted, answered, lateCalls>>

\* shop.AutoUpdateEnabled: EnqueueDispatch from inside the job.  Its errors
\* are logged and the job succeeds all the same.
AutoDispatch(s) ==
    /\ At(s, "auto")
    /\ \/ /\ CanTransition(Target(s), "calculated")
          /\ UpdateStatus(Target(s), "dispatching")
          /\ Goto(s, "enqueue")
       \/ UNCHANGED plan /\ Goto(s, "done")
    /\ UNCHANGED <<vars, item, price, todo, chunk, final, ret, api,
                   ghostVars>>

AutoEnqueue(s) ==
    /\ At(s, "enqueue")
    /\ \E j \in Jobs : FreshJob("price_dispatch", Target(s), j) /\ Enqueue(j)
    /\ Goto(s, "done")
    /\ UNCHANGED <<planVars, todo, chunk, final, ret, api, ghostVars>>

AutoNotEnqueued(s) ==
    /\ At(s, "enqueue")
    /\ RollBack(Target(s))
    /\ Goto(s, "done")
    /\ UNCHANGED <<vars, item, price, todo, chunk, final, ret, api,
                   ghostVars>>

RecalcStep(s) ==
    \/ MarkProcessing(s) \/ InsertItems(s) \/ RecalcFails(s)
    \/ MarkCalculated(s) \/ AutoDispatch(s) \/ AutoEnqueue(s) \/ AutoNotEnqueued(s)

-----------------------------------------------------------------------------
(* ExecuteDispatchJob.                                                     *)

LoadPlan(s) ==
    /\ At(s, "load")
    /\ IF plan[Target(s)] \in PlanTerminal
       THEN UNCHANGED plan /\ Goto(s, "done")
       ELSE /\ IF CanTransition(Target(s), "calculated")
               THEN UpdateStatus(Target(s), "dispatching") ELSE UNCHANGED plan
            /\ Goto(s, "list")
    /\ UNCHANGED <<vars, item, price, todo, chunk, final, ret, api,
                   ghostVars>>

ListItems(s) ==
    /\ At(s, "list")
    /\ LET rows == PendingRows(Target(s)) IN
        /\ todo'   = [todo EXCEPT ![s] = rows]
        /\ Goto(s, IF rows = {} THEN "count" ELSE "shop")
    /\ UNCHANGED <<vars, planVars, chunk, final, ret, api, ghostVars>>

\* The client is built, or the credentials are of no use: ErrUnauthorized.
BuildClient(s) ==
    /\ At(s, "shop")
    /\ Goto(s, "check") \/ Goto(s, "reject")
    /\ UNCHANGED <<vars, planVars, todo, chunk, final, ret, api,
                   ghostVars>>

\* Mutant of StillWanted: the plan is not read again.
NeverAsked(s) == plan = plan

\* isPlanCancelled before each chunk.
StillWanted(s) == plan[Target(s)] # "cancelled"

NextChunk(s) ==
    /\ At(s, "check")
    /\ todo[s] # {}
    /\ StillWanted(s)
    /\ \E c \in SUBSET todo[s] :
        /\ c # {}
        /\ Cardinality(c) = ChunkSize \/ (c = todo[s] /\ Cardinality(c) < ChunkSize)
        /\ chunk' = [chunk EXCEPT ![s] = c]
        /\ todo'  = [todo EXCEPT ![s] = @ \ c]
    /\ Goto(s, "call")
    /\ UNCHANGED <<vars, planVars, final, ret, api, ghostVars>>

StopDispatch(s) ==
    /\ At(s, "check")
    /\ todo[s] # {}
    /\ ~StillWanted(s)
    /\ Goto(s, "done")
    /\ UNCHANGED <<vars, planVars, todo, chunk, final, ret, api, ghostVars>>

ChunksDone(s) ==
    /\ At(s, "check")
    /\ todo[s] = {}
    /\ Goto(s, "count")
    /\ UNCHANGED <<vars, planVars, todo, chunk, final, ret, api, ghostVars>>

CountLateCall(s) ==
    lateCalls' = [lateCalls EXCEPT ![s] =
                    @ + (IF plan[Target(s)] = "cancelled" THEN 1 ELSE 0)]

\* What the marketplace takes of the chunk, whatever it answers.
Take(s) == \E taken \in SUBSET chunk[s] : accepted' = accepted \cup taken

\* UpdatePrices returns nil.  That does not say that the chunk was taken: the
\* Ozon client finds no fault in an item the answer leaves out, and the
\* Wildberries client does not read the answer, of a task that runs later.
CallSucceeds(s) ==
    /\ At(s, "call")
    /\ Take(s)
    /\ answered' = answered \cup chunk[s]
    /\ CountLateCall(s)
    /\ Goto(s, "mark")
    /\ UNCHANGED <<vars, planVars, todo, chunk, final, ret, api, calcRuns>>

\* Mutant of CallFails: the error is logged and the loop goes on.
CallFailureIgnored(s) ==
    /\ At(s, "call")
    /\ Take(s)
    /\ CountLateCall(s)
    /\ Goto(s, "mark")
    /\ UNCHANGED <<vars, planVars, todo, chunk, final, ret, api, answered,
                   calcRuns>>

\* Rate limit, timeout, network, status or item error: the marketplace may have
\* taken some of the chunk all the same.  Neither client's UpdatePrices returns
\* ErrUnauthorized, so that the branch of the handler for it is never taken.
CallFails(s) ==
    /\ At(s, "call")
    /\ Take(s)
    /\ CountLateCall(s)
    /\ AfterError(s)
    /\ UNCHANGED <<vars, planVars, todo, chunk, final, api, answered, calcRuns>>

\* UpdateItemAfterDispatch, row by row and without a condition on the row's
\* status; a failed write is logged or ignored and the loop goes on.
MarkRow(r, st) == item' = [item EXCEPT ![r] = st] \/ UNCHANGED item

MarkDispatched(s) ==
    /\ At(s, "mark")
    /\ \E r \in chunk[s] :
        /\ MarkRow(r, "dispatched")
        /\ chunk' = [chunk EXCEPT ![s] = @ \ {r}]
        /\ Goto(s, IF chunk[s] = {r} THEN "check" ELSE "mark")
    /\ UNCHANGED <<vars, plan, price, todo, final, ret, api, ghostVars>>

\* failAllItems, for unusable credentials and for exhausted retries.
FailItem(s) ==
    /\ holds[s] # NoJob
    /\ pc[s] \in {"reject", "giveUp"}
    /\ \E r \in todo[s] :
        /\ MarkRow(r, "failed")
        /\ todo' = [todo EXCEPT ![s] = @ \ {r}]
    /\ UNCHANGED <<vars, plan, price, pc, chunk, final, ret, api, ghostVars>>

Rejected(s) ==
    /\ At(s, "reject")
    /\ todo[s] = {}
    /\ UpdateStatus(Target(s), "failed") \/ UNCHANGED plan
    /\ ret' = [ret EXCEPT ![s] = "fail"]
    /\ Goto(s, "done")
    /\ UNCHANGED <<vars, item, price, todo, chunk, final, api, ghostVars>>

\* MarkExhausted reads the rows again.
ListExhausted(s) ==
    /\ At(s, "exhaust")
    /\ todo' = [todo EXCEPT ![s] = PendingRows(Target(s))]
    /\ Goto(s, "giveUp")
    /\ UNCHANGED <<vars, planVars, chunk, final, ret, api, ghostVars>>

GivenUp(s) ==
    /\ At(s, "giveUp")
    /\ todo[s] = {}
    /\ Goto(s, "count")
    /\ UNCHANGED <<vars, planVars, todo, chunk, final, ret, api, ghostVars>>

\* Mutant of FinalStatus: failures are not counted.
FinalIgnoresFailures(p) ==
    IF \E r \in Rows : r[1] = p /\ item[r] = "dispatched"
    THEN "applied" ELSE "failed"

\* finalizePlanStatus: the counts, then the write.
FinalStatus(p) ==
    LET has(st) == \E r \in Rows : r[1] = p /\ item[r] = st IN
    IF has("dispatched") /\ has("failed") THEN "partial"
    ELSE IF ~has("dispatched") /\ has("failed") THEN "failed"
    ELSE "applied"

\* Mutant of CountItems: no return when rows are pending.
CountFallsThrough(s) ==
    /\ At(s, "count")
    /\ final' = [final EXCEPT ![s] = IF PendingRows(Target(s)) # {} THEN @
                                     ELSE FinalStatus(Target(s))]
    /\ Goto(s, "write")
    /\ UNCHANGED <<vars, planVars, todo, chunk, ret, api, ghostVars>>

CountItems(s) ==
    /\ At(s, "count")
    /\ IF PendingRows(Target(s)) # {}
       THEN UNCHANGED final /\ Goto(s, "done")
       ELSE /\ final' = [final EXCEPT ![s] = FinalStatus(Target(s))]
            /\ Goto(s, "write")
    /\ UNCHANGED <<vars, planVars, todo, chunk, ret, api, ghostVars>>

WriteFinal(s) ==
    /\ At(s, "write")
    /\ UpdateStatus(Target(s), final[s])
    /\ Goto(s, "done")
    /\ UNCHANGED <<vars, item, price, todo, chunk, final, ret, api,
                   ghostVars>>

DispatchStep(s) ==
    \/ LoadPlan(s) \/ ListItems(s) \/ BuildClient(s)
    \/ NextChunk(s) \/ StopDispatch(s) \/ ChunksDone(s)
    \/ CallSucceeds(s) \/ CallFails(s) \/ MarkDispatched(s)
    \/ FailItem(s) \/ Rejected(s)
    \/ ListExhausted(s) \/ GivenUp(s) \/ CountItems(s) \/ WriteFinal(s)

-----------------------------------------------------------------------------
(* The end of an attempt.                                                  *)

\* Both functions save with a nil result, whatever the verdict.
ReturnNil(s) ==
    /\ At(s, "done")
    /\ Decide(s, WithNil(ret[s]))
    /\ Goto(s, "save")
    /\ ClearLocals(s)
    /\ UNCHANGED <<planVars, api, ghostVars>>

FlowSave(s) ==
    /\ At(s, "save")
    /\ Save(s)
    /\ Goto(s, "idle")
    /\ lateCalls' = [lateCalls EXCEPT ![s] = 0]
    /\ UNCHANGED <<planVars, todo, chunk, final, ret, api,
                   accepted, answered, calcRuns>>

FlowCrash ==
    /\ Crash
    /\ pc'     = [s \in Slots |-> "idle"]
    /\ todo'   = [s \in Slots |-> {}]
    /\ chunk'  = [s \in Slots |-> {}]
    /\ final'  = [s \in Slots |-> NoFinal]
    /\ ret'    = [s \in Slots |-> "succeed"]
    /\ lateCalls' = [s \in Slots |-> 0]
    /\ UNCHANGED <<planVars, api, accepted, answered, calcRuns>>

FlowTime(j) ==
    /\ RunAtPasses(j) \/ LeaseExpires(j)
    /\ UNCHANGED flowVars

-----------------------------------------------------------------------------
Request(c) ==
    \/ \E p \in Plans : CreatePlan(c, p) \/ ClickDispatch(c, p) \/ ReadForCancel(c, p)
    \/ WriteCancel(c)
    \/ EnqueueRecalc(c) \/ RecalcNotEnqueued(c)
    \/ EnqueueDispatch(c) \/ DispatchNotEnqueued(c)
    \/ RequestLost(c)

SlotStep(s) ==
    \/ FlowClaim(s) \/ RecalcStep(s) \/ DispatchStep(s)
    \/ HandlerError(s) \/ ReturnNil(s) \/ FlowSave(s)

FlowNext ==
    \/ \E c \in Clients : Request(c)
    \/ \E s \in Slots : SlotStep(s)
    \/ \E j \in Jobs : FlowTime(j)
    \/ FlowCrash
    \/ \E p \in Plans : StalePlanCleanup(p)

FlowSpec == FlowInit /\ [][FlowNext]_allVars

\* The scheduler's cron keeps ticking and a request to the API ends one way or
\* another; of the worker nothing is asked.
RequestEnds(c) ==
    EnqueueRecalc(c) \/ RecalcNotEnqueued(c) \/ RequestLost(c)

FlowFairness ==
    /\ \A p \in Plans : WF_allVars(StalePlanCleanup(p))
    /\ \A c \in Clients : WF_allVars(RequestEnds(c))
FairFlowSpec == FlowSpec /\ FlowFairness

-----------------------------------------------------------------------------
(* Properties.                                                             *)

HandlerPoints == {"processing", "insert", "calculated", "auto", "enqueue",
                  "load", "list", "shop", "check", "call", "mark", "reject",
                  "exhaust", "giveUp", "count", "write", "done"}
Requests == {NoRequest} \cup
    [op : {"enqueueRecalc", "enqueueDispatch", "cancel"}, plan : Plans]

\* Types of the plan tables, of the handlers' local state and of the requests.
FlowTypeOK ==
    /\ plan   \in [Plans -> PlanStatuses]
    /\ item   \in [Rows -> ItemStatuses]
    /\ price  \in [Rows -> Prices \cup {"none"}]
    /\ pc     \in [Slots -> HandlerPoints \cup {"idle", "save"}]
    /\ \A s \in Slots : {todo[s], chunk[s]} \subseteq SUBSET Rows
    /\ final  \in [Slots -> PlanTerminal \cup {NoFinal}]
    /\ ret    \in [Slots -> {"succeed", "retry", "fail"}]
    /\ api    \in [Clients -> Requests]
    /\ accepted \subseteq Rows
    /\ answered \subseteq Rows
    /\ calcRuns  \in [Plans -> Nat]
    /\ lateCalls \in [Slots -> Nat]

\* The two handlers use the queue as JobQueue lets any handler use it: every
\* step of the flow is a step of the queue or leaves it alone, and a handler
\* asks for another attempt only while its job has one left.
RunsTheQueue == Spec

\* A row says 'dispatched' only when a call that carried its price was answered
\* without an error, whichever attempt, slot or retry marks it.
DispatchedWasAnswered ==
    \A r \in Rows : item[r] = "dispatched" => r \in answered

\* domain.PlanItemStatusDispatched, migration 000012: the price of a row that
\* says 'dispatched' was sent to the marketplace and accepted by it.
DispatchedWasAccepted ==
    \A r \in Rows : item[r] = "dispatched" => r \in accepted

\* The compare-and-set of EnqueueDispatch against double clicks and the
\* auto-dispatch: every dispatch job of a plan, inserted or about to be, goes
\* back to a calculation of its own, even after roll-backs and re-calculations.
DispatchJobs(p) == {j \in Jobs : /\ Kind[j] = "price_dispatch"
                                 /\ PlanOf[j] = p
                                 /\ status[j] # "absent"}
Enqueueing(p) ==
    {c \in Clients : api[c] # NoRequest /\ api[c].op = "enqueueDispatch"
                                        /\ api[c].plan = p}
    \cup {s \in Slots : At(s, "enqueue") /\ Target(s) = p}

NoDoubleDispatch ==
    \A p \in Plans :
        Cardinality(DispatchJobs(p)) + Cardinality(Enqueueing(p)) <= calcRuns[p]

\* One goroutine (WORKER_CONCURRENCY=1): once a plan is cancelled, a dispatch
\* under way finishes the chunk it is sending and sends no other.
CancelStopsWithinChunk == \A s \in Slots : lateCalls[s] <= 1

\* One goroutine: a price is never sent again once its row is marked
\* dispatched, whatever is retried or interrupted in between.
SentUntilMarked ==
    \A s \in Slots : At(s, "call") => \A r \in chunk[s] : item[r] = "pending"

\* One goroutine: the final status of a plan agrees with its rows, however the
\* last attempt came to write it.
StatusMatchesRows ==
    \A p \in Plans :
        LET has(st) == \E r \in Rows : r[1] = p /\ item[r] = st IN
        /\ plan[p] = "applied" => ~has("pending") /\ ~has("failed")
        /\ plan[p] = "partial" => ~has("pending") /\ has("dispatched") /\ has("failed")

\* "A guard against plans left hanging by a dead worker" (StalePlanCleanupTick):
\* no plan stays pending, processing or dispatching for ever.
PlanNeverHangs == \A p \in Plans : Stale(p) ~> ~Stale(p)

\* Migration 000012: 'cancelled' is one of the ends of a plan, decided by the
\* user; the worker does not take the plan up again.
CancelledStaysCancelled ==
    [][\A p \in Plans : plan[p] = "cancelled" => plan'[p] = "cancelled"]_allVars
=============================================================================
