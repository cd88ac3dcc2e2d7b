--------------------------- MODULE PlanFlowProofs ---------------------------
(***************************************************************************)
(* Proofs about PlanFlow: the two handlers are users of the queue, so that *)
(* every theorem of JobQueueProofs holds of the flow; and a row says       *)
(* 'dispatched' only of a price the marketplace has taken.                 *)
(***************************************************************************)
EXTENDS PlanFlow, JobQueueProofs, FiniteSetTheorems

DispatchPoints == {"load", "list", "shop", "check", "call", "mark", "reject",
                   "exhaust", "giveUp", "count", "write"}

\* What a slot's verdict says of its job, and where it may be.
SlotShape(s) ==
    /\ pc[s] = "save" \/ holds[s] = NoJob => ret[s] = "succeed"
    /\ holds[s] # NoJob /\ pc[s] \in DispatchPoints
            => Kind[holds[s]] = "price_dispatch"
    /\ ret[s] = "retry" => pc[s] = "done" /\ tryNo[s] < MaxAttempts[holds[s]]
    /\ ret[s] = "fail" => \/ Kind[holds[s]] = "price_dispatch"
                          \/ tryNo[s] >= MaxAttempts[holds[s]]

FlowInv ==
    /\ TypeOK
    /\ pc  \in [Slots -> HandlerPoints \cup {"idle", "save"}]
    /\ ret \in [Slots -> {"succeed", "retry", "fail"}]
    /\ \A s \in Slots : SlotShape(s)

-----------------------------------------------------------------------------
(* The flow runs the queue.                                                *)

\* The verdict a handler returns is one that JobQueue allows for its kind.
LEMMA VerdictAllowed ==
    ASSUME FlowInv, NEW s \in Slots, ReturnNil(s)
    PROVE  HandlerReturns(s)
<1> USE QueueAssumption, FlowAssumption DEF FlowInv, TypeOK, SlotShape
<1>1. holds[s] \in Jobs /\ tryNo[s] \in Nat /\ MaxAttempts[holds[s]] \in Nat
  BY DEF ReturnNil, At
<1>2. Kind[holds[s]] \in {"price_recalculation", "price_dispatch"}
  BY <1>1
<1>3. WithNil(ret[s]) \in OtherOutcomes(holds[s], tryNo[s])
  <2>1. CASE ret[s] = "succeed"
    BY <2>1 DEF OtherOutcomes
  <2>2. CASE ret[s] = "retry"
    BY <1>1, <2>2 DEF OtherOutcomes
  <2>3. CASE ret[s] = "fail"
    <3>1. CASE Kind[holds[s]] = "price_dispatch"
      BY <2>3, <3>1 DEF OtherOutcomes
    <3>2. CASE tryNo[s] >= MaxAttempts[holds[s]]
      BY <1>1, <2>3, <3>2 DEF OtherOutcomes
    <3>3. QED
      BY <2>3, <3>1, <3>2
  <2>4. QED
    BY <2>1, <2>2, <2>3
<1>4. QED
  BY <1>1, <1>2, <1>3 DEF HandlerReturns, Outcomes, ReturnNil

\* Every step of the flow is a step of the queue or leaves it alone.
LEMMA FlowStepsAreQueueSteps ==
    ASSUME FlowInv, [FlowNext]_allVars
    PROVE  [Next]_vars
<1>1. ASSUME NEW c \in Clients, Request(c) PROVE [Next]_vars
  <2>1. CASE \E p \in Plans : CreatePlan(c, p) \/ ClickDispatch(c, p)
                                               \/ ReadForCancel(c, p)
    BY <2>1 DEF CreatePlan, ClickDispatch, ReadForCancel
  <2>2. CASE WriteCancel(c) \/ RecalcNotEnqueued(c) \/ DispatchNotEnqueued(c)
                            \/ RequestLost(c)
    BY <2>2 DEF WriteCancel, RecalcNotEnqueued, DispatchNotEnqueued, RequestLost
  <2>3. CASE EnqueueRecalc(c) \/ EnqueueDispatch(c)
    BY <2>3 DEF EnqueueRecalc, EnqueueDispatch, Next, TableStep
  <2>4. QED
    BY <1>1, <2>1, <2>2, <2>3 DEF Request
<1>2. ASSUME NEW s \in Slots, SlotStep(s) PROVE [Next]_vars
  <2>1. CASE FlowClaim(s)
    BY <2>1 DEF FlowClaim, Next, WorkerStep
  <2>2. CASE RecalcStep(s)
    <3>1. CASE AutoEnqueue(s)
      BY <3>1 DEF AutoEnqueue, Next, TableStep
    <3>2. CASE ~AutoEnqueue(s)
      BY <2>2, <3>2 DEF RecalcStep, MarkProcessing, InsertItems, RecalcFails,
                        MarkCalculated, AutoDispatch, AutoNotEnqueued
    <3>3. QED
      BY <3>1, <3>2
  <2>3. CASE DispatchStep(s)
    BY <2>3 DEF DispatchStep, LoadPlan, ListItems, BuildClient, NextChunk,
       StopDispatch, ChunksDone, CallSucceeds, CallFails,
       MarkDispatched, FailItem, Rejected, ListExhausted, GivenUp, CountItems,
       WriteFinal
  <2>4. CASE HandlerError(s)
    BY <2>4 DEF HandlerError
  <2>5. CASE ReturnNil(s)
    BY <2>5, VerdictAllowed DEF Next, WorkerStep
  <2>6. CASE FlowSave(s)
    BY <2>6 DEF FlowSave, Next, WorkerStep
  <2>7. QED
    BY <1>2, <2>1, <2>2, <2>3, <2>4, <2>5, <2>6 DEF SlotStep
<1>3. ASSUME NEW j \in Jobs, FlowTime(j) PROVE [Next]_vars
  BY <1>3 DEF FlowTime, Next, TableStep
<1>4. CASE FlowCrash
  BY <1>4 DEF FlowCrash, Next
<1>5. ASSUME NEW p \in Plans, StalePlanCleanup(p) PROVE [Next]_vars
  BY <1>5 DEF StalePlanCleanup
<1>6. CASE UNCHANGED allVars
  BY <1>6 DEF allVars
<1>7. QED
  BY <1>1, <1>2, <1>3, <1>4, <1>5, <1>6 DEF FlowNext

-----------------------------------------------------------------------------
(* FlowInv is inductive.                                                   *)

\* What the other processes do leaves every slot as it is.
LEMMA RequestKeepsSlots ==
    ASSUME FlowInv, TypeOK', UNCHANGED slotVars, UNCHANGED <<pc, ret>>
    PROVE  FlowInv'
BY DEF FlowInv, SlotShape, slotVars

\* An error ends the attempt, or sends a dispatch to MarkExhausted.
LEMMA ErrorKeepsInv ==
    ASSUME FlowInv, TypeOK', NEW s \in Slots, holds[s] # NoJob,
           pc[s] \in HandlerPoints \ {"done"}, AfterError(s), UNCHANGED vars
    PROVE  FlowInv'
<1> USE QueueAssumption, FlowAssumption DEF FlowInv, TypeOK
<1>1. UNCHANGED <<holds, tryNo>>
  BY DEF vars
<1>2. holds[s] \in Jobs /\ tryNo[s] \in Nat /\ MaxAttempts[holds[s]] \in Nat
  OBVIOUS
<1>3. Kind[holds[s]] \in {"price_recalculation", "price_dispatch"}
  BY <1>2
<1>4. ret[s] \in {"succeed", "fail"}
  BY DEF SlotShape
<1>5. ASSUME NEW t \in Slots, t # s PROVE SlotShape(t)'
  <2>1. pc'[t] = pc[t] /\ ret'[t] = ret[t]
    BY <1>5 DEF AfterError, Goto
  <2>2. QED
    BY <2>1, <1>1 DEF SlotShape
<1>6. SlotShape(s)'
  <2>1. CASE ret[s] = "succeed" /\ tryNo[s] < MaxAttempts[holds[s]]
    BY <2>1, <1>1, <1>2 DEF AfterError, Goto, SlotShape, DispatchPoints
  <2>2. CASE ~(ret[s] = "succeed" /\ tryNo[s] < MaxAttempts[holds[s]])
    <3>1. ret'[s] = "fail" /\ pc'[s] \in {"exhaust", "done"}
      BY <2>2 DEF AfterError, Goto
    <3>2. pc'[s] = "exhaust" => Kind[holds[s]] = "price_dispatch"
      BY <2>2 DEF AfterError, Goto
    <3>3. \/ Kind[holds[s]] = "price_dispatch"
          \/ tryNo[s] >= MaxAttempts[holds[s]]
      BY <1>2, <1>4, <2>2 DEF SlotShape
    <3>4. QED
      BY <3>1, <3>2, <3>3, <1>1 DEF SlotShape, DispatchPoints
  <2>3. QED
    BY <2>1, <2>2
<1>7. /\ pc'  \in [Slots -> HandlerPoints \cup {"idle", "save"}]
      /\ ret' \in [Slots -> {"succeed", "retry", "fail"}]
  BY DEF AfterError, Goto, HandlerPoints
<1>8. QED
  BY <1>5, <1>6, <1>7

\* A step inside the handler that neither errs nor ends it.
LEMMA MoveKeepsInv ==
    ASSUME FlowInv, TypeOK', NEW s \in Slots, holds[s] # NoJob,
           pc[s] \in HandlerPoints \ {"done"},
           NEW where \in HandlerPoints, Goto(s, where),
           where \in DispatchPoints => Kind[holds[s]] = "price_dispatch",
           UNCHANGED slotVars, UNCHANGED ret
    PROVE  FlowInv'
<1> USE DEF FlowInv, slotVars
<1>1. ASSUME NEW t \in Slots, t # s PROVE SlotShape(t)'
  BY <1>1 DEF Goto, SlotShape
<1>2. SlotShape(s)'
  <2>1. pc'[s] = where
    BY DEF Goto
  <2>2. ret[s] # "retry"
    BY DEF SlotShape
  <2>3. where \notin {"save", "idle"}
    BY DEF HandlerPoints
  <2>4. QED
    BY <2>1, <2>2, <2>3 DEF SlotShape
<1>3. pc' \in [Slots -> HandlerPoints \cup {"idle", "save"}]
  BY DEF Goto
<1>4. QED
  BY <1>1, <1>2, <1>3

LEMMA RecalcKeepsInv ==
    ASSUME FlowInv, TypeOK', NEW s \in Slots, RecalcStep(s)
    PROVE  FlowInv'
<1> USE DEF slotVars, vars
<1>1. CASE RecalcFails(s)
  BY <1>1, ErrorKeepsInv DEF RecalcFails, At, HandlerPoints
<1>2. CASE ~RecalcFails(s)
  <2>1. UNCHANGED slotVars /\ UNCHANGED ret /\ holds[s] # NoJob
    BY <1>2 DEF RecalcStep, MarkProcessing, InsertItems, MarkCalculated,
                AutoDispatch, AutoEnqueue, AutoNotEnqueued, Enqueue, At
  <2>2. /\ pc[s] \in HandlerPoints \ {"done"}
        /\ \E where \in {"insert", "calculated", "auto", "enqueue", "done"} :
              Goto(s, where)
    BY <1>2 DEF RecalcStep, MarkProcessing, InsertItems, MarkCalculated,
                AutoDispatch, AutoEnqueue, AutoNotEnqueued, At, HandlerPoints
  <2>3. QED
    BY <2>1, <2>2, MoveKeepsInv DEF HandlerPoints, DispatchPoints
<1>3. QED
  BY <1>1, <1>2

LEMMA DispatchKeepsInv ==
    ASSUME FlowInv, TypeOK', NEW s \in Slots, DispatchStep(s)
    PROVE  FlowInv'
<1> USE DEF slotVars, vars
<1>1. CASE CallFails(s)
  BY <1>1, ErrorKeepsInv DEF CallFails, At, HandlerPoints
<1>2. CASE Rejected(s)
  <2>1. /\ holds[s] # NoJob /\ pc[s] = "reject" /\ UNCHANGED slotVars
        /\ pc'  = [pc EXCEPT ![s] = "done"]
        /\ ret' = [ret EXCEPT ![s] = "fail"]
    BY <1>2 DEF Rejected, At, Goto
  <2>2. Kind[holds[s]] = "price_dispatch"
    BY <2>1 DEF FlowInv, SlotShape, DispatchPoints
  <2>3. ASSUME NEW t \in Slots PROVE SlotShape(t)'
    BY <2>1, <2>2 DEF FlowInv, SlotShape, DispatchPoints
  <2>4. QED
    BY <2>1, <2>3 DEF FlowInv, HandlerPoints
<1>3. CASE FailItem(s)
  BY <1>3, RequestKeepsSlots DEF FailItem
<1>4. CASE ~CallFails(s) /\ ~Rejected(s) /\ ~FailItem(s)
  <2>1. UNCHANGED slotVars /\ UNCHANGED ret /\ holds[s] # NoJob
    BY <1>4 DEF DispatchStep, LoadPlan, ListItems, BuildClient, NextChunk,
       StopDispatch, ChunksDone, CallSucceeds,
       MarkDispatched, ListExhausted, GivenUp, CountItems, WriteFinal, At
  <2>2. /\ pc[s] \in DispatchPoints
        /\ \E where \in DispatchPoints \cup {"done"} : Goto(s, where)
    BY <1>4 DEF DispatchStep, LoadPlan, ListItems, BuildClient, NextChunk,
       StopDispatch, ChunksDone, CallSucceeds,
       MarkDispatched, ListExhausted, GivenUp, CountItems, WriteFinal, At,
       DispatchPoints
  <2>3. Kind[holds[s]] = "price_dispatch"
    BY <2>1, <2>2 DEF FlowInv, SlotShape
  <2>4. QED
    BY <2>1, <2>2, <2>3, MoveKeepsInv DEF HandlerPoints, DispatchPoints
<1>5. QED
  BY <1>1, <1>2, <1>3, <1>4

\* Claiming starts a handler of the job's kind; saving forgets the attempt.
LEMMA ClaimAndSaveKeepFlow ==
    ASSUME FlowInv, TypeOK', NEW s \in Slots, FlowClaim(s) \/ FlowSave(s)
    PROVE  FlowInv'
<1> USE QueueAssumption, FlowAssumption DEF FlowInv, TypeOK
<1>1. CASE FlowClaim(s)
  <2>1. PICK j \in Jobs : /\ holds' = [holds EXCEPT ![s] = j]
                          /\ tryNo' = [tryNo EXCEPT ![s] = NextAttempt(j)]
    BY <1>1 DEF FlowClaim, Claim
  <2>2. holds[s] = NoJob /\ UNCHANGED ret
    BY <1>1 DEF FlowClaim, Claim
  <2>3. pc' = [pc EXCEPT ![s] = IF Kind[j] = "price_recalculation"
                                THEN "processing" ELSE "load"]
    BY <1>1, <2>1 DEF FlowClaim, Goto
  <2>4. Kind[j] \in {"price_recalculation", "price_dispatch"}
    OBVIOUS
  <2>5. ASSUME NEW t \in Slots PROVE SlotShape(t)'
    <3>1. CASE t = s
      BY <2>1, <2>2, <2>3, <2>4, <3>1 DEF SlotShape, DispatchPoints
    <3>2. CASE t # s
      BY <2>1, <2>2, <2>3, <3>2 DEF SlotShape
    <3>3. QED
      BY <3>1, <3>2
  <2>6. QED
    BY <2>2, <2>3, <2>5 DEF HandlerPoints
<1>2. CASE FlowSave(s)
  <2>1. /\ holds' = [holds EXCEPT ![s] = NoJob]
        /\ tryNo' = [tryNo EXCEPT ![s] = 0]
    BY <1>2 DEF FlowSave, Save, SaveRetry, SaveSucceed, SaveFail, SaveLost,
                SettleRow, Release
  <2>2. pc[s] = "save" /\ pc' = [pc EXCEPT ![s] = "idle"] /\ UNCHANGED ret
    BY <1>2 DEF FlowSave, At, Goto
  <2>3. ASSUME NEW t \in Slots PROVE SlotShape(t)'
    <3>1. CASE t = s
      BY <2>1, <2>2, <3>1 DEF SlotShape, DispatchPoints
    <3>2. CASE t # s
      BY <2>1, <2>2, <3>2 DEF SlotShape
    <3>3. QED
      BY <3>1, <3>2
  <2>4. QED
    BY <2>2, <2>3
<1>3. QED
  BY <1>1, <1>2

\* Returning forgets the handler's local state once the verdict is passed on.
LEMMA ReturnKeepsInv ==
    ASSUME FlowInv, TypeOK', NEW s \in Slots, ReturnNil(s)
    PROVE  FlowInv'
<1>1. /\ UNCHANGED <<holds, tryNo>>
      /\ pc'  = [pc EXCEPT ![s] = "save"]
      /\ ret' = [ret EXCEPT ![s] = "succeed"]
  BY DEF ReturnNil, Decide, Goto, ClearLocals
<1>2. ASSUME NEW t \in Slots PROVE SlotShape(t)'
  BY <1>1 DEF FlowInv, SlotShape, DispatchPoints
<1>3. QED
  BY <1>1, <1>2 DEF FlowInv

LEMMA FlowStepKeepsInv ==
    ASSUME FlowInv, [FlowNext]_allVars
    PROVE  FlowInv'
<1>1. TypeOK'
  BY FlowStepsAreQueueSteps, StepKeepsTypes DEF FlowInv
<1>2. ASSUME NEW c \in Clients, Request(c) PROVE FlowInv'
  <2>1. UNCHANGED slotVars /\ UNCHANGED <<pc, ret>>
    BY <1>2 DEF Request, CreatePlan, ClickDispatch, ReadForCancel, WriteCancel,
       EnqueueRecalc, RecalcNotEnqueued, EnqueueDispatch, DispatchNotEnqueued,
       RequestLost, Enqueue, vars, slotVars, localVars
  <2>2. QED
    BY <1>1, <2>1, RequestKeepsSlots
<1>3. ASSUME NEW s \in Slots, SlotStep(s) PROVE FlowInv'
  <2>1. CASE FlowClaim(s) \/ FlowSave(s)
    BY <1>1, <2>1, ClaimAndSaveKeepFlow
  <2>2. CASE RecalcStep(s)
    BY <1>1, <2>2, RecalcKeepsInv
  <2>3. CASE DispatchStep(s)
    BY <1>1, <2>3, DispatchKeepsInv
  <2>4. CASE HandlerError(s)
    BY <1>1, <2>4, ErrorKeepsInv DEF HandlerError, HandlerPoints
  <2>5. CASE ReturnNil(s)
    BY <1>1, <2>5, ReturnKeepsInv
  <2>6. QED
    BY <1>3, <2>1, <2>2, <2>3, <2>4, <2>5 DEF SlotStep
<1>4. ASSUME NEW j \in Jobs, FlowTime(j) PROVE FlowInv'
  <2>1. UNCHANGED slotVars /\ UNCHANGED <<pc, ret>>
    BY <1>4 DEF FlowTime, RunAtPasses, LeaseExpires, flowVars, localVars, slotVars
  <2>2. QED
    BY <1>1, <2>1, RequestKeepsSlots
<1>5. CASE FlowCrash
  <2>1. \A s \in Slots : SlotShape(s)'
    BY <1>5 DEF FlowCrash, Crash, SlotShape
  <2>2. QED
    BY <1>1, <1>5, <2>1 DEF FlowInv, FlowCrash
<1>6. ASSUME NEW p \in Plans, StalePlanCleanup(p) PROVE FlowInv'
  <2>1. UNCHANGED slotVars /\ UNCHANGED <<pc, ret>>
    BY <1>6 DEF StalePlanCleanup, vars, slotVars, localVars
  <2>2. QED
    BY <1>1, <2>1, RequestKeepsSlots
<1>7. CASE UNCHANGED allVars
  <2>1. UNCHANGED slotVars /\ UNCHANGED <<pc, ret>>
    BY <1>7 DEF allVars, flowVars, vars, slotVars, localVars
  <2>2. QED
    BY <1>1, <2>1, RequestKeepsSlots
<1>8. QED
  BY <1>2, <1>3, <1>4, <1>5, <1>6, <1>7 DEF FlowNext

\* The recalculation and dispatch handlers never do to the queue what JobQueue
\* does not allow, in particular never ask for an attempt the job has not got:
\* FlowSpec implies the specification of the queue.
THEOREM FlowRunsTheQueue == FlowSpec => RunsTheQueue
<1>1. FlowInit => Init /\ FlowInv
  <2> SUFFICES ASSUME FlowInit PROVE Init /\ FlowInv
    OBVIOUS
  <2>1. TypeOK
    BY QueueAssumption DEF FlowInit, Init, TypeOK, Statuses, Waiting, Terminal,
                           Outcome, Undecided
  <2>2. \A s \in Slots : SlotShape(s)
    BY DEF FlowInit, Init, SlotShape
  <2>3. QED
    BY <2>1, <2>2 DEF FlowInit, FlowInv
<1>2. FlowInv /\ [FlowNext]_allVars => FlowInv'
  BY FlowStepKeepsInv
<1>3. FlowInv /\ [FlowNext]_allVars => [Next]_vars
  BY FlowStepsAreQueueSteps
<1>4. QED
  BY <1>1, <1>2, <1>3, PTL DEF FlowSpec, RunsTheQueue, Spec

\* So no attempt of a recalculation or a dispatch runs in two goroutines.
COROLLARY FlowAttemptsRunOnce == FlowSpec => []AttemptRunsOnce
BY FlowRunsTheQueue, AttemptsRunOnce, PTL DEF RunsTheQueue

-----------------------------------------------------------------------------
(* What 'dispatched' means.                                                *)

\* Between the answer of the client and the marks, the chunk is answered.
AnsweredInv ==
    /\ item  \in [Rows -> ItemStatuses]
    /\ todo  \in [Slots -> SUBSET Rows]
    /\ chunk \in [Slots -> SUBSET Rows]
    /\ pc    \in [Slots -> HandlerPoints \cup {"idle", "save"}]
    /\ \A s \in Slots : pc[s] = "mark" => chunk[s] \subseteq answered
    /\ DispatchedWasAnswered

LEMMA RecalcKeepsAnswered ==
    ASSUME AnsweredInv, NEW s \in Slots, RecalcStep(s)
    PROVE  AnsweredInv'
<1> USE DEF AnsweredInv, DispatchedWasAnswered
<1>1. /\ UNCHANGED <<todo, chunk, answered>>
      /\ \E where \in HandlerPoints \ {"mark"} : Goto(s, where)
  BY DEF RecalcStep, MarkProcessing, InsertItems, RecalcFails, AfterError,
         MarkCalculated, AutoDispatch, AutoEnqueue, AutoNotEnqueued, Goto,
         HandlerPoints, ghostVars
<1>2. /\ pc' \in [Slots -> HandlerPoints \cup {"idle", "save"}]
      /\ \A t \in Slots : pc'[t] = "mark" => pc[t] = "mark"
  BY <1>1 DEF Goto
<1>3. CASE InsertItems(s)
  <2>1. PICK calc \in Calculations :
            LET new == {<<Target(s), x, tryNo[s]>> :
                            x \in {y \in Products : calc[y] # "none"}}
                priced(r) == calc[r[2]] \in Prices
            IN  item' = [r \in Rows |->
                    IF r \notin new THEN item[r]
                    ELSE IF priced(r) THEN "pending" ELSE calc[r[2]]]
    BY <1>3 DEF InsertItems
  <2> DEFINE new == {<<Target(s), x, tryNo[s]>> :
                        x \in {y \in Products : calc[y] # "none"}}
  <2>2. ASSUME NEW r \in Rows, r \in new, calc[r[2]] \notin Prices
        PROVE  calc[r[2]] \in {"skipped", "failed"}
    <3>1. PICK x \in Products : r = <<Target(s), x, tryNo[s]>> /\ calc[x] # "none"
      BY <2>2
    <3>2. r[2] = x
      BY <3>1
    <3>3. calc \in [Products -> Prices \cup {"none", "skipped", "failed"}]
      BY FlowAssumption
    <3>4. QED
      BY <2>2, <3>1, <3>2, <3>3
  <2>3. /\ item' \in [Rows -> ItemStatuses]
        /\ \A r \in Rows : item'[r] = "dispatched" => item[r] = "dispatched"
    BY <2>1, <2>2 DEF ItemStatuses
  <2>4. QED
    BY <1>1, <1>2, <2>3
<1>4. CASE ~InsertItems(s)
  <2>1. UNCHANGED item
    BY <1>4 DEF RecalcStep, MarkProcessing, RecalcFails, MarkCalculated,
                AutoDispatch, AutoEnqueue, AutoNotEnqueued, planVars
  <2>2. QED
    BY <1>1, <1>2, <2>1
<1>5. QED
  BY <1>3, <1>4

LEMMA DispatchKeepsAnswered ==
    ASSUME AnsweredInv, NEW s \in Slots, DispatchStep(s)
    PROVE  AnsweredInv'
<1> USE DEF AnsweredInv, DispatchedWasAnswered, planVars, ghostVars
<1>1. CASE MarkDispatched(s)
  BY <1>1 DEF MarkDispatched, MarkRow, At, Goto, HandlerPoints, ItemStatuses
<1>2. CASE FailItem(s)
  BY <1>2 DEF FailItem, MarkRow, ItemStatuses
<1>3. CASE CallSucceeds(s)
  BY <1>3 DEF CallSucceeds, At, Goto, HandlerPoints
<1>4. CASE CallFails(s)
  <2>1. /\ UNCHANGED <<item, todo, chunk>>
        /\ answered \subseteq answered'
        /\ Goto(s, "done") \/ Goto(s, "exhaust")
    BY <1>4 DEF CallFails, AfterError
  <2>2. QED
    BY <2>1 DEF Goto, HandlerPoints
<1>5. CASE NextChunk(s)
  BY <1>5 DEF NextChunk, Goto, HandlerPoints
<1>6. CASE ListItems(s) \/ ListExhausted(s)
  BY <1>6 DEF ListItems, ListExhausted, PendingRows, Goto, HandlerPoints
<1>7. CASE LoadPlan(s) \/ BuildClient(s) \/ StopDispatch(s) \/ ChunksDone(s)
             \/ Rejected(s) \/ GivenUp(s) \/ CountItems(s) \/ WriteFinal(s)
  <2>1. /\ UNCHANGED <<item, todo, chunk, answered>>
        /\ \E where \in HandlerPoints \ {"mark"} : Goto(s, where)
    BY <1>7 DEF LoadPlan, BuildClient, StopDispatch, ChunksDone, Rejected,
                GivenUp, CountItems, WriteFinal, HandlerPoints
  <2>2. QED
    BY <2>1 DEF Goto
<1>8. QED
  BY <1>1, <1>2, <1>3, <1>4, <1>5, <1>6, <1>7 DEF DispatchStep

LEMMA OthersKeepAnswered ==
    ASSUME AnsweredInv, UNCHANGED <<item, todo, chunk, pc, answered>>
    PROVE  AnsweredInv'
BY DEF AnsweredInv, DispatchedWasAnswered

\* A row is marked dispatched only after a call that carried it was answered
\* without an error: also when locks expire and several goroutines dispatch the
\* same plan.
THEOREM DispatchedRowsWereAnswered == FlowSpec => []DispatchedWasAnswered
<1>1. FlowInit => AnsweredInv
  BY DEF FlowInit, AnsweredInv, DispatchedWasAnswered, ItemStatuses
<1>2. AnsweredInv /\ [FlowNext]_allVars => AnsweredInv'
  <2> SUFFICES ASSUME AnsweredInv, [FlowNext]_allVars PROVE AnsweredInv'
    OBVIOUS
  <2>1. ASSUME NEW c \in Clients, Request(c) PROVE AnsweredInv'
    <3>1. UNCHANGED <<item, todo, chunk, pc, answered>>
      BY <2>1 DEF Request, CreatePlan, ClickDispatch, ReadForCancel, WriteCancel,
         EnqueueRecalc, RecalcNotEnqueued, EnqueueDispatch, DispatchNotEnqueued,
         RequestLost, planVars, localVars, ghostVars
    <3>2. QED
      BY <3>1, OthersKeepAnswered
  <2>2. ASSUME NEW s \in Slots, SlotStep(s) PROVE AnsweredInv'
    <3>1. CASE RecalcStep(s)
      BY <3>1, RecalcKeepsAnswered
    <3>2. CASE DispatchStep(s)
      BY <3>2, DispatchKeepsAnswered
    <3>3. CASE FlowClaim(s) \/ HandlerError(s) \/ FlowSave(s)
      <4>1. /\ UNCHANGED <<item, todo, chunk, answered>>
            /\ \E where \in (HandlerPoints \cup {"idle"}) \ {"mark"} : Goto(s, where)
        BY <3>3 DEF FlowClaim, HandlerError, AfterError, FlowSave, HandlerPoints,
                    planVars, ghostVars
      <4>2. QED
        BY <4>1 DEF Goto, AnsweredInv, DispatchedWasAnswered
    <3>4. CASE ReturnNil(s)
      BY <3>4 DEF ReturnNil, Goto, ClearLocals, AnsweredInv,
                  DispatchedWasAnswered, planVars, ghostVars
    <3>5. QED
      BY <2>2, <3>1, <3>2, <3>3, <3>4 DEF SlotStep
  <2>3. ASSUME NEW j \in Jobs, FlowTime(j) PROVE AnsweredInv'
    BY <2>3, OthersKeepAnswered
    DEF FlowTime, flowVars, planVars, localVars, ghostVars
  <2>4. CASE FlowCrash
    BY <2>4 DEF FlowCrash, AnsweredInv, DispatchedWasAnswered, planVars
  <2>5. ASSUME NEW p \in Plans, StalePlanCleanup(p) PROVE AnsweredInv'
    BY <2>5, OthersKeepAnswered DEF StalePlanCleanup, localVars, ghostVars
  <2>6. CASE UNCHANGED allVars
    BY <2>6, OthersKeepAnswered
    DEF allVars, flowVars, planVars, localVars, ghostVars
  <2>7. QED
    BY <2>1, <2>2, <2>3, <2>4, <2>5, <2>6 DEF FlowNext
<1>3. AnsweredInv => DispatchedWasAnswered
  BY DEF AnsweredInv
<1>4. QED
  BY <1>1, <1>2, <1>3, PTL DEF FlowSpec

-----------------------------------------------------------------------------
(* Types, of which FlowInv and AnsweredInv hold a part.                    *)

\* The end of a plan is written only once it has been chosen.
FlowTyped ==
    /\ FlowTypeOK
    /\ todo   \in [Slots -> SUBSET Rows]
    /\ chunk  \in [Slots -> SUBSET Rows]
    /\ \A s \in Slots : pc[s] = "write" => final[s] \in PlanTerminal

LEMMA RequestKeepsTyped ==
    ASSUME FlowTyped, NEW c \in Clients, Request(c)
    PROVE  FlowTyped'
<1> USE DEF FlowTyped, FlowTypeOK, UpdateStatus, PlanStatuses, PlanTerminal
<1>1. UNCHANGED <<item, price, pc, todo, chunk, final, ret, accepted, answered,
                  calcRuns, lateCalls>>
  BY DEF Request, CreatePlan, ClickDispatch, ReadForCancel, WriteCancel,
     EnqueueRecalc, RecalcNotEnqueued, EnqueueDispatch, DispatchNotEnqueued,
     RequestLost, planVars, localVars, ghostVars
<1>2. plan' \in [Plans -> PlanStatuses]
  BY DEF Request, CreatePlan, ClickDispatch, ReadForCancel, WriteCancel,
     EnqueueRecalc, RecalcNotEnqueued, EnqueueDispatch, DispatchNotEnqueued,
     RequestLost, RollBack, planVars
<1>3. api' \in [Clients -> Requests]
  <2>1. NoRequest \in Requests /\ \A p \in Plans :
            /\ [op |-> "enqueueRecalc", plan |-> p] \in Requests
            /\ [op |-> "enqueueDispatch", plan |-> p] \in Requests
            /\ [op |-> "cancel", plan |-> p] \in Requests
    BY DEF Requests
  <2>2. \E q \in Requests : api' = [api EXCEPT ![c] = q]
    BY <2>1 DEF Request, CreatePlan, ClickDispatch, ReadForCancel, WriteCancel,
       EnqueueRecalc, RecalcNotEnqueued, EnqueueDispatch, DispatchNotEnqueued,
       RequestLost
  <2>3. QED
    BY <2>2
<1>4. QED
  BY <1>1, <1>2, <1>3

LEMMA RecalcKeepsTyped ==
    ASSUME FlowTyped, NEW s \in Slots, RecalcStep(s)
    PROVE  FlowTyped'
<1> USE DEF FlowTyped, FlowTypeOK, UpdateStatus, PlanStatuses, PlanTerminal
<1>1. /\ UNCHANGED <<todo, chunk, final, api, accepted, answered, lateCalls>>
      /\ \E where \in HandlerPoints \ {"write"} : Goto(s, where)
  BY DEF RecalcStep, MarkProcessing, InsertItems, RecalcFails, AfterError,
         MarkCalculated, AutoDispatch, AutoEnqueue, AutoNotEnqueued, Goto,
         HandlerPoints, ghostVars, planVars
<1>2. /\ pc' \in [Slots -> HandlerPoints \cup {"idle", "save"}]
      /\ \A t \in Slots : pc'[t] = "write" => pc[t] = "write"
  BY <1>1 DEF Goto
<1>3. ret' \in [Slots -> {"succeed", "retry", "fail"}]
  BY DEF RecalcStep, MarkProcessing, InsertItems, RecalcFails, AfterError,
         MarkCalculated, AutoDispatch, AutoEnqueue, AutoNotEnqueued
<1>4. plan' \in [Plans -> PlanStatuses]
  BY DEF RecalcStep, MarkProcessing, InsertItems, RecalcFails, planVars,
         MarkCalculated, AutoDispatch, AutoEnqueue, AutoNotEnqueued, RollBack
<1>5. calcRuns' \in [Plans -> Nat]
  <2>1. CASE MarkCalculated(s)
    <3>1. calcRuns' = [calcRuns EXCEPT ![Target(s)] = @ + 1]
      BY <2>1 DEF MarkCalculated
    <3> DEFINE n == calcRuns[Target(s)] + 1
    <3>2. calcRuns' = [calcRuns EXCEPT ![Target(s)] = n]
      BY <3>1
    <3>3. Target(s) \in Plans => n \in Nat
      OBVIOUS
    <3> HIDE DEF n
    <3>4. QED
      BY <3>2, <3>3
  <2>2. CASE ~MarkCalculated(s)
    BY <2>2 DEF RecalcStep, MarkProcessing, InsertItems, RecalcFails,
                AutoDispatch, AutoEnqueue, AutoNotEnqueued, ghostVars
  <2>3. QED
    BY <2>1, <2>2
<1>6. item' \in [Rows -> ItemStatuses] /\ price' \in [Rows -> Prices \cup {"none"}]
  <2>1. CASE InsertItems(s)
    <3>1. PICK calc \in Calculations :
            LET new == {<<Target(s), x, tryNo[s]>> :
                            x \in {y \in Products : calc[y] # "none"}}
                priced(r) == calc[r[2]] \in Prices
            IN  /\ item' = [r \in Rows |->
                    IF r \notin new THEN item[r]
                    ELSE IF priced(r) THEN "pending" ELSE calc[r[2]]]
                /\ price' = [r \in Rows |->
                    IF r \in new /\ priced(r) THEN calc[r[2]] ELSE price[r]]
      BY <2>1 DEF InsertItems
    <3> DEFINE new == {<<Target(s), x, tryNo[s]>> :
                          x \in {y \in Products : calc[y] # "none"}}
    <3>2. ASSUME NEW r \in Rows, r \in new, calc[r[2]] \notin Prices
          PROVE  calc[r[2]] \in ItemStatuses
      <4>1. PICK x \in Products : r = <<Target(s), x, tryNo[s]>> /\ calc[x] # "none"
        BY <3>2
      <4>2. r[2] = x
        BY <4>1
      <4>3. calc \in [Products -> Prices \cup {"none", "skipped", "failed"}]
        BY FlowAssumption
      <4>4. QED
        BY <3>2, <4>1, <4>2, <4>3 DEF ItemStatuses
    <3>3. \A r \in Rows : item'[r] \in ItemStatuses
      BY <3>1, <3>2 DEF ItemStatuses
    <3>4. \A r \in Rows : price'[r] \in Prices \cup {"none"}
      BY <3>1
    <3>5. QED
      BY <3>1, <3>3, <3>4
  <2>2. CASE ~InsertItems(s)
    BY <2>2 DEF RecalcStep, MarkProcessing, RecalcFails, MarkCalculated,
                AutoDispatch, AutoEnqueue, AutoNotEnqueued, planVars
  <2>3. QED
    BY <2>1, <2>2
<1>7. QED
  BY <1>1, <1>2, <1>3, <1>4, <1>5, <1>6

\* A dispatch, by what its steps write.
LEMMA DispatchKeepsTyped ==
    ASSUME FlowTyped, NEW s \in Slots, DispatchStep(s)
    PROVE  FlowTyped'
<1> USE DEF FlowTyped, FlowTypeOK, UpdateStatus, PlanStatuses, PlanTerminal,
            planVars, ghostVars
<1>1. CASE LoadPlan(s) \/ BuildClient(s) \/ StopDispatch(s) \/ ChunksDone(s)
             \/ Rejected(s) \/ GivenUp(s) \/ WriteFinal(s)
  <2>1. /\ UNCHANGED <<item, price, todo, chunk, final, api, accepted, answered,
                       calcRuns, lateCalls>>
        /\ \E where \in HandlerPoints \ {"write"} : Goto(s, where)
    BY <1>1 DEF LoadPlan, BuildClient, StopDispatch, ChunksDone, Rejected,
                GivenUp, WriteFinal, HandlerPoints
  <2>2. ret' \in [Slots -> {"succeed", "retry", "fail"}]
    BY <1>1 DEF LoadPlan, BuildClient, StopDispatch, ChunksDone, Rejected,
                GivenUp, WriteFinal
  <2>3. plan' \in [Plans -> PlanStatuses]
    BY <1>1 DEF LoadPlan, BuildClient, StopDispatch, ChunksDone, Rejected,
                GivenUp, WriteFinal, At
  <2>4. /\ pc' \in [Slots -> HandlerPoints \cup {"idle", "save"}]
        /\ \A t \in Slots : pc'[t] = "write" => pc[t] = "write"
    BY <2>1 DEF Goto
  <2>5. QED
    BY <2>1, <2>2, <2>3, <2>4
<1>2. CASE ListItems(s) \/ ListExhausted(s) \/ NextChunk(s) \/ FailItem(s)
             \/ MarkDispatched(s)
  <2>1. /\ UNCHANGED <<plan, price, final, ret, api, accepted, answered, calcRuns, lateCalls>>
        /\ todo'   \in [Slots -> SUBSET Rows]
        /\ chunk'  \in [Slots -> SUBSET Rows]
    BY <1>2 DEF ListItems, ListExhausted, NextChunk, FailItem, MarkDispatched,
                PendingRows
  <2>2. item' \in [Rows -> ItemStatuses]
    BY <1>2 DEF ListItems, ListExhausted, NextChunk, FailItem, MarkDispatched,
                MarkRow, ItemStatuses
  <2>3. UNCHANGED pc \/ \E where \in HandlerPoints \ {"write"} : Goto(s, where)
    BY <1>2 DEF ListItems, ListExhausted, NextChunk, FailItem, MarkDispatched,
                HandlerPoints
  <2>4. QED
    BY <2>1, <2>2, <2>3 DEF Goto
<1>3. CASE CallSucceeds(s) \/ CallFails(s)
  <2>1. UNCHANGED <<plan, item, price, final, api, calcRuns>>
    BY <1>3 DEF CallSucceeds, CallFails
  <2>2. /\ todo'  \in [Slots -> SUBSET Rows]
        /\ chunk' \in [Slots -> SUBSET Rows]
        /\ accepted' \subseteq Rows
        /\ answered' \subseteq Rows
    BY <1>3 DEF CallSucceeds, CallFails, Take
  <2>3. ret' \in [Slots -> {"succeed", "retry", "fail"}]
    BY <1>3 DEF CallSucceeds, CallFails, AfterError
  <2>4. \E where \in HandlerPoints \ {"write"} : Goto(s, where)
    BY <1>3 DEF CallSucceeds, CallFails, AfterError, HandlerPoints
  <2>5. lateCalls' \in [Slots -> Nat]
    <3>1. CountLateCall(s)
      BY <1>3 DEF CallSucceeds, CallFails
    <3>2. QED
      BY <3>1 DEF CountLateCall
  <2>6. /\ pc' \in [Slots -> HandlerPoints \cup {"idle", "save"}]
        /\ \A t \in Slots : pc'[t] = "write" => pc[t] = "write"
    BY <2>4 DEF Goto
  <2>7. QED
    BY <2>1, <2>2, <2>3, <2>5, <2>6
<1>4. CASE CountItems(s)
  <2>1. FinalStatus(Target(s)) \in PlanTerminal
    BY DEF FinalStatus
  <2>2. QED
    BY <1>4, <2>1 DEF CountItems, Goto, HandlerPoints
<1>5. QED
  BY <1>1, <1>2, <1>3, <1>4 DEF DispatchStep

LEMMA FlowStepKeepsTyped ==
    ASSUME FlowTyped, [FlowNext]_allVars
    PROVE  FlowTyped'
<1> USE DEF FlowTyped, FlowTypeOK, planVars, ghostVars, localVars
<1>1. ASSUME NEW s \in Slots, SlotStep(s) PROVE FlowTyped'
  <2>1. CASE FlowClaim(s) \/ HandlerError(s) \/ FlowSave(s)
    <3>1. /\ UNCHANGED <<plan, item, price, todo, chunk, final, api,
                         accepted, answered, calcRuns>>
          /\ \E where \in (HandlerPoints \cup {"idle"}) \ {"write"} : Goto(s, where)
      BY <2>1 DEF FlowClaim, HandlerError, AfterError, FlowSave, HandlerPoints
    <3>2. ret' \in [Slots -> {"succeed", "retry", "fail"}]
      BY <2>1 DEF FlowClaim, HandlerError, AfterError, FlowSave
    <3>3. lateCalls' \in [Slots -> Nat]
      BY <2>1 DEF FlowClaim, HandlerError, FlowSave
    <3>4. /\ pc' \in [Slots -> HandlerPoints \cup {"idle", "save"}]
          /\ \A t \in Slots : pc'[t] = "write" => pc[t] = "write"
      BY <3>1 DEF Goto
    <3>5. QED
      BY <3>1, <3>2, <3>3, <3>4
  <2>2. CASE ReturnNil(s)
    BY <2>2 DEF ReturnNil, Goto, ClearLocals
  <2>3. QED
    BY <1>1, <2>1, <2>2, RecalcKeepsTyped, DispatchKeepsTyped DEF SlotStep
<1>2. ASSUME NEW j \in Jobs, FlowTime(j) PROVE FlowTyped'
  BY <1>2 DEF FlowTime, flowVars
<1>3. CASE FlowCrash
  BY <1>3 DEF FlowCrash
<1>4. ASSUME NEW p \in Plans, StalePlanCleanup(p) PROVE FlowTyped'
  BY <1>4 DEF StalePlanCleanup, UpdateStatus, PlanStatuses, PlanTerminal
<1>5. CASE UNCHANGED allVars
  BY <1>5 DEF allVars, flowVars
<1>6. QED
  BY <1>1, <1>2, <1>3, <1>4, <1>5, RequestKeepsTyped DEF FlowNext

\* Whatever the requests, attempts and crashes, the tables and the handlers'
\* local state keep their types; no plan is given an end nobody chose.
THEOREM FlowTypes == FlowSpec => []FlowTypeOK
<1>1. FlowInit => FlowTyped
  BY DEF FlowInit, FlowTyped, FlowTypeOK, PlanStatuses, ItemStatuses, Requests
<1>2. FlowTyped /\ [FlowNext]_allVars => FlowTyped'
  BY FlowStepKeepsTyped
<1>3. FlowTyped => FlowTypeOK
  BY DEF FlowTyped
<1>4. QED
  BY <1>1, <1>2, <1>3, PTL DEF FlowSpec

-----------------------------------------------------------------------------
(* One dispatch per calculation.                                           *)

\* Those who have won the compare-and-set of a plan and not yet enqueued.
Clicked(p) == {c \in Clients : api[c] # NoRequest /\ api[c].op = "enqueueDispatch"
                                                  /\ api[c].plan = p}
Automatic(p) == {s \in Slots : At(s, "enqueue") /\ Target(s) = p}
Undispatched(p) == IF plan[p] = "calculated" THEN 1 ELSE 0

\* A calculation is spent by whoever takes the plan out of 'calculated', held by
\* him until the job is in the table, and only a roll-back gives it back.
Accounted(p) ==
    /\ IsFiniteSet(DispatchJobs(p)) /\ IsFiniteSet(Clicked(p)) /\ IsFiniteSet(Automatic(p))
    /\ Cardinality(DispatchJobs(p)) + Cardinality(Clicked(p))
            + Cardinality(Automatic(p)) + Undispatched(p) <= calcRuns[p]

AccountInv == \A p \in Plans : Accounted(p)

LEMMA AtMostOneMore ==
    ASSUME NEW S, NEW x, IsFiniteSet(S), NEW T, T \subseteq S \cup {x}
    PROVE  /\ IsFiniteSet(T)
           /\ Cardinality(S) \in Nat /\ Cardinality(T) \in Nat
           /\ Cardinality(T) <= Cardinality(S) + 1
<1>1. Cardinality(S) \in Nat
  BY FS_CardinalityType
<1>2. /\ IsFiniteSet(S \cup {x})
      /\ Cardinality(S \cup {x}) = IF x \in S THEN Cardinality(S) ELSE Cardinality(S) + 1
  BY FS_AddElement
<1>3. /\ IsFiniteSet(T)
      /\ Cardinality(T) <= Cardinality(S \cup {x})
  BY <1>2, FS_Subset
<1>4. Cardinality(T) \in Nat
  BY <1>3, FS_CardinalityType
<1> QED
  BY <1>1, <1>2, <1>3, <1>4

LEMMA OneLess ==
    ASSUME NEW S, NEW x \in S, IsFiniteSet(S), NEW T, T = S \ {x}
    PROVE  /\ IsFiniteSet(T)
           /\ Cardinality(S) \in Nat /\ Cardinality(T) \in Nat
           /\ Cardinality(T) = Cardinality(S) - 1
<1>1. Cardinality(S) \in Nat
  BY FS_CardinalityType
<1>2. /\ IsFiniteSet(S \ {x})
      /\ Cardinality(S \ {x}) = IF x \in S THEN Cardinality(S) - 1 ELSE Cardinality(S)
  BY FS_RemoveElement
<1>3. Cardinality(T) \in Nat
  BY <1>2, FS_CardinalityType
<1> QED
  BY <1>1, <1>2, <1>3

\* A step that does not enqueue, win or calculate.
LEMMA FewerAccounted ==
    ASSUME NEW p \in Plans, Accounted(p), calcRuns[p] \in Nat,
           DispatchJobs(p)' \subseteq DispatchJobs(p),
           Clicked(p)' \subseteq Clicked(p), Automatic(p)' \subseteq Automatic(p),
           plan'[p] = "calculated" => plan[p] = "calculated",
           calcRuns'[p] = calcRuns[p]
    PROVE  Accounted(p)'
<1>1. /\ IsFiniteSet(DispatchJobs(p)')
      /\ Cardinality(DispatchJobs(p)') <= Cardinality(DispatchJobs(p))
  BY FS_Subset DEF Accounted
<1>2. IsFiniteSet(Clicked(p)') /\ Cardinality(Clicked(p)') <= Cardinality(Clicked(p))
  BY FS_Subset DEF Accounted
<1>3. /\ IsFiniteSet(Automatic(p)')
      /\ Cardinality(Automatic(p)') <= Cardinality(Automatic(p))
  BY FS_Subset DEF Accounted
<1>4. Undispatched(p)' <= Undispatched(p)
  BY DEF Undispatched
<1> QED
  BY <1>1, <1>2, <1>3, <1>4, FS_CardinalityType DEF Accounted, Undispatched

\* A request wins the compare-and-set, enqueues, or rolls back.
LEMMA ClickAccounted ==
    ASSUME FlowTyped, TypeOK, AccountInv,
           NEW c \in Clients, NEW p \in Plans, ClickDispatch(c, p)
    PROVE  Accounted(p)'
<1>1. /\ plan[p] = "calculated" /\ plan'[p] = "dispatching"
      /\ DispatchJobs(p)' = DispatchJobs(p) /\ Automatic(p)' = Automatic(p)
      /\ calcRuns' = calcRuns
  BY DEF ClickDispatch, CanTransition, UpdateStatus, DispatchJobs, Automatic, At, Target,
         FlowTyped, FlowTypeOK, ghostVars, localVars, vars
<1>2. Clicked(p)' = Clicked(p) \cup {c}
  <2>1. api' = [api EXCEPT ![c] = [op |-> "enqueueDispatch", plan |-> p]]
    BY DEF ClickDispatch
  <2>2. [op |-> "enqueueDispatch", plan |-> p] # NoRequest
    BY DEF NoRequest
  <2>3. \A d \in Clients : d \in Clicked(p)' <=> d \in Clicked(p) \cup {c}
    BY <2>1, <2>2 DEF Clicked, FlowTyped, FlowTypeOK
  <2> QED
    BY <2>3 DEF Clicked
<1>3. IsFiniteSet(Clicked(p)') /\ Cardinality(Clicked(p)') <= Cardinality(Clicked(p)) + 1
  BY <1>2, AtMostOneMore DEF AccountInv, Accounted
<1>4. Undispatched(p)' = 0 /\ Undispatched(p) = 1
  BY <1>1 DEF Undispatched
<1> QED
  BY <1>1, <1>3, <1>4, FS_CardinalityType DEF AccountInv, Accounted, FlowTyped, FlowTypeOK

\* The job takes the place of the one who enqueues it.
LEMMA InsertAccounted ==
    ASSUME FlowTyped, TypeOK, NEW p \in Plans, Accounted(p), NEW j \in Jobs,
           DispatchJobs(p)' = DispatchJobs(p) \cup {j}, UNCHANGED <<plan, calcRuns>>,
           \/ /\ \E c \in Clicked(p) : Clicked(p)' = Clicked(p) \ {c}
              /\ Automatic(p)' = Automatic(p)
           \/ /\ \E s \in Automatic(p) : Automatic(p)' = Automatic(p) \ {s}
              /\ Clicked(p)' = Clicked(p)
    PROVE  Accounted(p)'
<1>1. /\ IsFiniteSet(DispatchJobs(p)')
      /\ Cardinality(DispatchJobs(p)') <= Cardinality(DispatchJobs(p)) + 1
  BY AtMostOneMore DEF Accounted
<1>2. /\ IsFiniteSet(Clicked(p)') /\ IsFiniteSet(Automatic(p)')
      /\ {Cardinality(Clicked(p)), Cardinality(Automatic(p)), Cardinality(Clicked(p)'),
          Cardinality(Automatic(p)')} \subseteq Nat
      /\ Cardinality(Clicked(p)') + Cardinality(Automatic(p)')
            = Cardinality(Clicked(p)) + Cardinality(Automatic(p)) - 1
  <2>1. IsFiniteSet(Clicked(p)) /\ IsFiniteSet(Automatic(p))
    BY DEF Accounted
  <2>2. Cardinality(Clicked(p)) \in Nat /\ Cardinality(Automatic(p)) \in Nat
    BY <2>1, FS_CardinalityType
  <2>3. CASE /\ \E c \in Clicked(p) : Clicked(p)' = Clicked(p) \ {c}
             /\ Automatic(p)' = Automatic(p)
    <3>1. /\ IsFiniteSet(Clicked(p)') /\ Cardinality(Clicked(p)') \in Nat
          /\ Cardinality(Clicked(p)') = Cardinality(Clicked(p)) - 1
      BY <2>1, <2>3, OneLess
    <3> QED
      BY <2>1, <2>2, <2>3, <3>1
  <2>4. CASE /\ \E s \in Automatic(p) : Automatic(p)' = Automatic(p) \ {s}
             /\ Clicked(p)' = Clicked(p)
    <3>1. /\ IsFiniteSet(Automatic(p)') /\ Cardinality(Automatic(p)') \in Nat
          /\ Cardinality(Automatic(p)') = Cardinality(Automatic(p)) - 1
      BY <2>1, <2>4, OneLess
    <3> QED
      BY <2>1, <2>2, <2>4, <3>1
  <2> QED
    BY <2>3, <2>4
<1>3. Undispatched(p)' = Undispatched(p)
  BY DEF Undispatched
<1>4. Cardinality(DispatchJobs(p)) \in Nat /\ Cardinality(DispatchJobs(p)') \in Nat
  BY <1>1, FS_CardinalityType DEF Accounted
<1>5. Undispatched(p) \in {0, 1} /\ calcRuns[p] \in Nat /\ calcRuns'[p] = calcRuns[p]
  BY DEF Undispatched, FlowTyped, FlowTypeOK
<1> QED
  BY <1>1, <1>2, <1>3, <1>4, <1>5 DEF Accounted

\* The roll-back gives the calculation back.
LEMMA RollBackAccounted ==
    ASSUME FlowTyped, TypeOK, NEW p \in Plans, Accounted(p), RollBack(p),
           DispatchJobs(p)' = DispatchJobs(p), UNCHANGED calcRuns,
           \/ /\ \E c \in Clicked(p) : Clicked(p)' = Clicked(p) \ {c}
              /\ Automatic(p)' = Automatic(p)
           \/ /\ \E s \in Automatic(p) : Automatic(p)' = Automatic(p) \ {s}
              /\ Clicked(p)' = Clicked(p)
    PROVE  Accounted(p)'
<1>1. /\ IsFiniteSet(Clicked(p)') /\ IsFiniteSet(Automatic(p)')
      /\ {Cardinality(Clicked(p)), Cardinality(Automatic(p)), Cardinality(Clicked(p)'),
          Cardinality(Automatic(p)')} \subseteq Nat
      /\ Cardinality(Clicked(p)') + Cardinality(Automatic(p)')
            = Cardinality(Clicked(p)) + Cardinality(Automatic(p)) - 1
  <2>1. IsFiniteSet(Clicked(p)) /\ IsFiniteSet(Automatic(p))
    BY DEF Accounted
  <2>2. Cardinality(Clicked(p)) \in Nat /\ Cardinality(Automatic(p)) \in Nat
    BY <2>1, FS_CardinalityType
  <2>3. CASE /\ \E c \in Clicked(p) : Clicked(p)' = Clicked(p) \ {c}
             /\ Automatic(p)' = Automatic(p)
    <3>1. /\ IsFiniteSet(Clicked(p)') /\ Cardinality(Clicked(p)') \in Nat
          /\ Cardinality(Clicked(p)') = Cardinality(Clicked(p)) - 1
      BY <2>1, <2>3, OneLess
    <3> QED
      BY <2>1, <2>2, <2>3, <3>1
  <2>4. CASE /\ \E s \in Automatic(p) : Automatic(p)' = Automatic(p) \ {s}
             /\ Clicked(p)' = Clicked(p)
    <3>1. /\ IsFiniteSet(Automatic(p)') /\ Cardinality(Automatic(p)') \in Nat
          /\ Cardinality(Automatic(p)') = Cardinality(Automatic(p)) - 1
      BY <2>1, <2>4, OneLess
    <3> QED
      BY <2>1, <2>2, <2>4, <3>1
  <2> QED
    BY <2>3, <2>4
<1>2. /\ Undispatched(p)' <= Undispatched(p) + 1
      /\ Undispatched(p) \in {0, 1} /\ Undispatched(p)' \in {0, 1}
  BY DEF Undispatched
<1>3. calcRuns[p] \in Nat
  BY DEF FlowTyped, FlowTypeOK
<1>4. Cardinality(DispatchJobs(p)) \in Nat
  BY FS_CardinalityType DEF Accounted
<1> QED
  BY <1>1, <1>2, <1>3, <1>4 DEF Accounted

\* No statement but Enqueue adds a row.
LEMMA OnlyEnqueueInserts ==
    ASSUME TypeOK, NEW p \in Plans,
           \/ UNCHANGED vars \/ Crash
           \/ \E j \in Jobs : RunAtPasses(j) \/ LeaseExpires(j)
           \/ \E s \in Slots : Claim(s) \/ (\E o : Decide(s, o)) \/ Save(s)
    PROVE  DispatchJobs(p)' \subseteq DispatchJobs(p)
<1>1. \A j \in Jobs : status'[j] # "absent" => status[j] # "absent"
  BY DEF TypeOK, vars, Crash, rowVars, RunAtPasses, LeaseExpires, Claim, IsHead, Claimable,
         Waiting, Decide, Save, SaveRetry, SaveSucceed, SaveFail, SaveLost, SettleRow
<1> QED
  BY <1>1 DEF DispatchJobs

\* A row of this plan is in the table once Enqueue has put it there.
LEMMA EnqueueInserts ==
    ASSUME TypeOK, NEW p \in Plans, NEW j \in Jobs, Enqueue(j)
    PROVE  /\ FreshJob("price_dispatch", p, j) => DispatchJobs(p)' = DispatchJobs(p) \cup {j}
           /\ Kind[j] # "price_dispatch" \/ PlanOf[j] # p
                => DispatchJobs(p)' = DispatchJobs(p)
<1>1. \A k \in Jobs : status'[k] # "absent" <=> (status[k] # "absent" \/ k = j)
  BY DEF Enqueue, TypeOK
<1> QED
  BY <1>1 DEF DispatchJobs, FreshJob

LEMMA RequestAccounted ==
    ASSUME FlowTyped, TypeOK, AccountInv, NEW c \in Clients, Request(c), NEW q \in Plans
    PROVE  Accounted(q)'
<1> USE DEF FlowTyped, FlowTypeOK, AccountInv
<1>1. /\ UNCHANGED <<calcRuns, holds, pc>>
      /\ Automatic(q)' = Automatic(q)
  BY DEF Request, CreatePlan, ClickDispatch, ReadForCancel, WriteCancel,
     EnqueueRecalc, RecalcNotEnqueued, EnqueueDispatch, DispatchNotEnqueued,
     RequestLost, Enqueue, localVars, ghostVars, vars, slotVars, Automatic, At, Target
<1>2. ASSUME NEW p \in Plans, ClickDispatch(c, p) PROVE Accounted(q)'
  <2>1. CASE p = q
    BY <1>2, <2>1, ClickAccounted
  <2>2. CASE p # q
    <3>1. Clicked(q)' \subseteq Clicked(q)
      BY <1>2, <2>2 DEF ClickDispatch, Clicked
    <3>2. DispatchJobs(q)' \subseteq DispatchJobs(q)
      BY <1>2, OnlyEnqueueInserts DEF ClickDispatch
    <3>3. plan'[q] = plan[q]
      BY <1>2, <2>2 DEF ClickDispatch, UpdateStatus
    <3> QED
      BY <1>1, <3>1, <3>2, <3>3, FewerAccounted
  <2> QED
    BY <2>1, <2>2
<1>3. CASE EnqueueDispatch(c)
  <2>1. PICK j \in Jobs : FreshJob("price_dispatch", api[c].plan, j) /\ Enqueue(j)
    BY <1>3 DEF EnqueueDispatch
  <2>2. api' = [api EXCEPT ![c] = NoRequest] /\ plan' = plan
    BY <1>3 DEF EnqueueDispatch, planVars
  <2>3. CASE api[c].plan = q
    <3>1. c \in Clicked(q) /\ Clicked(q)' = Clicked(q) \ {c}
      BY <1>3, <2>2, <2>3 DEF EnqueueDispatch, Clicked, NoRequest
    <3>2. DispatchJobs(q)' = DispatchJobs(q) \cup {j}
      BY <2>1, <2>3, EnqueueInserts
    <3> QED
      BY <1>1, <2>2, <3>1, <3>2, InsertAccounted
  <2>4. CASE api[c].plan # q
    <3>1. Clicked(q)' \subseteq Clicked(q)
      BY <2>2 DEF Clicked
    <3>2. DispatchJobs(q)' = DispatchJobs(q)
      BY <2>1, <2>4, EnqueueInserts DEF FreshJob
    <3> QED
      BY <1>1, <2>2, <3>1, <3>2, FewerAccounted
  <2> QED
    BY <2>3, <2>4
<1>4. CASE DispatchNotEnqueued(c)
  <2>1. /\ api' = [api EXCEPT ![c] = NoRequest] /\ RollBack(api[c].plan)
        /\ UNCHANGED vars
    BY <1>4 DEF DispatchNotEnqueued
  <2>2. DispatchJobs(q)' = DispatchJobs(q)
    BY <2>1 DEF DispatchJobs, vars
  <2>3. CASE api[c].plan = q
    <3>1. c \in Clicked(q) /\ Clicked(q)' = Clicked(q) \ {c}
      BY <1>4, <2>1, <2>3 DEF DispatchNotEnqueued, Clicked, NoRequest
    <3> QED
      BY <1>1, <2>1, <2>2, <2>3, <3>1, RollBackAccounted
  <2>4. CASE api[c].plan # q
    <3>1. Clicked(q)' \subseteq Clicked(q)
      BY <2>1 DEF Clicked
    <3>2. plan'[q] = plan[q]
      BY <2>1, <2>4 DEF RollBack, UpdateStatus
    <3> QED
      BY <1>1, <2>2, <3>1, <3>2, FewerAccounted
  <2> QED
    BY <2>3, <2>4
<1>5. CASE (\E p \in Plans : CreatePlan(c, p) \/ ReadForCancel(c, p)) \/ WriteCancel(c)
              \/ EnqueueRecalc(c) \/ RecalcNotEnqueued(c) \/ RequestLost(c)
  <2>1. Clicked(q)' \subseteq Clicked(q)
    BY <1>5 DEF CreatePlan, ReadForCancel, WriteCancel, EnqueueRecalc, RecalcNotEnqueued,
       RequestLost, Clicked
  <2>2. plan'[q] = "calculated" => plan[q] = "calculated"
    BY <1>5 DEF CreatePlan, ReadForCancel, WriteCancel, EnqueueRecalc, RecalcNotEnqueued,
       RequestLost, UpdateStatus, planVars
  <2>3. DispatchJobs(q)' \subseteq DispatchJobs(q)
    <3>1. CASE EnqueueRecalc(c)
      <4>1. PICK j \in Jobs : Kind[j] = "price_recalculation" /\ Enqueue(j)
        BY <3>1 DEF EnqueueRecalc, FreshJob
      <4> QED
        BY <4>1, EnqueueInserts
    <3>2. CASE UNCHANGED vars
      BY <3>2, OnlyEnqueueInserts
    <3> QED
      BY <1>5, <3>1, <3>2 DEF CreatePlan, ReadForCancel, WriteCancel, RecalcNotEnqueued,
         RequestLost
  <2> QED
    BY <1>1, <2>1, <2>2, <2>3, FewerAccounted
<1> QED
  BY <1>2, <1>3, <1>4, <1>5 DEF Request

LEMMA RecalcAccounted ==
    ASSUME FlowTyped, TypeOK, AccountInv, NEW s \in Slots, RecalcStep(s), NEW q \in Plans
    PROVE  Accounted(q)'
<1> USE DEF FlowTyped, FlowTypeOK, AccountInv
<1>1. /\ UNCHANGED holds
      /\ Clicked(q)' = Clicked(q)
      /\ holds[s] \in Jobs /\ Target(s) \in Plans
  BY FlowAssumption DEF TypeOK, RecalcStep, MarkProcessing, InsertItems, RecalcFails,
     MarkCalculated, AutoDispatch, AutoEnqueue, AutoNotEnqueued, Enqueue, slotVars, vars,
     Clicked, At, Target
<1>2. ASSUME NEW where \in HandlerPoints, where # "enqueue", Goto(s, where)
      PROVE  Automatic(q)' \subseteq Automatic(q)
  BY <1>1, <1>2 DEF Automatic, At, Target, Goto
<1>3. ASSUME pc[s] = "enqueue", Goto(s, "done")
      PROVE  /\ Target(s) = q => s \in Automatic(q) /\ Automatic(q)' = Automatic(q) \ {s}
             /\ Target(s) # q => Automatic(q)' = Automatic(q)
  BY <1>1, <1>3, QueueAssumption DEF Automatic, At, Target, Goto
<1>4. CASE MarkCalculated(s)
  <2>1. Automatic(q)' \subseteq Automatic(q)
    BY <1>2, <1>4 DEF MarkCalculated, HandlerPoints
  <2>2. DispatchJobs(q)' \subseteq DispatchJobs(q)
    BY <1>4, OnlyEnqueueInserts DEF MarkCalculated
  <2>3. CASE q # Target(s)
    <3>1. plan'[q] = plan[q] /\ calcRuns'[q] = calcRuns[q]
      BY <1>4, <2>3 DEF MarkCalculated, UpdateStatus
    <3> QED
      BY <1>1, <2>1, <2>2, <3>1, FewerAccounted
  <2>4. CASE q = Target(s)
    <3>1. calcRuns'[q] = calcRuns[q] + 1
      BY <1>4, <2>4 DEF MarkCalculated
    <3>2. /\ IsFiniteSet(DispatchJobs(q)') /\ IsFiniteSet(Automatic(q)')
          /\ Cardinality(DispatchJobs(q)') <= Cardinality(DispatchJobs(q))
          /\ Cardinality(Automatic(q)') <= Cardinality(Automatic(q))
      BY <2>1, <2>2, FS_Subset DEF Accounted
    <3> QED
      <4>1. /\ {Cardinality(DispatchJobs(q)), Cardinality(DispatchJobs(q)'),
                Cardinality(Clicked(q)), Cardinality(Automatic(q)),
                Cardinality(Automatic(q)')} \subseteq Nat
        BY <3>2, FS_CardinalityType DEF Accounted
      <4>2. Undispatched(q) \in {0, 1} /\ Undispatched(q)' \in {0, 1} /\ calcRuns[q] \in Nat
        BY DEF Undispatched
      <4> QED
        BY <1>1, <3>1, <3>2, <4>1, <4>2 DEF Accounted
  <2> QED
    BY <2>3, <2>4
<1>5. CASE AutoDispatch(s)
  <2>1. DispatchJobs(q)' \subseteq DispatchJobs(q) /\ calcRuns'[q] = calcRuns[q]
    BY <1>5, OnlyEnqueueInserts DEF AutoDispatch, ghostVars
  <2>2. CASE Goto(s, "done") /\ UNCHANGED plan
    BY <1>1, <1>2, <2>1, <2>2, FewerAccounted DEF HandlerPoints
  <2>3. CASE q # Target(s) /\ Goto(s, "enqueue") /\ UpdateStatus(Target(s), "dispatching")
    <3>1. Automatic(q)' \subseteq Automatic(q)
      BY <1>1, <2>3 DEF Automatic, At, Target, Goto
    <3> QED
      BY <1>1, <2>1, <2>3, <3>1, FewerAccounted DEF UpdateStatus
  <2>4. CASE /\ q = Target(s) /\ Goto(s, "enqueue")
             /\ CanTransition(q, "calculated") /\ UpdateStatus(q, "dispatching")
    <3>1. Automatic(q)' \subseteq Automatic(q) \cup {s}
      BY <1>1, <2>4 DEF Automatic, At, Target, Goto
    <3>2. IsFiniteSet(Automatic(q)') /\ Cardinality(Automatic(q)') <= Cardinality(Automatic(q)) + 1
      BY <3>1, AtMostOneMore DEF Accounted
    <3>3. /\ IsFiniteSet(DispatchJobs(q)')
          /\ Cardinality(DispatchJobs(q)') <= Cardinality(DispatchJobs(q))
      BY <2>1, FS_Subset DEF Accounted
    <3>4. Undispatched(q) = 1 /\ Undispatched(q)' = 0
      BY <2>4 DEF Undispatched, CanTransition, UpdateStatus
    <3> QED
      <4>1. /\ {Cardinality(DispatchJobs(q)), Cardinality(DispatchJobs(q)'),
                Cardinality(Clicked(q)), Cardinality(Automatic(q)),
                Cardinality(Automatic(q)')} \subseteq Nat
        BY <3>2, <3>3, FS_CardinalityType DEF Accounted
      <4>2. calcRuns[q] \in Nat
        OBVIOUS
      <4> QED
        BY <1>1, <2>1, <3>2, <3>3, <3>4, <4>1, <4>2 DEF Accounted
  <2> QED
    BY <1>5, <2>2, <2>3, <2>4 DEF AutoDispatch
<1>6. CASE AutoEnqueue(s)
  <2>1. PICK j \in Jobs : FreshJob("price_dispatch", Target(s), j) /\ Enqueue(j)
    BY <1>6 DEF AutoEnqueue
  <2>2. UNCHANGED <<plan, calcRuns>> /\ pc[s] = "enqueue" /\ Goto(s, "done")
    BY <1>6 DEF AutoEnqueue, At, planVars, ghostVars
  <2>3. CASE q = Target(s)
    <3>1. DispatchJobs(q)' = DispatchJobs(q) \cup {j}
      BY <2>1, <2>3, EnqueueInserts
    <3> QED
      BY <1>1, <1>3, <2>2, <2>3, <3>1, InsertAccounted
  <2>4. CASE q # Target(s)
    <3>1. DispatchJobs(q)' = DispatchJobs(q)
      BY <2>1, <2>4, EnqueueInserts DEF FreshJob
    <3> QED
      BY <1>1, <1>3, <2>2, <2>4, <3>1, FewerAccounted
  <2> QED
    BY <2>3, <2>4
<1>7. CASE AutoNotEnqueued(s)
  <2>1. /\ UNCHANGED <<vars, calcRuns>> /\ pc[s] = "enqueue" /\ Goto(s, "done")
        /\ RollBack(Target(s))
    BY <1>7 DEF AutoNotEnqueued, At, ghostVars
  <2>2. DispatchJobs(q)' = DispatchJobs(q)
    BY <2>1 DEF DispatchJobs, vars
  <2>3. CASE q = Target(s)
    BY <1>1, <1>3, <2>1, <2>2, <2>3, RollBackAccounted
  <2>4. CASE q # Target(s)
    <3>1. plan'[q] = plan[q]
      BY <2>1, <2>4 DEF RollBack, UpdateStatus
    <3> QED
      BY <1>1, <1>3, <2>1, <2>2, <2>4, <3>1, FewerAccounted
  <2> QED
    BY <2>3, <2>4
<1>8. CASE MarkProcessing(s) \/ InsertItems(s) \/ RecalcFails(s)
  <2>1. /\ UNCHANGED <<vars, calcRuns>>
        /\ \E where \in HandlerPoints : where # "enqueue" /\ Goto(s, where)
    BY <1>8 DEF MarkProcessing, InsertItems, RecalcFails, AfterError, HandlerPoints, ghostVars
  <2>2. plan'[q] = "calculated" => plan[q] = "calculated"
    BY <1>8 DEF MarkProcessing, InsertItems, RecalcFails, UpdateStatus
  <2>3. Automatic(q)' \subseteq Automatic(q)
    BY <1>2, <2>1
  <2> QED
    BY <1>1, <2>1, <2>2, <2>3, OnlyEnqueueInserts, FewerAccounted
<1> QED
  BY <1>4, <1>5, <1>6, <1>7, <1>8 DEF RecalcStep

\* Dispatching, claiming, saving and dying only take away.
LEMMA OthersAccounted ==
    ASSUME FlowTyped, TypeOK, AccountInv, NEW q \in Plans,
           \/ FlowCrash \/ UNCHANGED allVars
           \/ \E j \in Jobs : FlowTime(j)
           \/ \E p \in Plans : StalePlanCleanup(p)
           \/ \E s \in Slots : \/ DispatchStep(s) \/ FlowClaim(s) \/ HandlerError(s)
                               \/ ReturnNil(s) \/ FlowSave(s)
    PROVE  Accounted(q)'
<1> USE DEF FlowTyped, FlowTypeOK, AccountInv, planVars, ghostVars, localVars
<1> DEFINE Kept == /\ UNCHANGED <<api, calcRuns>>
                   /\ DispatchJobs(q)' \subseteq DispatchJobs(q)
                   /\ Automatic(q)' \subseteq Automatic(q)
                   /\ plan'[q] = "calculated" => plan[q] = "calculated"
<1>1. ASSUME \/ UNCHANGED allVars
             \/ \E j \in Jobs : FlowTime(j)
             \/ \E p \in Plans : StalePlanCleanup(p)
      PROVE  Kept
  <2>1. UNCHANGED <<api, calcRuns, holds, pc>>
    BY <1>1 DEF allVars, FlowTime, RunAtPasses, LeaseExpires, slotVars, flowVars, vars,
                StalePlanCleanup
  <2>2. DispatchJobs(q)' \subseteq DispatchJobs(q)
    BY <1>1, OnlyEnqueueInserts DEF allVars, FlowTime, StalePlanCleanup
  <2>3. plan'[q] = "calculated" => plan[q] = "calculated"
    BY <1>1 DEF allVars, FlowTime, flowVars, StalePlanCleanup, UpdateStatus
  <2>4. Automatic(q)' = Automatic(q)
    BY <2>1 DEF Automatic, At, Target
  <2> QED
    BY <2>1, <2>2, <2>3, <2>4
<1>2. ASSUME FlowCrash PROVE Kept
  <2>1. DispatchJobs(q)' \subseteq DispatchJobs(q)
    BY <1>2, OnlyEnqueueInserts DEF FlowCrash
  <2>2. Automatic(q)' = {}
    BY <1>2 DEF FlowCrash, Crash, Automatic, At
  <2>3. UNCHANGED <<api, calcRuns, plan>>
    BY <1>2 DEF FlowCrash
  <2> QED
    BY <2>1, <2>2, <2>3
<1>3. ASSUME NEW s \in Slots, DispatchStep(s) \/ HandlerError(s) PROVE Kept
  <2>1. UNCHANGED <<vars, api, calcRuns>>
    BY <1>3 DEF HandlerError, DispatchStep, LoadPlan, ListItems, BuildClient, NextChunk,
       StopDispatch, ChunksDone, CallSucceeds, CallFails,
       MarkDispatched, FailItem, Rejected, ListExhausted, GivenUp, CountItems, WriteFinal
  <2>2. \/ UNCHANGED pc
        \/ \E where \in HandlerPoints : where # "enqueue" /\ Goto(s, where)
    BY <1>3 DEF HandlerError, AfterError, HandlerPoints, DispatchStep, LoadPlan, ListItems,
       BuildClient, NextChunk, StopDispatch, ChunksDone, CallSucceeds, CallFails,
       MarkDispatched, FailItem, Rejected, ListExhausted, GivenUp,
       CountItems, WriteFinal
  <2>3. plan'[q] = "calculated" => plan[q] = "calculated"
    BY <1>3 DEF HandlerError, DispatchStep, LoadPlan, ListItems, BuildClient, NextChunk,
       StopDispatch, ChunksDone, CallSucceeds, CallFails,
       MarkDispatched, FailItem, Rejected, ListExhausted, GivenUp, CountItems, WriteFinal,
       UpdateStatus, PlanTerminal, At
  <2>4. UNCHANGED holds
    BY <2>1 DEF vars
  <2>5. Automatic(q)' \subseteq Automatic(q)
    BY <2>2, <2>4 DEF Automatic, At, Target, Goto
  <2> QED
    BY <2>1, <2>3, <2>5, OnlyEnqueueInserts
<1>4. ASSUME NEW s \in Slots, FlowClaim(s) \/ ReturnNil(s) \/ FlowSave(s) PROVE Kept
  <2>1. UNCHANGED <<api, calcRuns, plan>>
    BY <1>4 DEF FlowClaim, ReturnNil, FlowSave
  <2>2. /\ \E where : where # "enqueue" /\ Goto(s, where)
        /\ \A t \in Slots \ {s} : holds'[t] = holds[t]
    BY <1>4 DEF TypeOK, FlowClaim, ReturnNil, FlowSave, Claim, Decide, Save, SaveRetry,
       SaveSucceed, SaveFail, SaveLost, SettleRow, Release
  <2>3. DispatchJobs(q)' \subseteq DispatchJobs(q)
    BY <1>4, OnlyEnqueueInserts DEF FlowClaim, ReturnNil, FlowSave
  <2>4. Automatic(q)' \subseteq Automatic(q)
    BY <2>2 DEF Automatic, At, Target, Goto
  <2> QED
    BY <2>1, <2>3, <2>4
<1>5. Kept
  BY <1>1, <1>2, <1>3, <1>4
<1>6. Clicked(q)' \subseteq Clicked(q)
  BY <1>5 DEF Clicked
<1> QED
  BY <1>5, <1>6, FewerAccounted

\* However many clicks, roll-backs, automatic dispatches and goroutines compete,
\* no plan has more dispatch jobs, inserted or promised, than calculations.
THEOREM OneDispatchPerCalculation == FlowSpec => []NoDoubleDispatch
<1>1. FlowInit => TypeOK /\ FlowTyped /\ AccountInv
  <2> SUFFICES ASSUME FlowInit PROVE TypeOK /\ FlowTyped /\ AccountInv
    OBVIOUS
  <2>1. TypeOK
    BY QueueAssumption DEF FlowInit, Init, TypeOK, Statuses, Waiting, Terminal,
                           Outcome, Undecided
  <2>2. FlowTyped
    BY DEF FlowInit, FlowTyped, FlowTypeOK, PlanStatuses, ItemStatuses, Requests
  <2>3. ASSUME NEW p \in Plans PROVE Accounted(p)
    <3>1. DispatchJobs(p) = {} /\ Clicked(p) = {} /\ Automatic(p) = {}
      BY DEF FlowInit, Init, DispatchJobs, Clicked, Automatic, At
    <3>2. Undispatched(p) = 0 /\ calcRuns[p] = 0
      BY DEF FlowInit, Undispatched
    <3> QED
      BY <3>1, <3>2, FS_EmptySet DEF Accounted
  <2> QED
    BY <2>1, <2>2, <2>3 DEF AccountInv
<1>2. TypeOK /\ FlowTyped /\ AccountInv /\ [FlowNext]_allVars => AccountInv'
  <2> SUFFICES ASSUME TypeOK, FlowTyped, AccountInv, [FlowNext]_allVars, NEW q \in Plans
               PROVE  Accounted(q)'
    BY DEF AccountInv
  <2> QED
    BY RequestAccounted, RecalcAccounted, OthersAccounted DEF FlowNext, SlotStep
<1>3. FlowTyped /\ AccountInv => NoDoubleDispatch
  <2> SUFFICES ASSUME FlowTyped, AccountInv, NEW p \in Plans
               PROVE  Cardinality(DispatchJobs(p)) + Cardinality(Enqueueing(p)) <= calcRuns[p]
    BY DEF NoDoubleDispatch
  <2>1. Enqueueing(p) = Clicked(p) \cup Automatic(p)
    BY DEF Enqueueing, Clicked, Automatic
  <2>2. Cardinality(Enqueueing(p)) <= Cardinality(Clicked(p)) + Cardinality(Automatic(p))
    <3>1. IsFiniteSet(Clicked(p)) /\ IsFiniteSet(Automatic(p))
      BY DEF AccountInv, Accounted
    <3>2. IsFiniteSet(Clicked(p) \cap Automatic(p))
      BY <3>1, FS_Subset
    <3>3. {Cardinality(Clicked(p)), Cardinality(Automatic(p)),
           Cardinality(Clicked(p) \cap Automatic(p))} \subseteq Nat
      BY <3>1, <3>2, FS_CardinalityType
    <3>4. Cardinality(Clicked(p) \cup Automatic(p)) = Cardinality(Clicked(p))
            + Cardinality(Automatic(p)) - Cardinality(Clicked(p) \cap Automatic(p))
      BY <3>1, FS_Union
    <3> QED
      BY <2>1, <3>3, <3>4
  <2>3. {Cardinality(Clicked(p)), Cardinality(Automatic(p)), Cardinality(Enqueueing(p)),
         Cardinality(DispatchJobs(p))} \subseteq Nat
    <3>1. IsFiniteSet(Clicked(p)) /\ IsFiniteSet(Automatic(p)) /\ IsFiniteSet(DispatchJobs(p))
      BY DEF AccountInv, Accounted
    <3>2. IsFiniteSet(Enqueueing(p))
      BY <2>1, <3>1, FS_Union
    <3> QED
      BY <3>1, <3>2, FS_CardinalityType
  <2>4. Undispatched(p) \in {0, 1} /\ calcRuns[p] \in Nat
    BY DEF Undispatched, FlowTyped, FlowTypeOK
  <2> QED
    BY <2>2, <2>3, <2>4 DEF AccountInv, Accounted
<1>4. FlowTyped /\ [FlowNext]_allVars => FlowTyped'
  BY FlowStepKeepsTyped
<1>5. FlowSpec => []TypeOK
  BY FlowRunsTheQueue, TypeCorrect, PTL DEF RunsTheQueue
<1> QED
  BY <1>1, <1>2, <1>3, <1>4, <1>5, PTL DEF FlowSpec
=============================================================================
