-------------------------- MODULE PlanFlowOneProofs --------------------------
(***************************************************************************)
(* Proofs about PlanFlow with one goroutine, the default of                *)
(* WORKER_CONCURRENCY: between two of its statements only requests and the *)
(* cleanup write, and what these write to a plan is never the end that a   *)
(* dispatch gives it.  So a row is not sent again once it is marked, the   *)
(* end of a plan agrees with its rows, and a cancel stops the sending.     *)
(***************************************************************************)
EXTENDS PlanFlowProofs

OneGoroutine == \A s, t \in Slots : s = t

RowsOf(p) == {r \in Rows : r[1] = p}
Sending   == {"shop", "check", "call", "mark"}

-----------------------------------------------------------------------------
(* The invariants.                                                         *)

\* A request that has created a plan and not yet its job: nothing else knows
\* the plan, so the only write that could wake a cancelled plan up comes before
\* any dispatch.
Fresh(p) == \/ plan[p] = "absent"
            \/ \E c \in Clients : api[c] = [op |-> "enqueueRecalc", plan |-> p]

NoRequestOn(p) == \A c \in Clients : api[c] # NoRequest => api[c].plan # p
OneCreator(p)  == \A c, d \in Clients :
                    /\ api[c] = [op |-> "enqueueRecalc", plan |-> p]
                    /\ api[d] = [op |-> "enqueueRecalc", plan |-> p]
                    => c = d
Unused(p) ==
    /\ plan[p] \notin {"calculated", "dispatching"}
    /\ \A c \in Clients : api[c] # [op |-> "enqueueDispatch", plan |-> p]
    /\ \A j \in Jobs : PlanOf[j] = p => status[j] = "absent"

FreshInv ==
    \A p \in Plans : /\ plan[p] = "absent" => NoRequestOn(p)
                     /\ OneCreator(p)
                     /\ Fresh(p) => Unused(p)

\* What a slot works on: rows of its plan, none while it is idle.
Local(s) ==
    /\ holds[s] = NoJob \/ pc[s] = "save"
            => todo[s] = {} /\ chunk[s] = {}
    /\ holds[s] # NoJob
            => todo[s] \cup chunk[s] \subseteq RowsOf(Target(s))

\* The rows still to be sent, and those of the call under way, are pending.
Unsent(s) ==
    /\ pc[s] \in Sending => \A r \in todo[s] : item[r] = "pending"
    /\ pc[s] \in {"call", "mark"} => todo[s] \cap chunk[s] = {}
    /\ pc[s] = "call" => \A r \in chunk[s] : item[r] = "pending"

\* Rows are changed only under a plan that has no end yet, or an end that says
\* nothing of them; the end is chosen when no row is pending, and stays true.
Ending(s) ==
    holds[s] # NoJob =>
        /\ pc[s] \in {"insert", "list", "reject"} \cup Sending
                => plan[Target(s)] \notin {"applied", "partial"}
        /\ pc[s] = "giveUp" /\ plan[Target(s)] \in {"applied", "partial"}
                => todo[s] = {}
        /\ pc[s] = "write" => /\ PendingRows(Target(s)) = {}
                              /\ final[s] = FinalStatus(Target(s))

\* A plan found cancelled after a call still is when the next chunk is due.
Late(s) ==
    /\ lateCalls[s] \in {0, 1}
    /\ pc[s] \in {"load", "list", "shop", "call"} => lateCalls[s] = 0
    /\ holds[s] # NoJob /\ pc[s] \in {"check", "mark"} /\ lateCalls[s] = 1
            => plan[Target(s)] = "cancelled"

SlotInv(s) == Local(s) /\ Unsent(s) /\ Ending(s) /\ Late(s)

OneInv ==
    /\ FreshInv
    /\ StatusMatchesRows
    /\ \A s \in Slots : SlotInv(s)

\* What the other proofs give.
Known == FlowTyped /\ QueueInv

-----------------------------------------------------------------------------
(* Requests and the cleanup.                                               *)

LEMMA NotIdle == \A o, q : NoRequest # [op |-> o, plan |-> q]
BY DEF NoRequest

LEMMA SameRequest ==
    \A o1, o2, q1, q2 : [op |-> o1, plan |-> q1] = [op |-> o2, plan |-> q2]
                            => o1 = o2 /\ q1 = q2
OBVIOUS

LEMMA RequestPlan == \A o, q : [op |-> o, plan |-> q].plan = q
OBVIOUS

\* The job a slot holds is in the table, so its plan is not fresh.
LEMMA TargetNotFresh ==
    ASSUME Known, FreshInv, NEW s \in Slots, holds[s] # NoJob
    PROVE  Target(s) \in Plans /\ ~Fresh(Target(s))
<1>1. holds[s] \in Jobs /\ Target(s) \in Plans
  BY FlowAssumption DEF Known, QueueInv, TypeOK, Target
<1>2. status[holds[s]] # "absent"
  <2>1. 1 <= tryNo[s] /\ tryNo[s] <= attempts[holds[s]]
    BY DEF Known, QueueInv, TryCounted
  <2>2. tryNo[s] \in Nat /\ attempts[holds[s]] \in Nat
    BY <1>1 DEF Known, QueueInv, TypeOK
  <2>3. status[holds[s]] = "absent" => attempts[holds[s]] = 0
    BY <1>1 DEF Known, QueueInv, AbsentUntried
  <2> QED
    BY <2>1, <2>2, <2>3
<1> QED
  BY <1>1, <1>2 DEF FreshInv, Unused, Target

\* Steps that touch no fresh plan and none of its jobs.
LEMMA FreshKept ==
    ASSUME FreshInv, UNCHANGED api,
           \A p \in Plans : plan'[p] # plan[p] => ~Fresh(p) /\ plan'[p] # "absent",
           \A j \in Jobs : status[j] = "absent" /\ Fresh(PlanOf[j]) => status'[j] = "absent"
    PROVE  FreshInv'
<1>1. ASSUME NEW p \in Plans PROVE Fresh(p)' => Fresh(p)
  BY <1>1 DEF Fresh
<1>2. ASSUME NEW p \in Plans, Fresh(p) PROVE plan'[p] = plan[p]
  BY <1>2
<1> QED
  BY <1>1, <1>2, FlowAssumption DEF FreshInv, Fresh, NoRequestOn, OneCreator, Unused

\* The program's other writers leave the slots alone; a plan of a slot that is
\* cancelled stays so, and no end that speaks of rows is written.
LEMMA OutsideKept ==
    ASSUME Known, OneInv, UNCHANGED <<item, localVars, holds, lateCalls>>,
           \A p \in Plans : plan'[p] \in {"applied", "partial"} => plan'[p] = plan[p],
           \A p \in Plans : plan[p] = "cancelled" /\ ~Fresh(p) => plan'[p] = "cancelled"
    PROVE  StatusMatchesRows' /\ \A s \in Slots : SlotInv(s)'
<1> USE DEF localVars
<1>1. StatusMatchesRows'
  BY DEF OneInv, StatusMatchesRows
<1>2. ASSUME NEW s \in Slots PROVE SlotInv(s)'
  <2>1. SlotInv(s)
    BY DEF OneInv
  <2>2. Target(s)' = Target(s)
    BY DEF Target
  <2>3. holds[s] # NoJob => Target(s) \in Plans /\ ~Fresh(Target(s))
    BY TargetNotFresh DEF OneInv
  <2>4. Local(s)' /\ Unsent(s)'
    BY <2>1, <2>2 DEF SlotInv, Local, Unsent
  <2>5. Ending(s)'
    BY <2>1, <2>2, <2>3 DEF SlotInv, Ending, PendingRows, FinalStatus
  <2>6. Late(s)'
    BY <2>1, <2>2, <2>3 DEF SlotInv, Late
  <2> QED
    BY <2>4, <2>5, <2>6 DEF SlotInv
<1> QED
  BY <1>1, <1>2

\* A request starts or ends, the plans and jobs it writes being given.
LEMMA RequestStartsFresh ==
    ASSUME Known, FreshInv, NEW c \in Clients, NEW p \in Plans, UNCHANGED status,
           CreatePlan(c, p) \/ ClickDispatch(c, p) \/ ReadForCancel(c, p)
    PROVE  FreshInv'
<1>1. PICK op \in {"enqueueRecalc", "enqueueDispatch", "cancel"} :
        /\ api' = [api EXCEPT ![c] = [op |-> op, plan |-> p]]
        /\ op = "enqueueRecalc" <=> plan[p] = "absent"
        /\ op = "enqueueDispatch" => plan[p] = "calculated"
        /\ plan'[p] # "absent"
        /\ op = "enqueueRecalc" => plan'[p] = "pending"
        /\ op = "cancel" => plan'[p] = plan[p]
        /\ \A q \in Plans \ {p} : plan'[q] = plan[q]
        /\ api[c] = NoRequest
  BY DEF CreatePlan, ClickDispatch, ReadForCancel, CanTransition, UpdateStatus, PlanTerminal,
         Known, FlowTyped, FlowTypeOK, planVars
<1>2. \A d \in Clients : api'[d] = IF d = c THEN [op |-> op, plan |-> p] ELSE api[d]
  BY <1>1 DEF Known, FlowTyped, FlowTypeOK
<1>3. api'[c] # NoRequest /\ api'[c].plan = p
      /\ \A o, q : api'[c] = [op |-> o, plan |-> q] => o = op /\ q = p
  BY <1>2, NotIdle, SameRequest, RequestPlan
<1> SUFFICES ASSUME NEW q \in Plans
    PROVE  /\ plan'[q] = "absent" => NoRequestOn(q)'
           /\ OneCreator(q)'
           /\ Fresh(q)' => Unused(q)'
  BY DEF FreshInv
<1> USE <1>1, <1>2, <1>3
<1>4. CASE q # p
  <2>1. \A o : \A d \in Clients : api'[d] = [op |-> o, plan |-> q]
                                  <=> api[d] = [op |-> o, plan |-> q]
    BY <1>4, NotIdle
  <2>2. Fresh(q)' <=> Fresh(q)
    BY <1>4, <2>1 DEF Fresh
  <2>3. \A d \in Clients : d = c \/ api'[d] = api[d]
    OBVIOUS
  <2>4. plan'[q] = "absent" => NoRequestOn(q)'
    BY <1>4, <2>3 DEF FreshInv, NoRequestOn
  <2>5. OneCreator(q)'
    BY <2>1 DEF FreshInv, OneCreator
  <2>6. Fresh(q)' => Unused(q)'
    BY <1>4, <2>1, <2>2 DEF FreshInv, Unused
  <2> QED
    BY <2>4, <2>5, <2>6
<1>5. CASE q = p /\ op = "enqueueRecalc"
  <2>1. NoRequestOn(p) /\ Unused(p)
    BY <1>5 DEF FreshInv, Fresh
  <2>2. \A o : \A d \in Clients : d # c => api'[d] # [op |-> o, plan |-> p]
    BY <2>1, NotIdle, RequestPlan DEF NoRequestOn
  <2>3. OneCreator(p)'
    BY <2>2 DEF OneCreator
  <2>4. Unused(p)'
    BY <1>5, <2>1, <2>2 DEF Unused
  <2> QED
    BY <1>5, <2>3, <2>4
<1>6. CASE q = p /\ op # "enqueueRecalc"
  <2>1. \A d \in Clients : api'[d] = [op |-> "enqueueRecalc", plan |-> p]
                        => api[d] = [op |-> "enqueueRecalc", plan |-> p]
    BY <1>6
  <2>2. Fresh(p)' => Fresh(p)
    BY <1>6, <2>1 DEF Fresh
  <2>3. OneCreator(p)'
    BY <2>1 DEF FreshInv, OneCreator
  <2>4. Fresh(p) => op = "cancel"
    BY <1>6 DEF FreshInv, Unused
  <2>5. ASSUME op = "cancel", NEW d \in Clients, api'[d] = [op |-> "enqueueDispatch", plan |-> p]
        PROVE  api[d] = [op |-> "enqueueDispatch", plan |-> p]
    BY <2>5
  <2>6. Fresh(p)' => Unused(p)'
    BY <2>2, <2>4, <2>5 DEF FreshInv, Unused
  <2> QED
    BY <1>6, <2>3, <2>6
<1> QED
  BY <1>4, <1>5, <1>6

LEMMA RequestEndsFresh ==
    ASSUME Known, FreshInv, NEW c \in Clients,
           \/ WriteCancel(c) \/ EnqueueRecalc(c) \/ RecalcNotEnqueued(c)
           \/ EnqueueDispatch(c) \/ DispatchNotEnqueued(c) \/ RequestLost(c)
    PROVE  FreshInv'
<1>1. PICK op \in {"enqueueRecalc", "enqueueDispatch", "cancel"}, p \in Plans :
        api[c] = [op |-> op, plan |-> p] /\ api[c].op = op /\ api[c].plan = p
  <2>1. api[c] # NoRequest
    BY DEF WriteCancel, EnqueueRecalc, RecalcNotEnqueued, EnqueueDispatch, DispatchNotEnqueued,
           RequestLost, NoRequest
  <2>2. api[c] \in [op : {"enqueueRecalc", "enqueueDispatch", "cancel"}, plan : Plans]
    BY <2>1 DEF Known, FlowTyped, FlowTypeOK, Requests
  <2> QED
    BY <2>2
<1>2. api' = [api EXCEPT ![c] = NoRequest]
  BY DEF WriteCancel, EnqueueRecalc, RecalcNotEnqueued, EnqueueDispatch, DispatchNotEnqueued,
         RequestLost
<1>3. plan[p] # "absent"
  BY <1>1, NotIdle DEF FreshInv, NoRequestOn
<1>4. /\ plan'[p] # "absent"
      /\ op \notin {"enqueueRecalc", "enqueueDispatch"} =>
            plan'[p] = plan[p] \/ plan'[p] = "cancelled"
      /\ \A q \in Plans \ {p} : plan'[q] = plan[q]
  <2>1. plan \in [Plans -> PlanStatuses]
    BY DEF Known, FlowTyped, FlowTypeOK
  <2>2. CASE WriteCancel(c)
    BY <1>1, <1>3, <2>1, <2>2 DEF WriteCancel, UpdateStatus
  <2>3. CASE RecalcNotEnqueued(c)
    BY <1>1, <1>3, <2>1, <2>3 DEF RecalcNotEnqueued, UpdateStatus
  <2>4. CASE DispatchNotEnqueued(c)
    BY <1>1, <1>3, <2>1, <2>4 DEF DispatchNotEnqueued, RollBack, UpdateStatus
  <2>5. CASE EnqueueRecalc(c) \/ EnqueueDispatch(c)
    BY <1>1, <1>3, <2>5 DEF EnqueueRecalc, EnqueueDispatch, planVars
  <2>6. CASE RequestLost(c)
    BY <1>1, <1>3, <2>6 DEF RequestLost, planVars
  <2> QED
    BY <2>2, <2>3, <2>4, <2>5, <2>6
<1>5. \A j \in Jobs : status'[j] # status[j] =>
            PlanOf[j] = p /\ op \in {"enqueueRecalc", "enqueueDispatch"}
  BY <1>1 DEF WriteCancel, EnqueueRecalc, RecalcNotEnqueued, EnqueueDispatch, DispatchNotEnqueued,
         RequestLost, FreshJob, Enqueue, vars, Known, QueueInv, TypeOK
<1>6. \A d \in Clients : api'[d] = IF d = c THEN NoRequest ELSE api[d]
  BY <1>2 DEF Known, FlowTyped, FlowTypeOK
<1>7. \A o, q : NoRequest # [op |-> o, plan |-> q]
  BY NotIdle
<1>8. op = "enqueueRecalc" => ~Fresh(p)'
  <2>1. ASSUME op = "enqueueRecalc", NEW d \in Clients, d # c
        PROVE  api[d] # [op |-> "enqueueRecalc", plan |-> p]
    BY <1>1, <2>1 DEF FreshInv, OneCreator
  <2> QED
    BY <1>4, <1>6, <1>7, <2>1 DEF Fresh
<1>9. op = "enqueueDispatch" => ~Fresh(p)
  BY <1>1 DEF FreshInv, Unused
<1>10. \A q \in Plans : Fresh(q)' => Fresh(q)
  BY <1>4, <1>6, <1>7 DEF Fresh
<1> SUFFICES ASSUME NEW q \in Plans
    PROVE  /\ plan'[q] = "absent" => NoRequestOn(q)'
           /\ OneCreator(q)'
           /\ Fresh(q)' => Unused(q)'
  BY DEF FreshInv
<1>12. plan'[q] = "absent" => NoRequestOn(q)'
  BY <1>4, <1>6 DEF FreshInv, NoRequestOn
<1>13. OneCreator(q)'
  BY <1>6, <1>7 DEF FreshInv, OneCreator
<1>14. ASSUME Fresh(q)' PROVE Unused(q)'
  <2>1. Fresh(q)
    BY <1>10, <1>14
  <2>2. q = p => op \notin {"enqueueRecalc", "enqueueDispatch"}
    BY <1>8, <1>9, <1>14, <2>1
  <2>3. plan'[q] \notin {"calculated", "dispatching"}
    BY <1>4, <2>1, <2>2 DEF FreshInv, Unused
  <2>4. \A d \in Clients : api'[d] # [op |-> "enqueueDispatch", plan |-> q]
    BY <1>6, <1>7, <2>1 DEF FreshInv, Unused
  <2>5. \A j \in Jobs : PlanOf[j] = q => status'[j] = "absent"
    BY <1>5, <2>1, <2>2 DEF FreshInv, Unused
  <2> QED
    BY <2>3, <2>4, <2>5 DEF Unused
<1> QED
  BY <1>12, <1>13, <1>14

LEMMA OutsideKeeps ==
    ASSUME Known, OneInv,
           \/ UNCHANGED allVars
           \/ \E c \in Clients : Request(c)
           \/ \E j \in Jobs : FlowTime(j)
           \/ \E p \in Plans : StalePlanCleanup(p)
    PROVE  OneInv'
<1> USE DEF planVars, localVars, ghostVars
<1>1. CASE UNCHANGED allVars \/ (\E j \in Jobs : FlowTime(j))
  <2>1. UNCHANGED <<item, localVars, holds, lateCalls, plan, api>>
    BY <1>1 DEF allVars, vars, flowVars, FlowTime, RunAtPasses, LeaseExpires, slotVars
  <2>2. \A j \in Jobs : status[j] = "absent" => status'[j] = "absent"
    BY <1>1 DEF allVars, vars, FlowTime, RunAtPasses, LeaseExpires
  <2> QED
    BY <2>1, <2>2, FreshKept, OutsideKept DEF OneInv
<1>2. ASSUME NEW p \in Plans, StalePlanCleanup(p) PROVE OneInv'
  <2>1. UNCHANGED <<item, localVars, holds, lateCalls, api, status>>
    BY <1>2 DEF StalePlanCleanup, vars
  <2>2. plan' = [plan EXCEPT ![p] = "cancelled"] /\ plan \in [Plans -> PlanStatuses]
    BY <1>2 DEF StalePlanCleanup, UpdateStatus, Known, FlowTyped, FlowTypeOK
  <2>3. ~Fresh(p)
    BY <1>2 DEF StalePlanCleanup, Stale, Old, Fresh
  <2>4. \A q \in Plans : plan'[q] # plan[q] => q = p /\ plan'[q] = "cancelled"
    BY <2>2
  <2> QED
    BY <2>1, <2>3, <2>4, FreshKept, OutsideKept DEF OneInv
<1>3. ASSUME NEW c \in Clients, Request(c) PROVE OneInv'
  <2>1. UNCHANGED <<item, localVars, holds, lateCalls>>
    BY <1>3 DEF Request, CreatePlan, ClickDispatch, ReadForCancel, WriteCancel,
       EnqueueRecalc, RecalcNotEnqueued, EnqueueDispatch, DispatchNotEnqueued,
       RequestLost, Enqueue, vars, slotVars
  <2>2. FreshInv'
    <3>1. CASE \E p \in Plans : CreatePlan(c, p) \/ ClickDispatch(c, p) \/ ReadForCancel(c, p)
      BY <3>1, RequestStartsFresh DEF OneInv, CreatePlan, ClickDispatch, ReadForCancel, vars
    <3>2. CASE ~ \E p \in Plans : CreatePlan(c, p) \/ ClickDispatch(c, p) \/ ReadForCancel(c, p)
      BY <1>3, <3>2, RequestEndsFresh DEF OneInv, Request
    <3> QED
      BY <3>1, <3>2
  <2>3. plan \in [Plans -> PlanStatuses]
    BY DEF Known, FlowTyped, FlowTypeOK
  <2>4. \A q \in Plans : plan'[q] \in {"applied", "partial"} => plan'[q] = plan[q]
    BY <1>3, <2>3 DEF Request, CreatePlan, ClickDispatch, ReadForCancel, WriteCancel,
       EnqueueRecalc, RecalcNotEnqueued, EnqueueDispatch, DispatchNotEnqueued, RequestLost,
       RollBack, UpdateStatus
  <2>5. \A q \in Plans : plan[q] = "cancelled" /\ ~Fresh(q) => plan'[q] = "cancelled"
    <3>1. CASE RecalcNotEnqueued(c)
      <4>1. api[c].op = "enqueueRecalc" /\ plan' = [plan EXCEPT ![api[c].plan] = "failed"]
        BY <3>1 DEF RecalcNotEnqueued, UpdateStatus
      <4>2. api[c] = [op |-> "enqueueRecalc", plan |-> api[c].plan]
        <5>1. api[c] \in Requests /\ api[c] # NoRequest
          BY <4>1 DEF Known, FlowTyped, FlowTypeOK, NoRequest
        <5>2. api[c] \in [op : {"enqueueRecalc", "enqueueDispatch", "cancel"}, plan : Plans]
          BY <5>1 DEF Requests
        <5> QED
          BY <4>1, <5>2
      <4>3. \A q \in Plans : ~Fresh(q) => q # api[c].plan
        BY <4>2 DEF Fresh
      <4> QED
        BY <2>3, <4>1, <4>3
    <3>2. CASE ~RecalcNotEnqueued(c)
      BY <1>3, <2>3, <3>2 DEF Request, CreatePlan, ClickDispatch, ReadForCancel, WriteCancel,
         EnqueueRecalc, EnqueueDispatch, DispatchNotEnqueued, RequestLost,
         RollBack, CanTransition, UpdateStatus
    <3> QED
      BY <3>1, <3>2
  <2> QED
    BY <2>1, <2>2, <2>4, <2>5, OutsideKept DEF OneInv
<1> QED
  BY <1>1, <1>2, <1>3

-----------------------------------------------------------------------------
(* The goroutine.                                                          *)

\* No slot disturbs a fresh plan.
LEMMA SlotKeepsFresh ==
    ASSUME Known, FreshInv, NEW s \in Slots, SlotStep(s)
    PROVE  FreshInv'
<1> USE DEF planVars, ghostVars, localVars
<1>1. plan \in [Plans -> PlanStatuses] /\ status \in [Jobs -> Statuses]
  BY DEF Known, FlowTyped, FlowTypeOK, QueueInv, TypeOK
<1>2. CASE FlowClaim(s) \/ ReturnNil(s) \/ FlowSave(s)
  <2>1. UNCHANGED <<api, plan>>
    BY <1>2 DEF FlowClaim, ReturnNil, FlowSave
  <2>2. \A j \in Jobs : status[j] = "absent" => status'[j] = "absent"
    BY <1>1, <1>2 DEF FlowClaim, ReturnNil, FlowSave, Claim, IsHead, Claimable, Waiting,
       Decide, rowVars, Save, SaveRetry, SaveSucceed, SaveFail, SaveLost, SettleRow
  <2> QED
    BY <2>1, <2>2, FreshKept
<1>3. CASE RecalcStep(s) \/ DispatchStep(s) \/ HandlerError(s)
  <2>1. holds[s] # NoJob
    BY <1>3 DEF RecalcStep, MarkProcessing, InsertItems, RecalcFails, MarkCalculated,
       AutoDispatch, AutoEnqueue, AutoNotEnqueued, HandlerError, DispatchStep, LoadPlan,
       ListItems, BuildClient, NextChunk, StopDispatch, ChunksDone, CallSucceeds, CallFails,
       MarkDispatched, FailItem, Rejected, ListExhausted, GivenUp,
       CountItems, WriteFinal, At
  <2>2. Target(s) \in Plans /\ ~Fresh(Target(s))
    BY <2>1, TargetNotFresh
  <2>3. UNCHANGED api
    BY <1>3 DEF RecalcStep, MarkProcessing, InsertItems, RecalcFails, MarkCalculated,
       AutoDispatch, AutoEnqueue, AutoNotEnqueued, HandlerError, DispatchStep, LoadPlan,
       ListItems, BuildClient, NextChunk, StopDispatch, ChunksDone, CallSucceeds, CallFails,
       MarkDispatched, FailItem, Rejected, ListExhausted, GivenUp,
       CountItems, WriteFinal
  <2>4. UNCHANGED plan \/ \E st \in PlanStatuses \ {"absent"} : UpdateStatus(Target(s), st)
    <3>1. CASE WriteFinal(s)
      <4>1. final[s] \in PlanTerminal
        BY <3>1 DEF WriteFinal, At, Known, FlowTyped
      <4> QED
        BY <3>1, <4>1 DEF WriteFinal, PlanStatuses, PlanTerminal
    <3>2. CASE ~WriteFinal(s)
      BY <1>3, <3>2 DEF RecalcStep, MarkProcessing, InsertItems, RecalcFails, MarkCalculated,
       AutoDispatch, AutoEnqueue, AutoNotEnqueued, HandlerError, DispatchStep, LoadPlan,
       ListItems, BuildClient, NextChunk, StopDispatch, ChunksDone, CallSucceeds, CallFails,
       MarkDispatched, FailItem, Rejected, ListExhausted, GivenUp,
       CountItems, RollBack, PlanStatuses, PlanTerminal
    <3> QED
      BY <3>1, <3>2
  <2>5. \A p \in Plans : plan'[p] # plan[p] => ~Fresh(p) /\ plan'[p] # "absent"
    BY <1>1, <2>2, <2>4 DEF UpdateStatus
  <2>6. \A j \in Jobs : status[j] = "absent" /\ Fresh(PlanOf[j]) => status'[j] = "absent"
    <3>1. CASE AutoEnqueue(s)
      BY <1>1, <2>2, <3>1 DEF AutoEnqueue, FreshJob, Enqueue
    <3>2. CASE ~AutoEnqueue(s)
      <4>1. UNCHANGED vars
        BY <1>3, <3>2 DEF RecalcStep, MarkProcessing, InsertItems, RecalcFails, MarkCalculated,
       AutoDispatch, AutoNotEnqueued, HandlerError, DispatchStep, LoadPlan,
       ListItems, BuildClient, NextChunk, StopDispatch, ChunksDone, CallSucceeds, CallFails,
       MarkDispatched, FailItem, Rejected, ListExhausted, GivenUp,
       CountItems, WriteFinal
      <4> QED
        BY <4>1 DEF vars
    <3> QED
      BY <3>1, <3>2
  <2> QED
    BY <2>3, <2>5, <2>6, FreshKept
<1> QED
  BY <1>2, <1>3 DEF SlotStep

\* The end of a plan agrees with its rows, if rows change only where no such end
\* stands.
LEMMA StatusKept ==
    ASSUME StatusMatchesRows,
           \A p \in Plans : plan'[p] \in {"applied", "partial"} =>
                plan'[p] = plan[p] /\ \A r \in Rows : r[1] = p => item'[r] = item[r]
    PROVE  StatusMatchesRows'
<1> SUFFICES ASSUME NEW p \in Plans, plan'[p] \in {"applied", "partial"}
    PROVE  LET has(st) == \E r \in Rows : r[1] = p /\ item'[r] = st IN
            /\ plan'[p] = "applied" => ~has("pending") /\ ~has("failed")
            /\ plan'[p] = "partial" => ~has("pending") /\ has("dispatched") /\ has("failed")
  BY DEF StatusMatchesRows
<1>1. plan'[p] = plan[p] /\ \A r \in Rows : r[1] = p => item'[r] = item[r]
  OBVIOUS
<1>2. LET has(st) == \E r \in Rows : r[1] = p /\ item[r] = st IN
            /\ plan[p] = "applied" => ~has("pending") /\ ~has("failed")
            /\ plan[p] = "partial" => ~has("pending") /\ has("dispatched") /\ has("failed")
  BY DEF StatusMatchesRows
<1> QED
  BY <1>1, <1>2

\* An attempt begins and ends with nothing in hand.
LEMMA EdgesKeep ==
    ASSUME Known, OneInv, NEW s \in Slots,
           FlowClaim(s) \/ ReturnNil(s) \/ FlowSave(s) \/ HandlerError(s)
    PROVE  SlotInv(s)' /\ StatusMatchesRows'
<1> USE DEF planVars, ghostVars
<1>1. SlotInv(s) /\ StatusMatchesRows
  BY DEF OneInv
<1>2. UNCHANGED <<plan, item>> /\ s \in DOMAIN pc /\ s \in DOMAIN lateCalls
      /\ s \in DOMAIN holds
  BY DEF FlowClaim, ReturnNil, FlowSave, HandlerError, Known, FlowTyped, FlowTypeOK,
         QueueInv, TypeOK
<1>3. StatusMatchesRows'
  BY <1>1, <1>2 DEF StatusMatchesRows
<1>4. CASE FlowClaim(s)
  <2>1. /\ pc'[s] \in {"processing", "load"} /\ holds[s] = NoJob
        /\ UNCHANGED <<todo, chunk>> /\ lateCalls'[s] = 0
    BY <1>2, <1>4 DEF FlowClaim, Goto, Claim
  <2> QED
    BY <1>1, <1>3, <2>1 DEF SlotInv, Local, Unsent, Ending, Late, Sending
<1>5. CASE ReturnNil(s)
  <2>1. pc'[s] = "save" /\ UNCHANGED <<holds, lateCalls>>
    BY <1>2, <1>5 DEF ReturnNil, Goto, Decide
  <2>2. todo'[s] = {} /\ chunk'[s] = {}
    BY <1>5 DEF ReturnNil, ClearLocals, Known, FlowTyped
  <2> QED
    BY <1>1, <1>3, <2>1, <2>2 DEF SlotInv, Local, Unsent, Ending, Late, Sending
<1>6. CASE FlowSave(s)
  <2>1. /\ pc[s] = "save" /\ pc'[s] = "idle" /\ lateCalls'[s] = 0 /\ holds'[s] = NoJob
        /\ UNCHANGED <<todo, chunk>>
    BY <1>2, <1>6 DEF FlowSave, Goto, At, Save, SaveRetry, SaveSucceed, SaveFail, SaveLost,
                SettleRow, Release
  <2> QED
    BY <1>1, <1>3, <2>1 DEF SlotInv, Local, Unsent, Ending, Late, Sending
<1>7. CASE HandlerError(s)
  <2>1. /\ pc'[s] \in {"done", "exhaust"} /\ holds[s] # NoJob
        /\ UNCHANGED <<todo, chunk, holds, lateCalls>>
    BY <1>2, <1>7 DEF HandlerError, AfterError, Goto, vars
  <2> QED
    BY <1>1, <1>3, <2>1 DEF SlotInv, Local, Unsent, Ending, Late, Sending, Target
<1> QED
  BY <1>4, <1>5, <1>6, <1>7

\* A calculation writes rows while the plan is neither applied nor partial.
LEMMA RecalcKeeps ==
    ASSUME Known, OneInv, NEW s \in Slots, RecalcStep(s)
    PROVE  SlotInv(s)' /\ StatusMatchesRows'
<1> USE DEF planVars, ghostVars
<1>1. SlotInv(s) /\ StatusMatchesRows
  BY DEF OneInv
<1>2. /\ UNCHANGED <<todo, chunk, holds, lateCalls>>
      /\ holds[s] # NoJob /\ pc[s] # "save"
  BY DEF RecalcStep, MarkProcessing, InsertItems, RecalcFails, MarkCalculated,
         AutoDispatch, AutoEnqueue, AutoNotEnqueued, Enqueue, At, slotVars, vars
<1>3. Target(s) \in Plans /\ Target(s)' = Target(s)
  BY <1>2, TargetNotFresh DEF OneInv, Target
<1>4. plan \in [Plans -> PlanStatuses] /\ pc \in [Slots -> HandlerPoints \cup {"idle", "save"}]
  BY DEF Known, FlowTyped, FlowTypeOK
<1>5. CASE MarkProcessing(s)
  <2>1. /\ pc'[s] = "insert" /\ UNCHANGED item
        /\ plan' = [plan EXCEPT ![Target(s)] = "processing"]
    BY <1>4, <1>5 DEF MarkProcessing, UpdateStatus, Goto
  <2>2. StatusMatchesRows'
    BY <1>1, <1>4, <2>1, StatusKept
  <2> QED
    BY <1>1, <1>2, <1>3, <1>4, <2>1, <2>2 DEF SlotInv, Local, Unsent, Ending, Late, Sending
<1>6. CASE InsertItems(s)
  <2>1. /\ pc[s] = "insert" /\ pc'[s] = "calculated" /\ UNCHANGED plan
    BY <1>4, <1>6 DEF InsertItems, Goto, At
  <2>2. plan[Target(s)] \notin {"applied", "partial"}
    BY <1>1, <1>2, <2>1 DEF SlotInv, Ending
  <2>3. \A r \in Rows : r[1] # Target(s) => item'[r] = item[r]
    <3>1. PICK calc \in Calculations :
            LET new == {<<Target(s), x, tryNo[s]>> :
                            x \in {y \in Products : calc[y] # "none"}}
                priced(r) == calc[r[2]] \in Prices
            IN  item' = [r \in Rows |->
                    IF r \notin new THEN item[r]
                    ELSE IF priced(r) THEN "pending" ELSE calc[r[2]]]
      BY <1>6 DEF InsertItems
    <3> DEFINE new == {<<Target(s), x, tryNo[s]>> :
                          x \in {y \in Products : calc[y] # "none"}}
    <3>2. \A r \in new : r[1] = Target(s)
      OBVIOUS
    <3> QED
      BY <3>1, <3>2
  <2>4. StatusMatchesRows'
    BY <1>1, <2>1, <2>2, <2>3, StatusKept
  <2> QED
    BY <1>1, <1>2, <1>3, <2>1, <2>4 DEF SlotInv, Local, Unsent, Ending, Late, Sending
<1>7. CASE RecalcFails(s) \/ MarkCalculated(s) \/ AutoDispatch(s) \/ AutoEnqueue(s)
           \/ AutoNotEnqueued(s)
  <2>1. /\ pc'[s] \in {"done", "exhaust", "auto", "enqueue"} /\ UNCHANGED item
        /\ UNCHANGED plan \/ \E st \in {"failed", "calculated", "dispatching"} :
                                UpdateStatus(Target(s), st)
    BY <1>4, <1>7 DEF RecalcFails, AfterError, MarkCalculated, AutoDispatch, AutoEnqueue,
                      AutoNotEnqueued, RollBack, Goto
  <2>2. \A p \in Plans : plan'[p] \in {"applied", "partial"} => plan'[p] = plan[p]
    BY <1>4, <2>1 DEF UpdateStatus
  <2>3. StatusMatchesRows'
    BY <1>1, <2>1, <2>2, StatusKept
  <2> QED
    BY <1>1, <1>2, <1>3, <2>1, <2>3 DEF SlotInv, Local, Unsent, Ending, Late, Sending
<1> QED
  BY <1>5, <1>6, <1>7 DEF RecalcStep

\* Steps of a dispatch that write nothing to the database.
LEMMA ReadsKeep ==
    ASSUME Known, OneInv, NEW s \in Slots,
           \/ ListItems(s) \/ BuildClient(s) \/ NextChunk(s) \/ StopDispatch(s)
           \/ ChunksDone(s) \/ CallSucceeds(s) \/ CallFails(s)
           \/ ListExhausted(s) \/ GivenUp(s) \/ CountItems(s)
    PROVE  SlotInv(s)' /\ StatusMatchesRows'
<1> USE DEF planVars, ghostVars
<1>1. SlotInv(s) /\ StatusMatchesRows
  BY DEF OneInv
<1>2. UNCHANGED <<plan, item, holds>> /\ holds[s] # NoJob
  BY DEF ListItems, BuildClient, NextChunk, StopDispatch, ChunksDone, CallSucceeds, CallFails,
         ListExhausted, GivenUp, CountItems, At, vars
<1>3. Target(s) \in Plans /\ Target(s)' = Target(s)
  BY <1>2, TargetNotFresh DEF OneInv, Target
<1>4. /\ pc \in [Slots -> HandlerPoints \cup {"idle", "save"}]
      /\ todo \in [Slots -> SUBSET Rows]
      /\ chunk \in [Slots -> SUBSET Rows] /\ final \in [Slots -> PlanTerminal \cup {NoFinal}]
      /\ lateCalls \in [Slots -> Nat]
  BY DEF Known, FlowTyped, FlowTypeOK
<1>5. StatusMatchesRows'
  BY <1>1, <1>2 DEF StatusMatchesRows
<1>6. ASSUME UNCHANGED <<todo, chunk>>, pc'[s] # "save" PROVE Local(s)'
  BY <1>1, <1>2, <1>3, <1>6 DEF SlotInv, Local
<1>7. CASE ListItems(s)
  <2>1. /\ pc[s] = "list" /\ pc'[s] \in {"count", "shop"} /\ UNCHANGED <<chunk, lateCalls>>
        /\ todo'[s] = PendingRows(Target(s))
    BY <1>4, <1>7 DEF ListItems, Goto, At
  <2> QED
    BY <1>1, <1>2, <1>3, <1>5, <2>1 DEF SlotInv, Local, Unsent, Ending, Late, Sending,
       PendingRows, RowsOf
<1>8. CASE BuildClient(s) \/ StopDispatch(s) \/ ChunksDone(s) \/ GivenUp(s)
  <2>1. /\ UNCHANGED <<todo, chunk, lateCalls>>
        /\ \/ pc'[s] \in {"done", "count"}
           \/ pc[s] = "shop" /\ pc'[s] \in {"check", "reject"}
    BY <1>4, <1>8 DEF BuildClient, StopDispatch, ChunksDone, GivenUp, Goto, At
  <2>2. Local(s)'
    BY <1>6, <2>1
  <2> QED
    BY <1>1, <1>2, <1>3, <1>5, <2>1, <2>2 DEF SlotInv, Unsent, Ending, Late, Sending
<1>9. CASE NextChunk(s)
  <2>1. PICK c \in SUBSET todo[s] : /\ chunk'[s] = c /\ todo'[s] = todo[s] \ c
    BY <1>4, <1>9 DEF NextChunk
  <2>2. /\ pc[s] = "check" /\ pc'[s] = "call" /\ UNCHANGED <<lateCalls>>
        /\ plan[Target(s)] # "cancelled"
    BY <1>4, <1>9 DEF NextChunk, Goto, At, StillWanted
  <2>3. Local(s)'
    BY <1>1, <1>2, <1>3, <2>1, <2>2 DEF SlotInv, Local
  <2>4. Unsent(s)'
    BY <1>1, <1>2, <2>1, <2>2 DEF SlotInv, Unsent, Sending
  <2>5. Ending(s)' /\ Late(s)'
    BY <1>1, <1>2, <1>3, <2>2 DEF SlotInv, Ending, Late, Sending
  <2> QED
    BY <1>5, <2>3, <2>4, <2>5 DEF SlotInv
<1>10. CASE CallSucceeds(s) \/ CallFails(s)
  <2>1. /\ pc[s] = "call" /\ CountLateCall(s)
        /\ pc'[s] \in {"mark", "done", "exhaust"}
    BY <1>4, <1>10 DEF CallSucceeds, CallFails, AfterError, Goto, At
  <2>2. UNCHANGED <<todo, chunk>>
    BY <1>4, <1>10 DEF CallSucceeds, CallFails, AfterError, Goto
  <2>3. lateCalls'[s] = IF plan[Target(s)] = "cancelled" THEN 1 ELSE 0
    BY <1>1, <1>4, <2>1 DEF SlotInv, Late, CountLateCall
  <2>4. Local(s)'
    BY <1>1, <1>2, <1>3, <2>1, <2>2 DEF SlotInv, Local
  <2>5. Unsent(s)'
    BY <1>1, <1>2, <2>1, <2>2 DEF SlotInv, Unsent, Sending
  <2>6. Ending(s)' /\ Late(s)'
    BY <1>1, <1>2, <1>3, <2>1, <2>3 DEF SlotInv, Ending, Late, Sending
  <2> QED
    BY <1>5, <2>4, <2>5, <2>6 DEF SlotInv
<1>11. CASE ListExhausted(s)
  <2>1. /\ pc'[s] = "giveUp" /\ UNCHANGED <<chunk, lateCalls>>
        /\ todo'[s] = PendingRows(Target(s))
    BY <1>4, <1>11 DEF ListExhausted, Goto, At
  <2>2. plan[Target(s)] \in {"applied", "partial"} => PendingRows(Target(s)) = {}
    BY <1>1, <1>3 DEF StatusMatchesRows, PendingRows
  <2> QED
    BY <1>1, <1>2, <1>3, <1>5, <2>1, <2>2 DEF SlotInv, Local, Unsent, Ending, Late, Sending,
       PendingRows, RowsOf
<1>12. CASE CountItems(s)
  <2>1. /\ UNCHANGED <<todo, chunk, lateCalls>>
        /\ \/ pc'[s] = "done"
           \/ /\ pc'[s] = "write" /\ PendingRows(Target(s)) = {}
              /\ final'[s] = FinalStatus(Target(s))
    BY <1>4, <1>12 DEF CountItems, Goto
  <2>2. Local(s)'
    BY <1>6, <2>1
  <2>3. /\ PendingRows(Target(s))' = PendingRows(Target(s))
        /\ FinalStatus(Target(s))' = FinalStatus(Target(s))
    BY <1>2, <1>3 DEF PendingRows, FinalStatus
  <2>4. Ending(s)'
    BY <2>1, <2>3 DEF Ending, Sending
  <2> QED
    BY <1>1, <1>5, <2>1, <2>2, <2>4 DEF SlotInv, Unsent, Late, Sending
<1> QED
  BY <1>7, <1>8, <1>9, <1>10, <1>11, <1>12

\* Steps of a dispatch that write.
LEMMA WritesKeep ==
    ASSUME Known, OneInv, NEW s \in Slots,
           LoadPlan(s) \/ MarkDispatched(s) \/ FailItem(s) \/ Rejected(s) \/ WriteFinal(s)
    PROVE  SlotInv(s)' /\ StatusMatchesRows'
<1> USE DEF planVars, ghostVars
<1>1. SlotInv(s) /\ StatusMatchesRows
  BY DEF OneInv
<1>2. UNCHANGED <<holds, lateCalls>> /\ holds[s] # NoJob
  BY DEF LoadPlan, MarkDispatched, FailItem, Rejected, WriteFinal, At, vars
<1>3. Target(s) \in Plans /\ Target(s)' = Target(s)
  BY <1>2, TargetNotFresh DEF OneInv, Target
<1>4. /\ pc \in [Slots -> HandlerPoints \cup {"idle", "save"}]
      /\ plan \in [Plans -> PlanStatuses] /\ item \in [Rows -> ItemStatuses]
      /\ todo \in [Slots -> SUBSET Rows] /\ chunk \in [Slots -> SUBSET Rows]
  BY DEF Known, FlowTyped, FlowTypeOK
<1>5. CASE LoadPlan(s)
  <2>1. /\ UNCHANGED <<item, todo, chunk>> /\ pc[s] = "load"
        /\ \/ pc'[s] = "done" /\ UNCHANGED plan
           \/ /\ pc'[s] = "list" /\ plan[Target(s)] \notin {"applied", "partial"}
              /\ UNCHANGED plan \/ plan' = [plan EXCEPT ![Target(s)] = "dispatching"]
    BY <1>4, <1>5 DEF LoadPlan, UpdateStatus, Goto, At, PlanTerminal
  <2>2. \A p \in Plans : plan'[p] \in {"applied", "partial"} => plan'[p] = plan[p]
    BY <1>4, <2>1
  <2>3. StatusMatchesRows'
    BY <1>1, <2>1, <2>2, StatusKept
  <2> QED
    BY <1>1, <1>2, <1>3, <2>1, <2>2, <2>3 DEF SlotInv, Local, Unsent, Ending, Late, Sending
<1>6. CASE MarkDispatched(s)
  <2>1. PICK r \in chunk[s] :
            /\ item' = [item EXCEPT ![r] = "dispatched"] \/ UNCHANGED item
            /\ chunk'[s] = chunk[s] \ {r}
    BY <1>4, <1>6 DEF MarkDispatched, MarkRow
  <2>2. pc[s] = "mark" /\ pc'[s] \in {"check", "mark"} /\ UNCHANGED <<plan, todo>>
    BY <1>4, <1>6 DEF MarkDispatched, Goto, At
  <2>3. r \in Rows /\ r[1] = Target(s) /\ plan[Target(s)] \notin {"applied", "partial"}
    BY <1>1, <1>2, <1>4, <2>2 DEF SlotInv, Local, Ending, Sending, RowsOf
  <2>4. \A x \in Rows : x # r => item'[x] = item[x]
    BY <1>4, <2>1
  <2>5. StatusMatchesRows'
    BY <1>1, <2>2, <2>3, <2>4, StatusKept
  <2>6. Local(s)'
    BY <1>1, <1>2, <1>3, <2>1, <2>2 DEF SlotInv, Local
  <2>7. Unsent(s)'
    <3>1. \A x \in todo[s] : x # r /\ x \in Rows /\ item[x] = "pending"
      BY <1>1, <1>4, <2>2 DEF SlotInv, Unsent, Sending
    <3>2. todo[s] \cap chunk'[s] = {}
      BY <1>1, <2>1, <2>2 DEF SlotInv, Unsent
    <3> QED
      BY <2>2, <2>4, <3>1, <3>2 DEF Unsent
  <2>8. Ending(s)' /\ Late(s)'
    BY <1>1, <1>2, <1>3, <2>2, <2>3 DEF SlotInv, Ending, Late, Sending
  <2> QED
    BY <2>5, <2>6, <2>7, <2>8 DEF SlotInv
<1>7. CASE FailItem(s)
  <2>1. PICK r \in todo[s] :
            /\ item' = [item EXCEPT ![r] = "failed"] \/ UNCHANGED item
            /\ todo'[s] = todo[s] \ {r}
    BY <1>4, <1>7 DEF FailItem, MarkRow
  <2>2. pc[s] \in {"reject", "giveUp"} /\ UNCHANGED <<plan, pc, chunk>>
    BY <1>7 DEF FailItem
  <2>3. r \in Rows /\ r[1] = Target(s) /\ plan[Target(s)] \notin {"applied", "partial"}
    BY <1>1, <1>2, <1>4, <2>2 DEF SlotInv, Local, Ending, RowsOf
  <2>4. \A x \in Rows : x # r => item'[x] = item[x]
    BY <1>4, <2>1
  <2>5. StatusMatchesRows'
    BY <1>1, <2>2, <2>3, <2>4, StatusKept
  <2>6. Local(s)'
    BY <1>1, <1>2, <1>3, <2>1, <2>2 DEF SlotInv, Local
  <2> QED
    BY <1>1, <1>2, <1>3, <2>2, <2>3, <2>5, <2>6 DEF SlotInv, Unsent, Ending, Late, Sending
<1>8. CASE Rejected(s)
  <2>1. /\ UNCHANGED <<item, todo, chunk>> /\ pc'[s] = "done"
        /\ UNCHANGED plan \/ plan' = [plan EXCEPT ![Target(s)] = "failed"]
    BY <1>4, <1>8 DEF Rejected, UpdateStatus, Goto
  <2>2. \A p \in Plans : plan'[p] \in {"applied", "partial"} => plan'[p] = plan[p]
    BY <1>4, <2>1
  <2>3. StatusMatchesRows'
    BY <1>1, <2>1, <2>2, StatusKept
  <2> QED
    BY <1>1, <1>2, <1>3, <2>1, <2>3 DEF SlotInv, Local, Unsent, Ending, Late, Sending
<1>9. CASE WriteFinal(s)
  <2>1. /\ UNCHANGED <<item, todo, chunk>> /\ pc[s] = "write" /\ pc'[s] = "done"
        /\ plan' = [plan EXCEPT ![Target(s)] = final[s]]
    BY <1>4, <1>9 DEF WriteFinal, UpdateStatus, Goto, At
  <2>2. PendingRows(Target(s)) = {} /\ plan'[Target(s)] = FinalStatus(Target(s))
    BY <1>1, <1>2, <1>3, <1>4, <2>1 DEF SlotInv, Ending
  <2>3. StatusMatchesRows'
    <3> SUFFICES ASSUME NEW p \in Plans
        PROVE  LET has(st) == \E r \in Rows : r[1] = p /\ item'[r] = st IN
            /\ plan'[p] = "applied" => ~has("pending") /\ ~has("failed")
            /\ plan'[p] = "partial" => ~has("pending") /\ has("dispatched") /\ has("failed")
      BY DEF StatusMatchesRows
    <3>1. CASE p = Target(s)
      BY <2>1, <2>2, <3>1 DEF FinalStatus, PendingRows
    <3>2. CASE p # Target(s)
      <4>1. plan'[p] = plan[p] /\ item' = item
        BY <1>4, <2>1, <3>2
      <4> QED
        BY <1>1, <4>1 DEF StatusMatchesRows
    <3> QED
      BY <3>1, <3>2
  <2> QED
    BY <1>1, <1>2, <1>3, <2>1, <2>3 DEF SlotInv, Local, Unsent, Ending, Late, Sending
<1> QED
  BY <1>5, <1>6, <1>7, <1>8, <1>9

-----------------------------------------------------------------------------
(* OneInv is inductive.                                                    *)

LEMMA CrashKeeps ==
    ASSUME Known, OneInv, FlowCrash
    PROVE  OneInv'
<1> USE DEF planVars
<1>1. UNCHANGED <<plan, item, api, status>>
  BY DEF FlowCrash, Crash, rowVars
<1>2. FreshInv'
  BY <1>1, FreshKept DEF OneInv
<1>3. StatusMatchesRows'
  BY <1>1 DEF OneInv, StatusMatchesRows
<1>4. ASSUME NEW s \in Slots PROVE SlotInv(s)'
  <2>1. /\ pc'[s] = "idle" /\ todo'[s] = {} /\ chunk'[s] = {}
        /\ lateCalls'[s] = 0 /\ holds'[s] = NoJob
    BY DEF FlowCrash, Crash
  <2> QED
    BY <2>1 DEF SlotInv, Local, Unsent, Ending, Late, Sending
<1> QED
  BY <1>2, <1>3, <1>4 DEF OneInv

LEMMA OneInitially == ASSUME FlowInit PROVE OneInv
<1>1. FreshInv
  BY DEF FlowInit, Init, FreshInv, NoRequestOn, OneCreator, Fresh, Unused, NoRequest
<1>2. StatusMatchesRows
  BY DEF FlowInit, StatusMatchesRows
<1>3. \A s \in Slots : SlotInv(s)
  BY DEF FlowInit, Init, SlotInv, Local, Unsent, Ending, Late, Sending
<1> QED
  BY <1>1, <1>2, <1>3 DEF OneInv

\* The one goroutine is the only slot there is, so its own step is all that has
\* to be looked at.
LEMMA OneStep ==
    ASSUME OneGoroutine, Known, OneInv, [FlowNext]_allVars
    PROVE  OneInv'
<1>1. ASSUME NEW s \in Slots, SlotStep(s) PROVE OneInv'
  <2>1. SlotInv(s)' /\ StatusMatchesRows'
    BY <1>1, EdgesKeep, RecalcKeeps, ReadsKeep, WritesKeep DEF SlotStep, DispatchStep
  <2>2. FreshInv'
    BY <1>1, SlotKeepsFresh DEF OneInv
  <2>3. \A t \in Slots : t = s
    BY DEF OneGoroutine
  <2> QED
    BY <2>1, <2>2, <2>3 DEF OneInv
<1> QED
  BY <1>1, OutsideKeeps, CrashKeeps DEF FlowNext

LEMMA KnownAlways == FlowSpec => []Known
<1>1. FlowInit => FlowTyped
  BY DEF FlowInit, FlowTyped, FlowTypeOK, PlanStatuses, ItemStatuses, Requests
<1>2. FlowTyped /\ [FlowNext]_allVars => FlowTyped'
  BY FlowStepKeepsTyped
<1>3. FlowTyped /\ QueueInv => Known
  BY DEF Known
<1> QED
  BY <1>1, <1>2, <1>3, FlowRunsTheQueue, QueueInvariant, PTL DEF FlowSpec, RunsTheQueue

\* What stands in every state of a worker with one goroutine.
THEOREM OneGoroutineInvariant == ASSUME OneGoroutine PROVE FlowSpec => []OneInv
<1>1. FlowInit => OneInv
  BY OneInitially
<1>2. Known /\ OneInv /\ [FlowNext]_allVars => OneInv'
  BY OneStep
<1> QED
  BY <1>1, <1>2, KnownAlways, PTL DEF FlowSpec

\* With one goroutine, a price is sent while its row is pending, and not again
\* once the row is marked dispatched.
THEOREM PricesSentUntilMarked == ASSUME OneGoroutine PROVE FlowSpec => []SentUntilMarked
<1>1. OneInv => SentUntilMarked
  BY DEF OneInv, SlotInv, Unsent, Sending, SentUntilMarked, At
<1> QED
  BY <1>1, OneGoroutineInvariant, PTL

\* With one goroutine, a plan is called applied or partial when no row is pending
\* and the failed and dispatched ones are as the word says.
THEOREM EndsMatchRows == ASSUME OneGoroutine PROVE FlowSpec => []StatusMatchesRows
<1>1. OneInv => StatusMatchesRows
  BY DEF OneInv
<1> QED
  BY <1>1, OneGoroutineInvariant, PTL

\* With one goroutine, a dispatch sends at most the chunk it was at when its plan
\* was cancelled.
THEOREM CancelStopsSending == ASSUME OneGoroutine PROVE FlowSpec => []CancelStopsWithinChunk
<1>1. OneInv => CancelStopsWithinChunk
  BY DEF OneInv, SlotInv, Late, CancelStopsWithinChunk
<1> QED
  BY <1>1, OneGoroutineInvariant, PTL
=============================================================================
