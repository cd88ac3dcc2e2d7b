----------------------------- MODULE MCPlanFlow -----------------------------
(* Small instances of PlanFlow for TLC: one plan, its recalculation job and *)
(* one or two dispatch jobs, with one or two attempts.                      *)
EXTENDS PlanFlow, TLC

CONSTANTS r1, d1, d2, p1, x1, x2, lo

FlowKind == [j \in Jobs |-> IF j = r1 THEN "price_recalculation"
                                      ELSE "price_dispatch"]
FlowPriority == [j \in Jobs |-> 100]
FlowMax      == [j \in Jobs |-> 2]
RecalcTwice   == [j \in Jobs |-> IF j = r1 THEN 2 ELSE 1]
DispatchTwice == [j \in Jobs |-> IF j = r1 THEN 1 ELSE 2]
FlowPlan     == [j \in Jobs |-> p1]

\* One product with a price to send.
OneProduct == [{x1} -> {lo}]

\* Two products: both priced, or the second one skipped or failed.
TwoProducts == {(x1 :> lo) @@ (x2 :> y) : y \in {lo, "skipped", "failed"}}

\* Every variable but accepted, which no step reads, and of the properties of
\* the runs that use this view only the type invariant.
WithoutAccepted == <<vars, planVars, localVars, api, answered, calcRuns, lateCalls>>

\* The slots are interchangeable.
SlotSymmetry == Permutations(Slots)
=============================================================================
