----------------------------- MODULE MCScheduler -----------------------------
(* A small instance of Scheduler for TLC: one shop, two competitors.        *)
EXTENDS Scheduler

CONSTANTS h1, c1, c2

MCShopOf  == [c \in CompIds |-> h1]
MCCrons   == {NoCron, BadCron, 2, 3}

\* A shop from before its credentials were sealed.
MCExisting == {[status |-> "active", creds |-> "plain", cron |-> 2,
                last |-> NoVal, created |-> 0]}

MCPatches == {("cron" :> NoCron), ("cron" :> BadCron), ("cron" :> 3),
              ("creds" :> "sealed")}

\* Products of both marketplaces with the same number, and another one.
MCTargets == {[market |-> "ozon", id |-> 1], [market |-> "wb", id |-> 1],
              [market |-> "ozon", id |-> 2]}

Budget(l, m, s, c, f) ==
    [lag |-> l, minutes |-> m, shops |-> s, comps |-> c, faults |-> f]

\* The schedule, with and without a clock that is behind; the competitors,
\* with their shop deleted under them or with faults.
MCBudgets == {Budget(0, 3, 2, 0, 0), Budget(1, 3, 1, 0, 1),
              Budget(0, 0, 1, 1, 1), Budget(0, 0, 0, 2, 1)}
=============================================================================
